------------------------- MODULE DelegatedSendProofs -------------------------
(***************************************************************************)
(* That a wallet is never made to delegate to an address without code on   *)
(* its chain, for every history of deploys, releases and sends;            *)
(* and that the page of the vault shows what is asked, marks what is       *)
(* dangerous, signs what the wallet accepts, and adds up what a run moves, *)
(* for every request.                                                      *)
(***************************************************************************)
EXTENDS DelegatedSend, FiniteSetTheorems, WellFoundedInduction, TLAPS

Deployable == {Address(1), Address(2)}
Delegates == Deployable \cup Typed
Parts == PairOf(Address(1)) \cup PairOf(Address(2))

(* The types of the release side.                                          *)
ReleaseTypes ==
  /\ source \in 1 .. 2 /\ golden \in 1 .. 2 /\ deploys \in 0 .. MaxDeploys
  /\ slots \in [CHAIN_PROFILES -> {Pending} \cup Delegates]
  /\ published \in [CHAIN_PROFILES -> {Pending} \cup Delegates]
  /\ artifact \in [CHAIN_PROFILES -> {NoFile} \cup Deployable]
  /\ code \in [CHAIN_PROFILES -> SUBSET Parts]

(* What a run of the deploy script knows at each of its stages.            *)
CliKnows ==
  /\ cli.at \in {"idle", "forge", "confirm", "artifact", "write"}
  /\ cli.at # "idle" =>
       /\ {"at", "chain", "rpc", "golden", "version"} \subseteq DOMAIN cli
       /\ cli.rpc \in CHAIN_PROFILES /\ cli.golden \in Deployable
  /\ cli.at \in {"confirm", "artifact", "write"} => artifact[cli.rpc] = cli.version
  /\ cli.at \in {"artifact", "write"} => PairOf(cli.version) \subseteq code[cli.rpc]
  /\ cli.at = "write" => artifact[cli.chain] = cli.golden

(* There is one address the registry may name.                             *)
OneAddress == \E a : \A c \in CHAIN_PROFILES : slots[c] \in {Pending, a}

ReleaseInv == ReleaseTypes /\ CliKnows /\ OneAddress

(* A send asks for no delegation, or for one to an address with code.      *)
SendAsksForCode ==
  opener = "send" =>
    /\ ChainOf(request) \in CHAIN_PROFILES
    /\ request.contractAddress = NoAddress
    /\ request.address # NoAddress =>
         request.address \in Delegates /\ HasCode(ChainOf(request), request.address)

(* A page that is not open has no answer, and an answer authorizes what    *)
(* the request asked for.                                                  *)
AnswerIsOfTheRequest ==
  /\ stage = "closed" => answer = NoAnswer
  /\ answer.kind = "signature" /\ answer.authorization => Authorization(request)

WalletTypes ==
  /\ walletCode \in [CHAIN_PROFILES -> {"none"} \cup Delegates]
  /\ \A c \in CHAIN_PROFILES : walletCode[c] # "none" => HasCode(c, walletCode[c])

IDelegation == ReleaseInv /\ SendAsksForCode /\ AnswerIsOfTheRequest /\ WalletTypes

-----------------------------------------------------------------------------
(* Facts about names, pairs and runs.                                      *)

LEMMA VersionsAreDeployable ==
  ASSUME NEW n \in 1 .. 2
  PROVE  Address(n) \in Deployable /\ PairOf(Address(n)) \subseteq Parts
BY DEF Deployable, Parts

(* A run that goes on keeps what it was called with.                       *)
LEMMA RunGoesOn ==
  ASSUME NEW at, at # "idle", CliGoes(at), {"at", "chain", "rpc", "golden", "version"} \subseteq DOMAIN cli
  PROVE  /\ cli'.at = at /\ DOMAIN cli' = DOMAIN cli
         /\ cli'.rpc = cli.rpc /\ cli'.chain = cli.chain
         /\ cli'.golden = cli.golden /\ cli'.version = cli.version
BY DEF CliGoes

-----------------------------------------------------------------------------
(* The release side, one action at a time.                                 *)

LEMMA ReleaseStart == DelegatedInit => ReleaseInv
<1> SUFFICES ASSUME DeployInit PROVE ReleaseInv
  BY DEF DelegatedInit
<1> USE DEF DeployInit
<1>1. ReleaseTypes
  <2>1. slots \in [CHAIN_PROFILES -> {Pending} \cup Delegates] /\ published = slots
    BY DEF Delegates, Deployable
  <2>2. artifact \in [CHAIN_PROFILES -> {NoFile} \cup Deployable]
    BY DEF Deployable
  <2>3. PICK made \in [Reached -> SUBSET PairOf(Address(1))] :
          code = [c \in CHAIN_PROFILES |-> IF c \in Reached THEN made[c] ELSE {}]
    OBVIOUS
  <2>4. code \in [CHAIN_PROFILES -> SUBSET Parts]
    BY <2>3 DEF Parts
  <2> QED
    BY <2>1, <2>2, <2>4, DeploymentAssumption DEF ReleaseTypes
<1>2. CliKnows
  BY DEF CliKnows, Idle
<1>3. OneAddress
  BY DEF OneAddress
<1> QED
  BY <1>1, <1>2, <1>3 DEF ReleaseInv

(* The registry and the working tree are of no chain.                      *)
LEMMA TreeStep ==
  ASSUME ReleaseInv, UNCHANGED <<artifact, code, cli, deploys>>,
         ChangeContracts \/ UpdateGolden \/ Publish \/ WriteCanonicalAddress
  PROVE  ReleaseInv'
<1> USE DEF ReleaseInv
<1>1. ReleaseTypes'
  <2>1. CASE ChangeContracts
    BY <2>1 DEF ReleaseTypes, ChangeContracts, chainSide
  <2>2. CASE UpdateGolden
    BY <2>2 DEF ReleaseTypes, UpdateGolden, chainSide
  <2>3. CASE Publish
    BY <2>3 DEF ReleaseTypes, Publish, chainSide, treeVars
  <2>4. CASE WriteCanonicalAddress
    <3>1. PICK address \in Delegates : slots' = [c \in CHAIN_PROFILES |-> address]
      BY <2>4 DEF WriteCanonicalAddress, ApplyWriteback, ReleaseTypes, Delegates
    <3> QED
      BY <2>4, <3>1 DEF ReleaseTypes, WriteCanonicalAddress, treeVars
  <2> QED
    BY <2>1, <2>2, <2>3, <2>4
<1>2. CliKnows'
  BY DEF CliKnows
<1>3. OneAddress'
  <2>1. CASE WriteCanonicalAddress
    BY <2>1 DEF OneAddress, WriteCanonicalAddress, ApplyWriteback
  <2>2. CASE UNCHANGED slots
    BY <2>2 DEF OneAddress
  <2> QED
    BY <2>1, <2>2 DEF ChangeContracts, UpdateGolden, Publish
<1> QED
  BY <1>1, <1>2, <1>3

(* Code only comes to the chains.                                          *)
LEMMA MineStep ==
  ASSUME ReleaseInv, MineDeploy
  PROVE  ReleaseInv' /\ \A c \in CHAIN_PROFILES : code[c] \subseteq code'[c]
<1> USE DEF ReleaseInv
<1>0. UNCHANGED <<source, golden, slots, artifact, cli, deploys, published>>
  BY DEF MineDeploy, OutsideForge, treeVars
<1>1. PICK c \in Reached, n \in 1 .. source : \E what \in PairOf(Address(n)) \ code[c] :
        code' = [code EXCEPT ![c] = @ \cup {what}]
  BY DEF MineDeploy
<1>2. PICK what \in PairOf(Address(n)) : code' = [code EXCEPT ![c] = @ \cup {what}]
  BY <1>1
<1>3. c \in CHAIN_PROFILES /\ what \in Parts
  <2>1. n \in 1 .. 2
    BY DEF ReleaseTypes
  <2> QED
    BY <1>2, <2>1, DeploymentAssumption, VersionsAreDeployable
<1>4. ReleaseTypes'
  BY <1>0, <1>2, <1>3 DEF ReleaseTypes
<1>5. \A d \in CHAIN_PROFILES : code[d] \subseteq code'[d]
  BY <1>2 DEF ReleaseTypes
<1>6. CliKnows'
  BY <1>0, <1>5 DEF CliKnows
<1>7. OneAddress'
  BY <1>0 DEF OneAddress
<1> QED
  BY <1>4, <1>5, <1>6, <1>7

(* A run that only goes on, or ends, leaves everything else as it was.     *)
LEMMA CliStep ==
  ASSUME ReleaseInv, CliKnows', UNCHANGED <<source, golden, slots, artifact, code, published>>,
         deploys' \in 0 .. MaxDeploys
  PROVE  ReleaseInv'
<1>1. ReleaseTypes'
  BY DEF ReleaseInv, ReleaseTypes
<1>2. OneAddress'
  BY DEF ReleaseInv, OneAddress
<1> QED
  BY <1>1, <1>2 DEF ReleaseInv

LEMMA RunStep ==
  ASSUME ReleaseInv, NEW run \in Runs, RunDeploy(run)
  PROVE  ReleaseInv' /\ UNCHANGED code
<1>1. /\ cli'.at = "forge" /\ cli'.rpc = run.rpc /\ cli'.golden = Address(golden)
      /\ DOMAIN cli' = {"at", "chain", "rpc", "broadcast", "force", "golden", "version"}
  BY DEF RunDeploy
<1>2. run.rpc \in CHAIN_PROFILES /\ Address(golden) \in Deployable
  BY DeploymentAssumption, VersionsAreDeployable DEF ReleaseInv, ReleaseTypes
<1>3. CliKnows'
  BY <1>1, <1>2 DEF CliKnows
<1>4. deploys' \in 0 .. MaxDeploys
  BY DeploymentAssumption DEF RunDeploy, ReleaseInv, ReleaseTypes
<1> QED
  BY <1>3, <1>4, CliStep DEF RunDeploy, treeVars, chainSide

(* forge has failed, or has written its file, and sends both transactions.  *)
LEMMA ForgeStep ==
  ASSUME ReleaseInv, ForgeScript
  PROVE  ReleaseInv' /\ UNCHANGED code
<1> DEFINE version == Address(source)
<1>1. UNCHANGED <<source, golden, slots, code, deploys, published>> /\ cli.at = "forge"
  BY DEF ForgeScript, OutsideForge, treeVars
<1>2. version \in Deployable /\ PairOf(version) \subseteq Parts
  BY VersionsAreDeployable DEF ReleaseInv, ReleaseTypes
<1>3. CASE CliGoes("idle") /\ UNCHANGED artifact
  <2>1. CliKnows'
    BY <1>3 DEF CliGoes, Idle, CliKnows
  <2> QED
    BY <1>1, <1>3, <2>1, CliStep DEF ReleaseInv, ReleaseTypes
<1>4. CASE /\ artifact' = [artifact EXCEPT ![cli.rpc] = version]
           /\ cli' = [cli EXCEPT !.at = "confirm", !.version = version]
  <2>1. /\ {"at", "chain", "rpc", "golden", "version"} \subseteq DOMAIN cli
        /\ cli.rpc \in CHAIN_PROFILES /\ cli.golden \in Deployable
    BY <1>1 DEF ReleaseInv, CliKnows
  <2>2. /\ cli'.at = "confirm" /\ cli'.version = version /\ DOMAIN cli' = DOMAIN cli
        /\ cli'.rpc = cli.rpc /\ cli'.golden = cli.golden
    BY <1>4, <2>1
  <2>3. artifact'[cli.rpc] = version
    BY <1>4, <2>1 DEF ReleaseInv, ReleaseTypes
  <2>4. CliKnows'
    BY <2>1, <2>2, <2>3 DEF CliKnows
  <2>5. ReleaseTypes'
    BY <1>1, <1>2, <1>4, <2>1 DEF ReleaseInv, ReleaseTypes
  <2>6. OneAddress'
    BY <1>1 DEF ReleaseInv, OneAddress
  <2> QED
    BY <1>1, <2>4, <2>5, <2>6 DEF ReleaseInv
<1> QED
  BY <1>3, <1>4 DEF ForgeScript

LEMMA ForgeSucceedsStep ==
  ASSUME ReleaseInv, ForgeSucceeds
  PROVE  ReleaseInv' /\ UNCHANGED code
<1>1. /\ UNCHANGED <<source, golden, slots, artifact, code, deploys, published>>
      /\ cli.at = "confirm" /\ PairOf(cli.version) \subseteq code[cli.rpc]
  BY DEF ForgeSucceeds, Confirmed, OutsideForge, treeVars, chainSide
<1>2. CliGoes("artifact") /\ {"at", "chain", "rpc", "golden", "version"} \subseteq DOMAIN cli
  BY <1>1 DEF ForgeSucceeds, ReleaseInv, CliKnows
<1>3. /\ cli'.at = "artifact" /\ DOMAIN cli' = DOMAIN cli /\ cli'.rpc = cli.rpc
      /\ cli'.golden = cli.golden /\ cli'.version = cli.version
  BY <1>2, RunGoesOn
<1>4. CliKnows'
  BY <1>1, <1>3 DEF ReleaseInv, CliKnows
<1> QED
  BY <1>1, <1>4, CliStep DEF ReleaseInv, ReleaseTypes

LEMMA DiesStep ==
  ASSUME ReleaseInv, DeployDies
  PROVE  ReleaseInv' /\ UNCHANGED code
<1>1. UNCHANGED <<source, golden, slots, artifact, code, deploys, published>> /\ cli'.at = "idle"
  BY DEF DeployDies, CliGoes, Idle, OutsideForge, treeVars, chainSide
<1>2. CliKnows'
  BY <1>1 DEF CliKnows
<1> QED
  BY <1>1, <1>2, CliStep DEF ReleaseInv, ReleaseTypes

LEMMA ArtifactStep ==
  ASSUME ReleaseInv, ReadArtifact
  PROVE  ReleaseInv' /\ UNCHANGED code
<1>1. UNCHANGED <<source, golden, slots, artifact, code, deploys, published>> /\ cli.at = "artifact"
  BY DEF ReadArtifact, OutsideForge, treeVars, chainSide
<1>2. CASE artifact[cli.chain] = cli.golden
  <2>1. CliGoes("write") /\ {"at", "chain", "rpc", "golden", "version"} \subseteq DOMAIN cli
    BY <1>1, <1>2 DEF ReadArtifact, ReleaseInv, CliKnows
  <2>2. /\ cli'.at = "write" /\ DOMAIN cli' = DOMAIN cli /\ cli'.rpc = cli.rpc /\ cli'.chain = cli.chain
        /\ cli'.golden = cli.golden /\ cli'.version = cli.version
    BY <2>1, RunGoesOn
  <2>3. CliKnows'
    BY <1>1, <1>2, <2>2 DEF ReleaseInv, CliKnows
  <2> QED
    BY <1>1, <2>3, CliStep DEF ReleaseInv, ReleaseTypes
<1>3. CASE artifact[cli.chain] # cli.golden
  <2>1. CliKnows'
    BY <1>3 DEF ReadArtifact, CliGoes, Idle, CliKnows
  <2> QED
    BY <1>1, <2>1, CliStep DEF ReleaseInv, ReleaseTypes
<1> QED
  BY <1>2, <1>3

(* The registry is written with an address that has code where it was      *)
(* deployed.                                                               *)
LEMMA WriteStep ==
  ASSUME ReleaseInv, WriteRegistry
  PROVE  /\ ReleaseInv' /\ UNCHANGED code
         /\ cli.rpc = cli.chain => PairOf(cli.golden) \subseteq code[cli.chain]
<1>1. UNCHANGED <<source, golden, artifact, code, deploys, published>> /\ cli.at = "write"
  BY DEF WriteRegistry, treeVars, chainSide
<1>2. cli.golden \in Deployable
  BY <1>1 DEF ReleaseInv, CliKnows
<1>3. CliKnows'
  BY DEF WriteRegistry, CliGoes, Idle, CliKnows
<1>4. slots' = slots \/ slots' = [c \in CHAIN_PROFILES |-> cli.golden]
  BY DEF WriteRegistry, ApplyWriteback
<1>5. OneAddress'
  BY <1>4 DEF ReleaseInv, OneAddress
<1>6. ReleaseTypes'
  BY <1>1, <1>2, <1>4 DEF ReleaseInv, ReleaseTypes, Delegates
<1>7. cli.rpc = cli.chain => PairOf(cli.golden) \subseteq code[cli.chain]
  BY <1>1 DEF ReleaseInv, CliKnows
<1> QED
  BY <1>1, <1>3, <1>5, <1>6, <1>7 DEF ReleaseInv

(* No release takes code from a chain.                                     *)
LEMMA ReleaseKeeps ==
  ASSUME ReleaseInv, DeployNext
  PROVE  ReleaseInv' /\ \A c \in CHAIN_PROFILES : code[c] \subseteq code'[c]
<1>1. CASE ChangeContracts \/ UpdateGolden \/ Publish \/ WriteCanonicalAddress
  <2>1. UNCHANGED <<artifact, code, cli, deploys>>
    BY <1>1 DEF ChangeContracts, UpdateGolden, Publish, WriteCanonicalAddress, chainSide
  <2> QED
    BY <1>1, <2>1, TreeStep
<1>2. CASE MineDeploy
  BY <1>2, MineStep
<1>3. CASE ForgeScript \/ ForgeSucceeds
  BY <1>3, ForgeStep, ForgeSucceedsStep
<1>4. CASE DeployDies \/ ReadArtifact \/ WriteRegistry
  BY <1>4, DiesStep, ArtifactStep, WriteStep
<1>5. ASSUME NEW run \in Runs, RunDeploy(run)
      PROVE  ReleaseInv' /\ UNCHANGED code
  BY <1>5, RunStep
<1> QED
  BY <1>1, <1>2, <1>3, <1>4, <1>5 DEF DeployNext

-----------------------------------------------------------------------------
(* The page, and the chain that takes its authorization.                   *)

LEMMA PageKeepsTheRequest ==
  ASSUME AnswerIsOfTheRequest, Next
  PROVE  AnswerIsOfTheRequest' /\ request' = request
<1> USE DEF AnswerIsOfTheRequest
<1>1. CASE Decode
  BY <1>1 DEF Decode, Authorization
<1>2. CASE Simulate
  BY <1>2 DEF Simulate, Authorization
<1>3. CASE Reject
  BY <1>3 DEF Reject, Rejection, pageVars
<1>4. CASE Approve
  BY <1>4 DEF Approve, pageVars, Authorization
<1>5. CASE DiscoverFails
  BY <1>5 DEF DiscoverFails, FailGesture, Authorization
<1>6. CASE Derive
  BY <1>6 DEF Derive, FailGesture, Authorization
<1>7. CASE PerformSign
  <2>1. CASE Refused(holder)
    BY <1>7, <2>1 DEF PerformSign, FailGesture, Authorization
  <2>2. CASE ~Refused(holder)
    <3>1. stage' = "answered" /\ request' = request /\ answer' = Signature(holder)
      BY <1>7, <2>2 DEF PerformSign
    <3>2. answer'.authorization => Authorization(request)
      BY <3>1, Zenon DEF Signature
    <3> QED
      BY <3>1, <3>2 DEF Authorization
  <2> QED
    BY <2>1, <2>2
<1>8. ASSUME NEW c \in Credentials, Discover(c)
      PROVE  AnswerIsOfTheRequest' /\ request' = request
  BY <1>8 DEF Discover, pageVars, Authorization
<1> QED
  BY <1>1, <1>2, <1>3, <1>4, <1>5, <1>6, <1>7, <1>8 DEF Next

(* What code a chain has, it keeps: what a page was asked, and what a      *)
(* wallet delegates to, goes on working.                                   *)
LEMMA CodeStays ==
  ASSUME IDelegation, UNCHANGED <<request, opener, walletCode>>,
         \A c \in CHAIN_PROFILES : code[c] \subseteq code'[c]
  PROVE  SendAsksForCode' /\ WalletTypes'
<1>1. SendAsksForCode'
  BY DEF IDelegation, SendAsksForCode, ChainOf, Delegates, Deployable, Address, HasCode
<1>2. WalletTypes'
  BY DEF IDelegation, WalletTypes, Delegates, Deployable, Address, HasCode
<1> QED
  BY <1>1, <1>2

LEMMA ReleaseUntouched ==
  ASSUME ReleaseInv, UNCHANGED deployVars
  PROVE  ReleaseInv'
<1>1. UNCHANGED <<source, golden, slots, artifact, code, cli, deploys, published>>
  BY DEF deployVars, treeVars, chainSide
<1>2. CliKnows' /\ deploys' \in 0 .. MaxDeploys
  BY <1>1 DEF ReleaseInv, ReleaseTypes, CliKnows
<1> QED
  BY <1>1, <1>2, CliStep

(* What resolveChainByName and leanResolve let through.                    *)
LEMMA ResolvedDelegateWorks ==
  ASSUME ReleaseInv, NEW c \in CHAIN_PROFILES, Resolves(c), AuthorizationOf(c) # NoAddress
  PROVE  AuthorizationOf(c) \in Delegates /\ HasCode(c, AuthorizationOf(c))
<1>1. walletCode[c] # published[c] /\ AuthorizationOf(c) = published[c]
  BY DEF AuthorizationOf
<1>2. published[c] # Pending /\ HasCode(c, published[c])
  BY <1>1 DEF Resolves
<1>3. published[c] \in Delegates
  BY <1>2 DEF ReleaseInv, ReleaseTypes
<1> QED
  BY <1>1, <1>2, <1>3

LEMMA OpenStep ==
  ASSUME IDelegation, OpenOfApp \/ OpenOfSend
  PROVE  IDelegation'
<1>1. /\ UNCHANGED <<deployVars, walletCode, answer>>
      /\ stage = "closed" /\ stage' = "decode"
  BY DEF OpenOfApp, OpenOfSend, Open
<1>2. ReleaseInv'
  BY <1>1, ReleaseUntouched DEF IDelegation
<1>3. AnswerIsOfTheRequest'
  BY <1>1 DEF IDelegation, AnswerIsOfTheRequest, NoAnswer
<1>4. WalletTypes'
  BY <1>1 DEF IDelegation, WalletTypes, deployVars, chainSide, Delegates, Deployable, Address, HasCode
<1>5. SendAsksForCode'
  <2>1. CASE OpenOfApp
    BY <2>1 DEF OpenOfApp, Open, SendAsksForCode
  <2>2. CASE OpenOfSend
    <3>1. PICK name \in SendChains, rail \in {"native-gas", "sponsored"}, calls \in UserCalls :
            /\ Resolves(ResolveChainByName(name))
            /\ request' = SendRequest(rail, ResolveChainByName(name), calls)
      BY <2>2 DEF OpenOfSend, Open
    <3> DEFINE c == ResolveChainByName(name)
    <3>2. c \in CHAIN_PROFILES
      BY SendChainsAssumption
    <3>3. /\ ChainOf(request') = c /\ request'.contractAddress = NoAddress
          /\ request'.address = AuthorizationOf(c)
      BY <3>1 DEF SendRequest, ChainOf
    <3>4. AuthorizationOf(c) # NoAddress =>
            AuthorizationOf(c) \in Delegates /\ HasCode(c, AuthorizationOf(c))
      BY <3>1, <3>2, ResolvedDelegateWorks DEF IDelegation
    <3>5. code' = code
      BY <1>1 DEF deployVars, chainSide
    <3> HIDE DEF c
    <3> QED
      BY <3>2, <3>3, <3>4, <3>5 DEF SendAsksForCode, ChainOf, Delegates, Deployable, Address, HasCode
  <2> QED
    BY <2>1, <2>2
<1> QED
  BY <1>2, <1>3, <1>4, <1>5 DEF IDelegation

LEMMA PageStepKeeps ==
  ASSUME IDelegation, PageStep
  PROVE  IDelegation'
<1>1. AnswerIsOfTheRequest' /\ request' = request
  BY PageKeepsTheRequest DEF IDelegation, PageStep
<1>2. UNCHANGED <<deployVars, walletCode, opener>>
  BY DEF PageStep
<1>3. ReleaseInv'
  BY <1>2, ReleaseUntouched DEF IDelegation
<1>4. SendAsksForCode' /\ WalletTypes'
  BY <1>1, <1>2, CodeStays DEF deployVars, chainSide
<1> QED
  BY <1>1, <1>3, <1>4 DEF IDelegation

LEMMA ReleaseStepKeeps ==
  ASSUME IDelegation, ReleaseStep
  PROVE  IDelegation'
<1>1. ReleaseInv' /\ \A c \in CHAIN_PROFILES : code[c] \subseteq code'[c]
  BY ReleaseKeeps DEF IDelegation, ReleaseStep
<1>2. UNCHANGED <<request, stage, answer, walletCode, opener>>
  BY DEF ReleaseStep, vars, pageVars
<1>3. AnswerIsOfTheRequest'
  BY <1>2 DEF IDelegation, AnswerIsOfTheRequest, Authorization
<1> QED
  BY <1>1, <1>2, <1>3, CodeStays DEF IDelegation

(* A signed authorization of a send.                                       *)
LEMMA SignedDelegateWorks ==
  ASSUME IDelegation, answer.kind = "signature", opener = "send", answer.authorization
  PROVE  /\ ChainOf(request) \in CHAIN_PROFILES /\ request.address \in Delegates
         /\ HasCode(ChainOf(request), request.address)
<1>1. Authorization(request)
  BY DEF IDelegation, AnswerIsOfTheRequest
<1>2. {request.address, request.contractAddress} # {NoAddress}
  BY <1>1 DEF Authorization
<1> QED
  BY <1>2 DEF IDelegation, SendAsksForCode

LEMMA DelegateStep ==
  ASSUME IDelegation, Delegate
  PROVE  IDelegation'
<1>1. /\ walletCode' = [walletCode EXCEPT ![ChainOf(request)] = request.address]
      /\ UNCHANGED <<request, stage, answer, deployVars, opener>>
  BY DEF Delegate, vars, pageVars
<1>2. /\ ChainOf(request) \in CHAIN_PROFILES /\ request.address \in Delegates
      /\ HasCode(ChainOf(request), request.address)
  BY SignedDelegateWorks DEF Delegate
<1>3. ReleaseInv'
  BY <1>1, ReleaseUntouched DEF IDelegation
<1>4. AnswerIsOfTheRequest'
  BY <1>1 DEF IDelegation, AnswerIsOfTheRequest, Authorization
<1>5. code' = code
  BY <1>1 DEF deployVars, chainSide
<1>6. SendAsksForCode'
  BY <1>1, <1>5 DEF IDelegation, SendAsksForCode, ChainOf, Delegates, Deployable, Address, HasCode
<1>7. walletCode' \in [CHAIN_PROFILES -> {"none"} \cup Delegates]
  BY <1>1, <1>2 DEF IDelegation, WalletTypes
<1>8. ASSUME NEW c \in CHAIN_PROFILES, walletCode'[c] # "none"
      PROVE  HasCode(c, walletCode'[c])
  BY <1>1, <1>2, <1>8 DEF IDelegation, WalletTypes
<1>9. WalletTypes'
  BY <1>5, <1>7, <1>8 DEF WalletTypes, Delegates, Deployable, Address, HasCode
<1> QED
  BY <1>3, <1>4, <1>6, <1>9 DEF IDelegation

-----------------------------------------------------------------------------
(* Theorems.                                                               *)

LEMMA DelegationStart == DelegatedInit => IDelegation
<1> SUFFICES ASSUME DelegatedInit PROVE IDelegation
  OBVIOUS
<1>1. ReleaseInv
  BY ReleaseStart
<1>2. SendAsksForCode
  BY DEF DelegatedInit, SendAsksForCode
<1>3. AnswerIsOfTheRequest
  BY DEF DelegatedInit, AnswerIsOfTheRequest, NoAnswer
<1>4. WalletTypes
  BY DEF DelegatedInit, DeployInit, WalletTypes, Delegates, Deployable
<1> QED
  BY <1>1, <1>2, <1>3, <1>4 DEF IDelegation

LEMMA DelegationStep ==
  ASSUME IDelegation, [DelegatedNext]_sendVars
  PROVE  IDelegation'
<1>1. CASE UNCHANGED sendVars
  <2>1. UNCHANGED <<request, stage, answer, deployVars, walletCode, opener>>
    BY <1>1 DEF sendVars, vars, pageVars
  <2>2. ReleaseInv'
    BY <2>1, ReleaseUntouched DEF IDelegation
  <2>3. AnswerIsOfTheRequest'
    BY <2>1 DEF IDelegation, AnswerIsOfTheRequest, Authorization
  <2> QED
    BY <2>1, <2>2, <2>3, CodeStays DEF IDelegation, deployVars, chainSide
<1> QED
  BY <1>1, OpenStep, PageStepKeeps, ReleaseStepKeeps, DelegateStep DEF DelegatedNext

(* At most one address is named beside the placeholder.                    *)
LEMMA OneAddressIsOneDelegate == OneAddress => OneDelegateForEveryChain
<1> SUFFICES ASSUME OneAddress PROVE OneDelegateForEveryChain
  OBVIOUS
<1> DEFINE named == {slots[c] : c \in CHAIN_PROFILES} \ {Pending}
<1>1. PICK a : named \subseteq {a}
  BY DEF OneAddress
<1>2. IsFiniteSet({a}) /\ Cardinality({a}) = 1
  BY FS_Singleton
<1>3. Cardinality(named) <= 1
  BY <1>1, <1>2, FS_Subset
<1> QED
  BY <1>3 DEF OneDelegateForEveryChain

(* resolve.ts and the release scripts keep every wallet from delegating to *)
(* an address that has no code on its chain, and the registry at one       *)
(* address, whatever deploys fail, half of them too, are forced or         *)
(* repeated, whatever address is typed, and however old the registry of an *)
(* app is.  That the account's guardian logic is there is not promised.    *)
THEOREM DelegationIsSafe == DelegatedSpec => []DelegationInv
<1>1. IDelegation => DelegationInv
  <2> SUFFICES ASSUME IDelegation PROVE DelegationInv
    OBVIOUS
  <2>1. DelegationTypeOK
    BY DeploymentAssumption
       DEF IDelegation, ReleaseInv, ReleaseTypes, CliKnows, WalletTypes, DelegationTypeOK, Delegates, Deployable, Parts
  <2>2. OneDelegateForEveryChain
    BY OneAddressIsOneDelegate DEF IDelegation, ReleaseInv
  <2>3. DelegatesToCode
    BY SignedDelegateWorks DEF IDelegation, WalletTypes, DelegatesToCode
  <2> QED
    BY <2>1, <2>2, <2>3 DEF DelegationInv
<1> QED
  BY <1>1, DelegationStart, DelegationStep, PTL DEF DelegatedSpec

(* deploy-canonical.mjs: of what a run writes into the registry both       *)
(* contracts have code on the chain it was deployed to.                    *)
THEOREM RegistryIsWrittenAfterTheDeploy == DelegatedSpec => WrittenAfterTheDeploy
<1> DEFINE Written ==
      WriteRegistry /\ slots' # slots /\ cli.rpc = cli.chain => PairOf(cli.golden) \subseteq code[cli.chain]
<1>1. IDelegation /\ [DelegatedNext]_sendVars => Written
  BY WriteStep DEF IDelegation
<1>2. IDelegation /\ [DelegatedNext]_sendVars => IDelegation'
  BY DelegationStep
<1> QED
  BY <1>1, <1>2, DelegationStart, PTL DEF DelegatedSpec, WrittenAfterTheDeploy

-----------------------------------------------------------------------------
(* Lists.  What a recursive function computes is found by induction on     *)
(* sets: a set with 0 that is closed under successors is all of Nat.       *)

LEMMA SetInduction ==
  ASSUME NEW T, 0 \in T, \A n \in Nat : n \in T => n + 1 \in T
  PROVE  Nat \subseteq T
<1> DEFINE Bad == Nat \ T
           R == {ss \in Nat \X Nat : ss[1] < ss[2]}
<1>1. IsWellFoundedOn(R, Nat)
  BY NatLessThanWellFounded DEF OpToRel
<1> SUFFICES ASSUME Bad # {} PROVE FALSE
  OBVIOUS
<1>2. PICK x \in Bad : \A y \in Bad : ~(<<y, x>> \in R)
  <2> HIDE DEF R, Bad
  <2>1. Bad \subseteq Nat
    BY DEF Bad
  <2> QED
    BY <1>1, <2>1, WFMin
<1>3. x \in Nat /\ x \notin T /\ x - 1 \in Nat
  OBVIOUS
<1>4. <<x - 1, x>> \in R
  BY <1>3
<1>5. x - 1 \in T
  BY <1>2, <1>3, <1>4
<1> QED
  BY <1>3, <1>5

(* The recursion in FlattenSeq.                                            *)
Flattens(g, seqs, m) ==
  \A i \in 1 .. m : g[i] = IF i = 1 THEN seqs[i] ELSE g[i - 1] \o seqs[i]

LEMMA FlattenExists ==
  ASSUME NEW S, NEW n \in Nat, NEW seqs \in [1 .. n -> Seq(S)]
  PROVE  \E g \in [1 .. n -> Seq(S)] : Flattens(g, seqs, n)
<1> DEFINE T == {m \in Nat : m <= n => \E g \in [1 .. m -> Seq(S)] : Flattens(g, seqs, m)}
<1>1. 0 \in T
  <2>1. [i \in 1 .. 0 |-> <<>>] \in [1 .. 0 -> Seq(S)] /\ Flattens([i \in 1 .. 0 |-> <<>>], seqs, 0)
    BY DEF Flattens
  <2> QED
    BY <2>1
<1>2. ASSUME NEW m \in Nat, m \in T
      PROVE  m + 1 \in T
  <2> SUFFICES ASSUME m + 1 <= n
               PROVE  \E g \in [1 .. m + 1 -> Seq(S)] : Flattens(g, seqs, m + 1)
    OBVIOUS
  <2>1. PICK g \in [1 .. m -> Seq(S)] : Flattens(g, seqs, m)
    BY <1>2
  <2> DEFINE next == IF m = 0 THEN seqs[1] ELSE g[m] \o seqs[m + 1]
             h == [i \in 1 .. m + 1 |-> IF i = m + 1 THEN next ELSE g[i]]
  <2>2. next \in Seq(S)
    OBVIOUS
  <2>3. h \in [1 .. m + 1 -> Seq(S)]
    BY <2>2
  <2>4. Flattens(h, seqs, m + 1)
    <3> SUFFICES ASSUME NEW i \in 1 .. m + 1
                 PROVE  h[i] = IF i = 1 THEN seqs[i] ELSE h[i - 1] \o seqs[i]
      BY DEF Flattens
    <3>1. CASE i = m + 1
      BY <3>1
    <3>2. CASE i \in 1 .. m
      <4>1. g[i] = IF i = 1 THEN seqs[i] ELSE g[i - 1] \o seqs[i]
        BY <2>1, <3>2 DEF Flattens
      <4>2. h[i] = g[i] /\ (i # 1 => h[i - 1] = g[i - 1])
        <5> HIDE DEF next
        <5> QED
          BY <3>2
      <4> QED
        BY <4>1, <4>2
    <3> QED
      BY <3>1, <3>2
  <2> HIDE DEF h
  <2> QED
    BY <2>3, <2>4
<1> HIDE DEF T
<1>3. n \in T
  BY <1>1, <1>2, SetInduction
<1> QED
  BY <1>3 DEF T

(* What FlattenSeq returns is where that recursion ends.                   *)
LEMMA FlattenBy ==
  ASSUME NEW S, NEW n \in Nat, n # 0, NEW seqs \in [1 .. n -> Seq(S)]
  PROVE  \E g : /\ \A i \in 1 .. n : g[i] \in Seq(S)
                /\ Flattens(g, seqs, n)
                /\ FlattenSeq(seqs) = g[n]
<1> DEFINE eq(g) == g = [i \in 1 .. Len(seqs) |-> IF i = 1 THEN seqs[i] ELSE g[i - 1] \o seqs[i]]
           f == CHOOSE g : eq(g)
<1>0. Len(seqs) = n
  OBVIOUS
<1>1. PICK g \in [1 .. n -> Seq(S)] : Flattens(g, seqs, n)
  BY FlattenExists
<1>2. eq(g)
  BY <1>0, <1>1 DEF Flattens
<1>3. eq(f)
  <2> HIDE DEF eq
  <2> QED BY <1>2
<1>4. FlattenSeq(seqs) = f[n]
  BY <1>0 DEF FlattenSeq
<1> HIDE DEF f
<1>5. Flattens(f, seqs, n)
  <2>1. f = [i \in 1 .. n |-> IF i = 1 THEN seqs[i] ELSE f[i - 1] \o seqs[i]]
    BY <1>0, <1>3
  <2> QED
    BY <2>1 DEF Flattens
<1>6. \A m \in Nat : m \in 1 .. n => f[m] \in Seq(S)
  <2> DEFINE T == {m \in Nat : m \in 1 .. n => f[m] \in Seq(S)}
  <2>1. 0 \in T
    OBVIOUS
  <2>2. ASSUME NEW m \in Nat, m \in T PROVE m + 1 \in T
    <3> SUFFICES ASSUME m + 1 \in 1 .. n PROVE f[m + 1] \in Seq(S)
      OBVIOUS
    <3>1. f[m + 1] = IF m + 1 = 1 THEN seqs[m + 1] ELSE f[(m + 1) - 1] \o seqs[m + 1]
      BY <1>5 DEF Flattens
    <3> QED
      BY <3>1, <2>2
  <2> HIDE DEF T
  <2>3. Nat \subseteq T
    BY <2>1, <2>2, SetInduction
  <2> QED
    BY <2>3 DEF T
<1> QED
  BY <1>4, <1>5, <1>6

LEMMA FlattenIsSeq ==
  ASSUME NEW S, NEW n \in Nat, NEW seqs \in [1 .. n -> Seq(S)]
  PROVE  FlattenSeq(seqs) \in Seq(S)
<1>1. CASE n = 0
  BY <1>1 DEF FlattenSeq
<1>2. CASE n # 0
  <2>1. PICK g : (\A i \in 1 .. n : g[i] \in Seq(S)) /\ FlattenSeq(seqs) = g[n]
    BY <1>2, FlattenBy
  <2>2. n \in 1 .. n
    BY <1>2
  <2> QED
    BY <2>1, <2>2
<1> QED
  BY <1>1, <1>2

(* A list is a sequence, of whatever set.                                  *)
LEMMA ListIsSeq ==
  ASSUME NEW s
  PROVE  IsList(s) <=> \E S : s \in Seq(S)
<1>1. ASSUME NEW S, s \in Seq(S) PROVE IsList(s)
  <2>1. \A i \in 1 .. Len(s) : s[i] \in Range(s)
    BY <1>1 DEF Range
  <2> QED
    BY <1>1, <2>1 DEF IsList
<1> QED
  BY <1>1 DEF IsList

LEMMA EmptyList == IsList(<<>>) /\ Range(<<>>) = {}
<1>1. <<>> \in Seq({})
  OBVIOUS
<1>2. IsList(<<>>)
  BY <1>1, ListIsSeq
<1>3. Range(<<>>) = {}
  BY <1>1 DEF Range
<1> QED
  BY <1>2, <1>3

LEMMA OneElement ==
  ASSUME NEW x
  PROVE  IsList(<<x>>) /\ Range(<<x>>) = {x} /\ Len(<<x>>) = 1 /\ <<x>>[1] = x
<1>1. <<x>> \in Seq({x}) /\ Len(<<x>>) = 1 /\ <<x>>[1] = x
  OBVIOUS
<1>2. IsList(<<x>>)
  BY <1>1, ListIsSeq
<1>3. Range(<<x>>) = {x}
  BY <1>1 DEF Range
<1> QED
  BY <1>1, <1>2, <1>3

LEMMA Concatenated ==
  ASSUME NEW s, NEW t, IsList(s), IsList(t)
  PROVE  IsList(s \o t) /\ Range(s \o t) = Range(s) \cup Range(t)
<1> DEFINE S == Range(s) \cup Range(t)
<1>1. s \in Seq(S) /\ t \in Seq(S)
  BY DEF IsList
<1>2. s \o t \in Seq(S) /\ Len(s \o t) = Len(s) + Len(t)
  BY <1>1
<1>3. IsList(s \o t)
  BY <1>2, ListIsSeq
<1>4. Range(s \o t) \subseteq S
  BY <1>2 DEF Range
<1>5. ASSUME NEW i \in 1 .. Len(s) PROVE s[i] \in Range(s \o t)
  <2>1. i \in 1 .. Len(s \o t) /\ (s \o t)[i] = s[i]
    BY <1>1, <1>2
  <2> QED
    BY <1>2, <2>1 DEF Range
<1>6. ASSUME NEW i \in 1 .. Len(t) PROVE t[i] \in Range(s \o t)
  <2>1. Len(s) + i \in 1 .. Len(s \o t) /\ (s \o t)[Len(s) + i] = t[i]
    BY <1>1, <1>2
  <2> QED
    BY <1>2, <2>1 DEF Range
<1>7. S \subseteq Range(s \o t)
  <2>1. \A x \in Range(s) : \E i \in 1 .. Len(s) : x = s[i]
    BY <1>1 DEF Range
  <2>2. \A x \in Range(t) : \E i \in 1 .. Len(t) : x = t[i]
    BY <1>1 DEF Range
  <2> QED
    BY <1>5, <1>6, <2>1, <2>2
<1> QED
  BY <1>3, <1>4, <1>7

LEMMA ListOf ==
  ASSUME NEW n \in Nat, NEW f, DOMAIN f = 1 .. n, f = [i \in 1 .. n |-> f[i]]
  PROVE  IsList(f) /\ Len(f) = n
<1>1. f \in [1 .. n -> Range(f)]
  <2>1. \A i \in 1 .. n : f[i] \in Range(f)
    BY DEF Range
  <2> QED
    BY <2>1
<1>2. f \in Seq(Range(f))
  BY <1>1
<1> QED
  BY <1>1, <1>2 DEF IsList

(* An element of a flattened list is one of the lists in it.               *)
LEMMA Flattened ==
  ASSUME NEW seqs, IsList(seqs), \A i \in DOMAIN seqs : IsList(seqs[i])
  PROVE  /\ IsList(FlattenSeq(seqs))
         /\ Range(FlattenSeq(seqs)) \subseteq UNION {Range(seqs[i]) : i \in DOMAIN seqs}
<1> DEFINE S == UNION {Range(seqs[i]) : i \in DOMAIN seqs}
           n == Len(seqs)
<1>1. n \in Nat /\ DOMAIN seqs = 1 .. n
  BY DEF IsList
<1>2. ASSUME NEW i \in 1 .. n PROVE seqs[i] \in Seq(S)
  <2>1. Range(seqs[i]) \subseteq S /\ seqs[i] \in Seq(Range(seqs[i]))
    BY <1>1 DEF IsList
  <2> HIDE DEF S
  <2> QED
    BY <2>1
<1>3. seqs \in [1 .. n -> Seq(S)]
  BY <1>1, <1>2 DEF IsList
<1>4. FlattenSeq(seqs) \in Seq(S)
  <2> HIDE DEF S, n
  <2> QED
    BY <1>1, <1>3, FlattenIsSeq
<1>5. Range(FlattenSeq(seqs)) \subseteq S
  <2> HIDE DEF S
  <2> QED
    BY <1>4 DEF Range
<1> QED
  BY <1>4, <1>5, ListIsSeq
-----------------------------------------------------------------------------
(* The lines of a screen.                                                  *)

Severities == {"info", "caution", "danger"}
Screen(s) == IsList(s) /\ \A line \in Range(s) : line.severity \in Severities

(* A line of a request is no row of a simulation.                          *)
Plain(line) == line.severity \in Severities /\ \A f \in line.facts : f[1] # "delta"
Paper(s) == IsList(s) /\ \A line \in Range(s) : Plain(line)

LEMMA NoLine == Screen(<<>>) /\ Paper(<<>>)
BY EmptyList DEF Screen, Paper

LEMMA OneLine ==
  ASSUME NEW line
  PROVE  /\ line.severity \in Severities => Screen(<<line>>)
         /\ Plain(line) => Paper(<<line>>)
         /\ Range(<<line>>) = {line}
<1>1. IsList(<<line>>) /\ Range(<<line>>) = {line}
  BY OneElement
<1> QED
  BY <1>1 DEF Screen, Paper

LEMMA MoreLines ==
  ASSUME NEW s, NEW t, Screen(s), Screen(t)
  PROVE  Screen(s \o t) /\ Range(s \o t) = Range(s) \cup Range(t)
BY Concatenated DEF Screen

LEMMA MorePaper ==
  ASSUME NEW s, NEW t, Paper(s), Paper(t)
  PROVE  Paper(s \o t) /\ Range(s \o t) = Range(s) \cup Range(t)
BY Concatenated DEF Paper

LEMMA LineFor ==
  ASSUME NEW facts
  PROVE  /\ Info(facts).severity = "info" /\ Info(facts).facts = facts
         /\ Caution(facts).severity = "caution" /\ Caution(facts).facts = facts
         /\ Danger(facts).severity = "danger" /\ Danger(facts).facts = facts
         /\ {Info(facts).severity, Caution(facts).severity, Danger(facts).severity} = Severities
         /\ (\A f \in facts : f[1] # "delta") =>
              Plain(Info(facts)) /\ Plain(Caution(facts)) /\ Plain(Danger(facts))
<1>1. /\ Info(facts).severity = "info" /\ Info(facts).facts = facts
      /\ Caution(facts).severity = "caution" /\ Caution(facts).facts = facts
      /\ Danger(facts).severity = "danger" /\ Danger(facts).facts = facts
  BY DEF Info, Caution, Danger
<1>2. {Info(facts).severity, Caution(facts).severity, Danger(facts).severity} = Severities
  BY <1>1 DEF Severities
<1>3. ASSUME \A f \in facts : f[1] # "delta"
      PROVE  Plain(Info(facts)) /\ Plain(Caution(facts)) /\ Plain(Danger(facts))
  BY <1>1, <1>2, <1>3 DEF Plain
<1> QED
  BY <1>1, <1>2, <1>3

(* A list of lines, made of a list of something.                           *)
LEMMA LinesOver ==
  ASSUME NEW s, IsList(s), NEW t, t = [i \in DOMAIN s |-> t[i]]
  PROVE  /\ (\A i \in DOMAIN s : t[i].severity \in Severities) => Screen(t)
         /\ (\A i \in DOMAIN s : Plain(t[i])) => Paper(t)
<1>1. Len(s) \in Nat /\ DOMAIN s = 1 .. Len(s)
  BY DEF IsList
<1>2. IsList(t)
  BY <1>1, ListOf
<1>3. \A line \in Range(t) : \E i \in DOMAIN s : line = t[i]
  BY DEF Range
<1> QED
  BY <1>2, <1>3 DEF Screen, Paper

LEMMA LineOfACall ==
  ASSUME NEW call
  PROVE  /\ Plain(CallLine(DecodeCall(call)))
         /\ CallLine(DecodeCall(call)).facts = CommitsCall(call)
         /\ Unlimited(call) => CallLine(DecodeCall(call)).severity = "danger"
<1> DEFINE line == DecodeCall(call)
<1>1. line.call = call
  BY DEF DecodeCall
<1>2. /\ call.data.fn \in DOMAIN KindOf => line.kind = KindOf[call.data.fn]
      /\ call.data.fn \notin DOMAIN KindOf =>
           line.kind = IF call.value > 0 /\ call.data.fn = "empty" THEN "native" ELSE "raw"
  BY DEF DecodeCall
<1>3. /\ DOMAIN KindOf = {"transfer", "approve", "transferFrom", "setApprovalForAll", "increaseAllowance"}
      /\ KindOf["transfer"] = "erc20-transfer" /\ KindOf["approve"] = "erc20-approve"
      /\ KindOf["transferFrom"] = "erc20-transfer-from" /\ KindOf["setApprovalForAll"] = "erc721-approve-all"
      /\ KindOf["increaseAllowance"] = "erc20-increase-allowance"
  BY DEF KindOf
<1> HIDE DEF line
<1>4. CallFacts(line) = CommitsCall(call)
  BY <1>1, <1>2, <1>3 DEF CallFacts, CommitsCall
<1>5. /\ CallLine(line).severity \in Severities
      /\ CallLine(line).facts = CallFacts(line)
  BY DEF CallLine, Info, Caution, Danger, Severities
<1>7. \A f \in CommitsCall(call) : f[1] # "delta"
  BY <1>3 DEF CommitsCall
<1>6. ASSUME Unlimited(call) PROVE CallLine(line).severity = "danger"
  BY <1>1, <1>2, <1>3, <1>6 DEF CallLine, Unlimited, IsUnlimitedAmount, Danger
<1> QED
  BY <1>4, <1>5, <1>6, <1>7 DEF line, Plain

LEMMA LinesOfCalls ==
  ASSUME NEW calls, IsList(calls)
  PROVE  /\ Paper(Lines(DecodeCalls(calls)))
         /\ \A call \in Range(calls) : CallLine(DecodeCall(call)) \in Range(Lines(DecodeCalls(calls)))
<1>1. /\ DOMAIN DecodeCalls(calls) = DOMAIN calls
      /\ Lines(DecodeCalls(calls)) = [i \in DOMAIN calls |-> CallLine(DecodeCall(calls[i]))]
  BY DEF Lines, DecodeCalls
<1>2. Paper(Lines(DecodeCalls(calls)))
  BY <1>1, LineOfACall, LinesOver
<1>3. \A call \in Range(calls) : CallLine(DecodeCall(call)) \in Range(Lines(DecodeCalls(calls)))
  BY <1>1 DEF Range
<1> QED
  BY <1>2, <1>3

LEMMA LinesOfADelegation ==
  ASSUME NEW implementation
  PROVE  /\ Paper(DelegationLines(implementation))
         /\ implementation # NoAddress =>
              Danger({<<"delegate", implementation>>}) \in Range(DelegationLines(implementation))
<1>1. CASE implementation = NoAddress
  BY <1>1, NoLine DEF DelegationLines
<1>2. CASE implementation # NoAddress
  <2> DEFINE line == Danger({<<"delegate", implementation>>})
  <2>1. Plain(line)
    BY LineFor
  <2>2. DelegationLines(implementation) = <<line>>
    BY <1>2 DEF DelegationLines
  <2> HIDE DEF line
  <2>3. Paper(<<line>>) /\ line \in Range(<<line>>)
    BY <2>1, OneLine
  <2> QED
    BY <2>2, <2>3 DEF line
<1> QED
  BY <1>1, <1>2

LEMMA LinesOfAView ==
  ASSUME NEW calls, NEW fee, NEW maxFee, Paper(Lines(calls))
  PROVE  /\ Paper(ViewLines(calls, fee, maxFee))
         /\ Range(Lines(calls)) \subseteq Range(ViewLines(calls, fee, maxFee))
<1> DEFINE first == <<ChainLine>>
           last == IF fee # <<>> THEN <<FeeLine(fee[1])>>
                   ELSE IF maxFee # <<>> THEN <<Info({<<"at most", maxFee[1]>>})>> ELSE <<>>
<1>1. Paper(first)
  <2>1. Plain(ChainLine)
    BY LineFor DEF ChainLine
  <2> QED
    BY <2>1, OneLine
<1>2. Paper(last)
  <2>1. Plain(FeeLine(fee[1]))
    <3>1. \A token, amount : /\ Plain(Info({<<"fee", token, amount>>}))
                             /\ Plain(Caution({<<"fee", token, amount>>}))
      BY LineFor
    <3>2. \E token, amount : FeeLine(fee[1]) \in {Info({<<"fee", token, amount>>}), Caution({<<"fee", token, amount>>})}
      BY Zenon DEF FeeLine
    <3> QED
      BY <3>1, <3>2
  <2>2. Plain(Info({<<"at most", maxFee[1]>>}))
    <3>1. "at most" # "delta"
      OBVIOUS
    <3>2. \A word, ceiling : word # "delta" => Plain(Info({<<word, ceiling>>}))
      BY LineFor
    <3> QED
      BY <3>1, <3>2
  <2>3. Paper(<<FeeLine(fee[1])>>) /\ Paper(<<Info({<<"at most", maxFee[1]>>})>>) /\ Paper(<<>>)
    BY <2>1, <2>2, OneLine, NoLine
  <2> QED
    BY <2>3
<1>3. ViewLines(calls, fee, maxFee) = first \o Lines(calls) \o last
  BY DEF ViewLines
<1> HIDE DEF first, last
<1>4. Paper(first \o Lines(calls)) /\ Range(Lines(calls)) \subseteq Range(first \o Lines(calls))
  BY <1>1, MorePaper
<1>5. /\ Paper((first \o Lines(calls)) \o last)
      /\ Range(first \o Lines(calls)) \subseteq Range((first \o Lines(calls)) \o last)
  BY <1>2, <1>4, MorePaper
<1> QED
  BY <1>3, <1>4, <1>5

LEMMA LinesOfTypedData ==
  ASSUME NEW view, IsList(view.values)
  PROVE  /\ Paper(GenericLines(view))
         /\ view.primaryType \in DangerousPrimaryTypes => Danger({}) \in Range(GenericLines(view))
<1> DEFINE first == IF view.primaryType \in DangerousPrimaryTypes THEN <<Danger({})>> ELSE <<>>
           type == <<Info({<<"type", view.primaryType>>})>>
           values == [i \in DOMAIN view.values |-> ValueLine(view.values[i])]
<1>1. Paper(first) /\ (view.primaryType \in DangerousPrimaryTypes => Danger({}) \in Range(first))
  <2>1. Plain(Danger({}))
    BY LineFor
  <2> QED
    BY <2>1, OneLine, NoLine
<1>2. Paper(type)
  <2>1. Plain(Info({<<"type", view.primaryType>>}))
    BY LineFor
  <2> QED
    BY <2>1, OneLine
<1>3. Paper(values)
  <2>1. \A i \in DOMAIN view.values : Plain(values[i])
    BY DEF ValueLine, Info, Danger, Severities, Plain
  <2> QED
    BY <2>1, LinesOver
<1>4. GenericLines(view) = first \o type \o values
  BY DEF GenericLines
<1> HIDE DEF first, type, values
<1>5. Paper(first \o type) /\ Range(first) \subseteq Range(first \o type)
  BY <1>1, <1>2, MorePaper
<1>6. Paper((first \o type) \o values) /\ Range(first \o type) \subseteq Range((first \o type) \o values)
  BY <1>3, <1>5, MorePaper
<1> QED
  BY <1>1, <1>4, <1>5, <1>6

(* What runSign decodes of a request is on its lines.                      *)
OuterCall ==
  IF request.op = "signUserOp" THEN [to |-> request.sender, value |-> 0, data |-> request.data]
  ELSE [to |-> request.tx.to, value |-> request.tx.value, data |-> request.tx.data]

InnerCalls(call) == IF call.data.fn = "execute" THEN call.data.calls ELSE <<call>>
Displays(s, call) == CallLine(DecodeCall(call)) \in Range(s)

SaysWhatIsAsked(s) ==
  /\ request.op \in {"signTransaction", "signSend", "signUserOp"} =>
       \A call \in Range(InnerCalls(OuterCall)) : Displays(s, call)
  /\ request.op \in {"signTypedData", "signSponsored"} =>
       IF SignsBatch THEN \A call \in Range(request.typedData.message.userCalls) : Displays(s, call)
       ELSE request.typedData.primaryType \in DangerousPrimaryTypes => Danger({}) \in Range(s)
  /\ Authorization(request) /\ request.address # NoAddress =>
       Danger({<<"delegate", request.address>>}) \in Range(s)

LEMMA InnerCallsAreShown ==
  ASSUME NEW call, Calldata(call.data)
  PROVE  /\ UnwrapWalletBatch(call) = DecodeCalls(InnerCalls(call))
         /\ IsList(InnerCalls(call))
         /\ Paper(Lines(UnwrapWalletBatch(call)))
         /\ \A inner \in Range(InnerCalls(call)) : Displays(Lines(UnwrapWalletBatch(call)), inner)
<1>1. IsList(InnerCalls(call))
  BY OneElement DEF InnerCalls, Calldata
<1>2. UnwrapWalletBatch(call) = DecodeCalls(InnerCalls(call))
  <2>1. DecodeCalls(<<call>>) = <<DecodeCall(call)>>
    BY DEF DecodeCalls
  <2> QED
    BY <2>1 DEF UnwrapWalletBatch, InnerCalls
<1> QED
  BY <1>1, <1>2, LinesOfCalls DEF Displays

LEMMA TransactionSays ==
  ASSUME SignRequest(request), request.op \in {"signTransaction", "signSend", "signUserOp"}
  PROVE  /\ DecodeSignConsent(request) # Undecodable
         /\ Paper(FormatConsentDisplay(DecodeSignConsent(request)))
         /\ SaysWhatIsAsked(FormatConsentDisplay(DecodeSignConsent(request)))
<1> DEFINE consent == DecodeSignConsent(request)
           lead == IF request.op = "signTransaction" THEN <<>> ELSE DelegationLines(request.address)
           maxFee == IF request.op = "signUserOp" THEN <<>> ELSE DecodeTx(request.tx).maxFee
           view == ViewLines(UnwrapWalletBatch(OuterCall), <<>>, maxFee)
<1>1. Calldata(OuterCall.data)
  BY DEF SignRequest, OuterCall
<1>2. /\ Paper(view)
      /\ \A inner \in Range(InnerCalls(OuterCall)) : Displays(view, inner)
  <2>1. /\ Paper(Lines(UnwrapWalletBatch(OuterCall)))
        /\ \A inner \in Range(InnerCalls(OuterCall)) : Displays(Lines(UnwrapWalletBatch(OuterCall)), inner)
    BY <1>1, InnerCallsAreShown
  <2> HIDE DEF maxFee
  <2>2. /\ Paper(view)
        /\ Range(Lines(UnwrapWalletBatch(OuterCall))) \subseteq Range(view)
    BY <2>1, LinesOfAView
  <2> QED
    BY <2>1, <2>2 DEF Displays
<1>3. /\ Paper(lead)
      /\ request.op # "signTransaction" /\ request.address # NoAddress =>
           Danger({<<"delegate", request.address>>}) \in Range(lead)
  BY LinesOfADelegation, NoLine
<1>4. /\ consent # Undecodable
      /\ FormatConsentDisplay(consent) = IF request.op = "signTransaction" THEN view ELSE lead \o view
  <2>1. CASE request.op = "signTransaction"
    BY <2>1 DEF DecodeSignConsent, Undecodable, FormatConsentDisplay, DecodeTx, OuterCall
  <2>2. CASE request.op = "signSend"
    BY <2>2 DEF DecodeSignConsent, Undecodable, FormatConsentDisplay, DecodeTx, OuterCall
  <2>3. CASE request.op = "signUserOp"
    BY <2>3 DEF DecodeSignConsent, Undecodable, FormatConsentDisplay, OuterCall
  <2> QED
    BY <2>1, <2>2, <2>3
<1> HIDE DEF lead, view, consent
<1>5. Paper(lead \o view) /\ Range(lead \o view) = Range(lead) \cup Range(view)
  BY <1>2, <1>3, MorePaper
<1>6. SaysWhatIsAsked(FormatConsentDisplay(consent))
  BY <1>2, <1>3, <1>4, <1>5 DEF SaysWhatIsAsked, Displays, Authorization
<1> QED
  BY <1>2, <1>4, <1>5, <1>6 DEF consent

LEMMA TypedDataSays ==
  ASSUME SignRequest(request), request.op \in {"signTypedData", "signSponsored"},
         DecodeSignConsent(request) # Undecodable
  PROVE  /\ Paper(FormatConsentDisplay(DecodeSignConsent(request)))
         /\ SaysWhatIsAsked(FormatConsentDisplay(DecodeSignConsent(request)))
<1> DEFINE td == request.typedData
           view == DecodeTypedData(td)
           consent == DecodeSignConsent(request)
<1>1. IsList(td.message.userCalls) /\ IsList(td.message.values)
  BY DEF SignRequest
<1>2. view # Undecodable /\ (request.op = "signTypedData" => consent = view)
  BY DEF DecodeSignConsent, Undecodable
<1>3. CASE ~SignsBatch
  <2>1. /\ view = [op |-> "signTypedDataGeneric", primaryType |-> td.primaryType, values |-> td.message.values]
        /\ request.op = "signTypedData"
    BY <1>2, <1>3 DEF DecodeTypedData, SignsBatch, IsAvokBatchTypedData, DecodeSignConsent, Undecodable
  <2>2. FormatConsentDisplay(consent) = GenericLines(view)
    BY <1>2, <2>1 DEF FormatConsentDisplay
  <2>3. /\ Paper(GenericLines(view))
        /\ view.primaryType \in DangerousPrimaryTypes => Danger({}) \in Range(GenericLines(view))
    BY <1>1, <2>1, LinesOfTypedData
  <2> QED
    BY <1>3, <2>1, <2>2, <2>3 DEF SaysWhatIsAsked, Authorization
<1>4. CASE SignsBatch
  <2>1. /\ view.op = "signTypedData" /\ view.calls = DecodeCalls(td.message.userCalls)
    BY <1>2, <1>4 DEF DecodeTypedData, SignsBatch, IsAvokBatchTypedData, Undecodable
  <2>2. /\ Paper(Lines(view.calls))
        /\ \A call \in Range(td.message.userCalls) : Displays(Lines(view.calls), call)
    BY <1>1, <2>1, LinesOfCalls DEF Displays
  <2> DEFINE shown == ViewLines(view.calls, view.fee, <<>>)
             lead == IF request.op = "signTypedData" THEN <<>> ELSE DelegationLines(request.address)
  <2>3. /\ Paper(shown)
        /\ \A call \in Range(td.message.userCalls) : Displays(shown, call)
    BY <2>2, LinesOfAView DEF Displays
  <2>4. FormatConsentDisplay(consent) = IF request.op = "signTypedData" THEN shown ELSE lead \o shown
    <3>1. CASE request.op = "signTypedData"
      BY <1>2, <2>1, <3>1 DEF FormatConsentDisplay
    <3>2. CASE request.op = "signSponsored"
      <4>1. consent = [op |-> "signSponsored", view |-> view, delegation |-> request.address]
        BY <2>1, <3>2 DEF DecodeSignConsent
      <4> HIDE DEF consent, view
      <4> QED
        BY <3>2, <4>1 DEF FormatConsentDisplay
    <3> QED
      BY <3>1, <3>2
  <2>5. /\ Paper(lead)
        /\ request.op # "signTypedData" /\ request.address # NoAddress =>
             Danger({<<"delegate", request.address>>}) \in Range(lead)
    BY LinesOfADelegation, NoLine
  <2> HIDE DEF lead, shown, consent, view, td
  <2>6. Paper(lead \o shown) /\ Range(lead \o shown) = Range(lead) \cup Range(shown)
    BY <2>3, <2>5, MorePaper
  <2>7. SaysWhatIsAsked(FormatConsentDisplay(consent))
    BY <1>4, <2>3, <2>4, <2>5, <2>6 DEF SaysWhatIsAsked, Displays, Authorization, td
  <2> QED
    BY <2>3, <2>4, <2>6, <2>7 DEF consent
<1> QED
  BY <1>3, <1>4

LEMMA OthersSay ==
  ASSUME SignRequest(request), request.op \in {"signMessage", "signSiwe", "signAuthorization"},
         DecodeSignConsent(request) # Undecodable
  PROVE  /\ Paper(FormatConsentDisplay(DecodeSignConsent(request)))
         /\ SaysWhatIsAsked(FormatConsentDisplay(DecodeSignConsent(request)))
<1>1. CASE request.op = "signMessage"
  <2>1. FormatConsentDisplay(DecodeSignConsent(request)) = <<Info({<<"message", request.message>>})>>
    BY <1>1 DEF DecodeSignConsent, FormatConsentDisplay
  <2>2. Plain(Info({<<"message", request.message>>}))
    BY LineFor
  <2> QED
    BY <1>1, <2>1, <2>2, OneLine DEF SaysWhatIsAsked, Authorization
<1>2. CASE request.op = "signSiwe"
  <2>1. FormatConsentDisplay(DecodeSignConsent(request)) = <<Info({<<"siwe", request.params>>})>>
    BY <1>2 DEF DecodeSignConsent, FormatConsentDisplay
  <2>2. Plain(Info({<<"siwe", request.params>>}))
    BY LineFor
  <2> QED
    BY <1>2, <2>1, <2>2, OneLine DEF SaysWhatIsAsked, Authorization
<1>3. CASE request.op = "signAuthorization"
  <2> DEFINE implementation == IF request.address # NoAddress THEN request.address ELSE request.contractAddress
  <2>1. FormatConsentDisplay(DecodeSignConsent(request)) = DelegationLines(implementation)
    BY <1>3 DEF DecodeSignConsent, FormatConsentDisplay
  <2>2. request.address # NoAddress => implementation = request.address
    OBVIOUS
  <2> HIDE DEF implementation
  <2> QED
    BY <1>3, <2>1, <2>2, LinesOfADelegation DEF SaysWhatIsAsked
<1> QED
  BY <1>1, <1>2, <1>3
LEMMA DecodedScreen ==
  ASSUME SignRequest(request), DecodeSignConsent(request) # Undecodable
  PROVE  /\ Paper(FormatConsentDisplay(DecodeSignConsent(request)))
         /\ Screen(FormatConsentDisplay(DecodeSignConsent(request)))
         /\ SaysWhatIsAsked(FormatConsentDisplay(DecodeSignConsent(request)))
BY TransactionSays, TypedDataSays, OthersSay DEF SignRequest, Paper, Screen, Plain

(* Lines are only added.                                                   *)
LEMMA MoreIsSaid ==
  ASSUME NEW s, NEW t, Screen(s), Screen(t), SaysWhatIsAsked(s)
  PROVE  Screen(s \o t) /\ SaysWhatIsAsked(s \o t) /\ Range(s) \subseteq Range(s \o t)
<1>1. Screen(s \o t) /\ Range(s) \subseteq Range(s \o t)
  BY MoreLines
<1>2. SaysWhatIsAsked(s \o t)
  BY <1>1 DEF SaysWhatIsAsked, Displays
<1> QED
  BY <1>1, <1>2

-----------------------------------------------------------------------------
(* The rows of a simulation.                                               *)

LEMMA PayloadIsOfLists ==
  ASSUME SignRequest(request)
  PROVE  /\ IsList(SimulationPayloadFor(request).calls)
         /\ IsList(Executed(SimulationPayloadFor(request)))
         /\ \A call \in Range(Executed(SimulationPayloadFor(request))) : Amounts(call.data)
<1> DEFINE payload == SimulationPayloadFor(request)
<1>1. IsList(payload.calls) /\ \A call \in Range(payload.calls) : Calldata(call.data)
  <2>1. CASE payload = NoPayload
    BY <2>1, EmptyList DEF NoPayload
  <2>2. CASE request.op \in {"signTransaction", "signSend", "signUserOp"} /\ payload # NoPayload
    <3>1. payload.calls = <<OuterCall>> /\ Calldata(OuterCall.data)
      BY <2>2 DEF SimulationPayloadFor, PayloadForTx, OuterCall, SignRequest
    <3> QED
      BY <3>1, OneElement
  <2>3. CASE request.op \in {"signTypedData", "signSponsored"} /\ payload # NoPayload
    <3>1. payload.calls = request.typedData.message.feeCalls \o request.typedData.message.userCalls
      BY <2>3 DEF SimulationPayloadFor, PayloadForAvokBatch
    <3>2. /\ IsList(request.typedData.message.feeCalls) /\ IsList(request.typedData.message.userCalls)
          /\ \A call \in Range(request.typedData.message.feeCalls) \cup Range(request.typedData.message.userCalls) :
               Calldata(call.data)
      BY <2>3 DEF SignRequest
    <3> QED
      BY <3>1, <3>2, Concatenated
  <2>4. CASE request.op \in {"signMessage", "signSiwe", "signAuthorization"}
    BY <2>4, <2>1 DEF SimulationPayloadFor
  <2> QED
    BY <2>1, <2>2, <2>3, <2>4 DEF SignRequest
<1> HIDE DEF payload
<1>2. ASSUME payload.calls # <<>> PROVE payload.calls[1] \in Range(payload.calls)
  <2>1. 1 \in DOMAIN payload.calls
    BY <1>1, <1>2 DEF IsList
  <2> QED
    BY <2>1 DEF Range
<1>3. IsList(Executed(payload)) /\ \A call \in Range(Executed(payload)) : Amounts(call.data)
  <2>1. CASE Executed(payload) = payload.calls
    BY <1>1, <2>1 DEF Calldata
  <2>2. CASE Executed(payload) # payload.calls
    <3>1. /\ payload.calls # <<>> /\ payload.calls[1].data.fn = "execute"
          /\ Executed(payload) = payload.calls[1].data.calls
      BY <2>2 DEF Executed
    <3> QED
      BY <1>1, <1>2, <3>1 DEF Calldata
  <2> QED
    BY <2>1, <2>2
<1> QED
  BY <1>1, <1>3 DEF payload

(* The logs an endpoint may answer with are lists of what was moved, in    *)
(* numbers, and only transfers move.                                       *)
Moves(log) ==
  /\ IsList(log.moved) /\ \A m \in Range(log.moved) : m.amount \in Nat
  /\ log.event \notin DOMAIN KindOfTransfer => log.moved = <<>>

Answers(o) == IsList(o.logs) /\ \A log \in Range(o.logs) : Moves(log)

LEMMA LogsOfACall ==
  ASSUME NEW call, Amounts(call.data), NEW account, NEW other \in OtherLogs
  PROVE  /\ IsList(LogsOf(call, account, other))
         /\ \A log \in Range(LogsOf(call, account, other)) : Moves(log)
<1>1. ASSUME NEW event, NEW token, NEW from, NEW to, NEW moved, NEW amount, NEW approved,
             IsList(moved), \A m \in Range(moved) : m.amount \in Nat,
             event \notin DOMAIN KindOfTransfer => moved = <<>>
      PROVE  /\ IsList(<<Log(event, token, from, to, moved, amount, approved)>>)
             /\ \A log \in Range(<<Log(event, token, from, to, moved, amount, approved)>>) : Moves(log)
  <2> DEFINE log == Log(event, token, from, to, moved, amount, approved)
  <2>1. log.moved = moved /\ log.event = event
    BY DEF Log
  <2> HIDE DEF log
  <2>2. Moves(log)
    BY <1>1, <2>1 DEF Moves
  <2>3. IsList(<<log>>) /\ \A l \in Range(<<log>>) : Moves(l)
    BY <2>2, OneElement
  <2> QED
    BY <2>3 DEF log
<1> DEFINE one == <<[id |-> 0, amount |-> call.data.amount]>>
<1>2. IsList(one) /\ IsList(<<>>) /\ Range(<<>>) = {} /\ Range(one) = {[id |-> 0, amount |-> call.data.amount]}
  BY OneElement, EmptyList
<1>3. IsList(<<other>>) /\ \A log \in Range(<<other>>) : Moves(log)
  BY OneElement, RequestsAssumption DEF Moves
<1>10. "Transfer20" \in DOMAIN KindOfTransfer
  BY DEF KindOfTransfer
<1> HIDE DEF one
<1>11. ASSUME call.data.fn \in {"transfer", "transferFrom"}
       PROVE  \A m \in Range(one) : m.amount \in Nat
  BY <1>2, <1>11 DEF Amounts
<1>4. CASE call.data.fn = "transfer"
  BY <1>1, <1>2, <1>4, <1>10, <1>11 DEF LogsOf, one
<1>5. CASE call.data.fn = "transferFrom"
  BY <1>1, <1>2, <1>5, <1>10, <1>11 DEF LogsOf, one
<1>6. CASE call.data.fn \in {"approve", "increaseAllowance"}
  BY <1>1, <1>2, <1>6 DEF LogsOf
<1>7. CASE call.data.fn = "setApprovalForAll"
  BY <1>1, <1>2, <1>7 DEF LogsOf
<1>8. CASE call.data.fn = "empty"
  BY <1>2, <1>8 DEF LogsOf
<1>9. CASE call.data.fn \notin {"transfer", "transferFrom", "approve", "increaseAllowance", "setApprovalForAll", "empty"}
  BY <1>3, <1>9 DEF LogsOf
<1> QED
  BY <1>4, <1>5, <1>6, <1>7, <1>8, <1>9

LEMMA OutcomesAreAnswers ==
  ASSUME SignRequest(request), NEW o \in Outcomes(SimulationPayloadFor(request)) \cup {NoOutcome}
  PROVE  Answers(o)
<1> DEFINE payload == SimulationPayloadFor(request)
           executed == Executed(payload)
<1>1. CASE o.logs = <<>>
  BY <1>1, EmptyList DEF Answers
<1>2. CASE o.logs # <<>>
  <2>1. PICK other \in OtherLogs :
          o.logs = FlattenSeq([i \in DOMAIN executed |-> LogsOf(executed[i], payload.account, other)])
    <3> DEFINE logs(other) == FlattenSeq([i \in DOMAIN executed |-> LogsOf(executed[i], payload.account, other)])
    <3>1. o \in Outcomes(payload) /\ o # NoOutcome
      BY <1>2 DEF NoOutcome
    <3>2. Outcomes(payload) = {NoOutcome, [status |-> "answered", failed |-> TRUE, logs |-> <<>>]} \cup
            {[status |-> "answered", failed |-> FALSE, logs |-> logs(other)] : other \in OtherLogs}
      BY DEF Outcomes
    <3> HIDE DEF logs, payload
    <3>3. o \in {[status |-> "answered", failed |-> FALSE, logs |-> logs(other)] : other \in OtherLogs}
      BY <1>2, <3>1, <3>2
    <3>4. PICK other \in OtherLogs : o = [status |-> "answered", failed |-> FALSE, logs |-> logs(other)]
      BY <3>3
    <3>5. o.logs = logs(other)
      BY <3>4
    <3> QED
      BY <3>5 DEF logs
  <2> DEFINE parts == [i \in DOMAIN executed |-> LogsOf(executed[i], payload.account, other)]
  <2>2. IsList(parts)
    <3>1. IsList(executed)
      BY PayloadIsOfLists
    <3>2. Len(executed) \in Nat /\ DOMAIN executed = 1 .. Len(executed)
      BY <3>1 DEF IsList
    <3> HIDE DEF executed, payload
    <3> QED
      BY <3>2, ListOf
  <2>3. \A i \in DOMAIN parts : IsList(parts[i]) /\ \A log \in Range(parts[i]) : Moves(log)
    <3>1. \A call \in Range(executed) : Amounts(call.data)
      BY PayloadIsOfLists
    <3> HIDE DEF executed, payload
    <3>2. \A i \in DOMAIN executed : Amounts(executed[i].data)
      BY <3>1 DEF Range
    <3> QED
      BY <3>2, LogsOfACall
  <2> HIDE DEF parts
  <2>4. IsList(FlattenSeq(parts)) /\ Range(FlattenSeq(parts)) \subseteq UNION {Range(parts[i]) : i \in DOMAIN parts}
    BY <2>2, <2>3, Flattened
  <2> QED
    BY <2>1, <2>3, <2>4 DEF Answers, parts
<1> QED
  BY <1>1, <1>2

LEMMA RowsOfNatives ==
  ASSUME NEW calls, IsList(calls)
  PROVE  IsList(NativeDeltas(calls))
<1> DEFINE parts == [i \in DOMAIN calls |-> NativeDelta(calls[i])]
<1>1. Len(calls) \in Nat /\ DOMAIN calls = 1 .. Len(calls)
  BY DEF IsList
<1>2. IsList(parts)
  BY <1>1, ListOf
<1>3. \A i \in DOMAIN parts : IsList(parts[i])
  BY OneElement, EmptyList DEF NativeDelta
<1> HIDE DEF parts
<1>4. IsList(FlattenSeq(parts))
  BY <1>2, <1>3, Flattened
<1> QED
  BY <1>4 DEF NativeDeltas, parts

LEMMA RowsOfALog ==
  ASSUME NEW log, NEW account, IsList(log.moved)
  PROVE  IsList(DeltasOfLog(log, account)) /\ IsList(ApprovalsOfLog(log))
<1>1. Len(log.moved) \in Nat /\ DOMAIN log.moved = 1 .. Len(log.moved)
  BY DEF IsList
<1> DEFINE rows == [i \in DOMAIN log.moved |->
            [kind |-> KindOfTransfer[log.event], token |-> log.token, id |-> log.moved[i].id,
             amount |-> log.moved[i].amount, direction |-> DirectionFor(account, log)]]
<1>2. IsList(rows)
  BY <1>1, ListOf
<1>3. DeltasOfLog(log, account) \in {<<>>, rows}
  BY DEF DeltasOfLog
<1> HIDE DEF rows
<1>4. IsList(DeltasOfLog(log, account))
  BY <1>2, <1>3, EmptyList
<1>5. IsList(ApprovalsOfLog(log))
  BY OneElement, EmptyList DEF ApprovalsOfLog
<1> QED
  BY <1>4, <1>5

LEMMA SimulatedScreen ==
  ASSUME SignRequest(request), NEW o \in Outcomes(SimulationPayloadFor(request)) \cup {NoOutcome}
  PROVE  Screen(SimulationDisplayLines(SimulateRequest(SimulationPayloadFor(request), o)))
<1> DEFINE payload == SimulationPayloadFor(request)
           result == SimulateRequest(payload, o)
           moved == [i \in DOMAIN o.logs |-> DeltasOfLog(o.logs[i], payload.account)]
           granted == [i \in DOMAIN o.logs |-> ApprovalsOfLog(o.logs[i])]
<1>1. CASE result.status = "unsimulated"
  <2>1. Caution({<<"not simulated">>}).severity \in Severities
    BY LineFor DEF Severities
  <2> QED
    BY <1>1, <2>1, OneLine DEF SimulationDisplayLines
<1>2. CASE result.status = "reverted"
  <2>1. Danger({<<"would fail">>}).severity \in Severities
    BY LineFor DEF Severities
  <2> QED
    BY <1>2, <2>1, OneLine DEF SimulationDisplayLines
<1>3. CASE o.status = "answered" /\ ~o.failed
  <2>1. Len(o.logs) \in Nat /\ DOMAIN o.logs = 1 .. Len(o.logs) /\ \A i \in DOMAIN o.logs : IsList(o.logs[i].moved)
    <3>1. Answers(o)
      BY OutcomesAreAnswers
    <3>2. Len(o.logs) \in Nat /\ DOMAIN o.logs = 1 .. Len(o.logs)
      BY <3>1 DEF Answers, IsList
    <3> QED
      BY <3>1, <3>2 DEF Answers, Moves, Range
  <2>2. IsList(moved) /\ IsList(granted)
    <3> HIDE DEF payload
    <3> QED
      BY <2>1, ListOf
  <2>3. \A i \in DOMAIN o.logs : IsList(moved[i]) /\ IsList(granted[i])
    <3> HIDE DEF payload
    <3> QED
      BY <2>1, RowsOfALog
  <2>4. IsList(NativeDeltas(payload.calls))
    BY PayloadIsOfLists, RowsOfNatives
  <2>5. /\ result.status = "simulated"
        /\ result.deltas = NativeDeltas(payload.calls) \o FlattenSeq(moved)
        /\ result.approvals = FlattenSeq(granted)
    <3> HIDE DEF payload
    <3> QED
      BY <1>3 DEF SimulateRequest
  <2>6. DOMAIN moved = DOMAIN o.logs /\ DOMAIN granted = DOMAIN o.logs
    OBVIOUS
  <2> HIDE DEF payload, result, moved, granted
  <2>7. IsList(FlattenSeq(moved)) /\ IsList(FlattenSeq(granted))
    BY <2>2, <2>3, <2>6, Flattened
  <2>8. IsList(result.deltas) /\ IsList(result.approvals)
    BY <2>4, <2>5, <2>7, Concatenated
  <2> DEFINE rows == [i \in DOMAIN result.deltas |-> DeltaLine(result.deltas[i])]
             grants == [i \in DOMAIN result.approvals |-> GrantLine(result.approvals[i])]
  <2>9. Screen(rows)
    <3>1. \A i \in DOMAIN result.deltas : rows[i].severity \in Severities
      BY DEF DeltaLine, Info, Caution, Severities
    <3> QED
      BY <2>8, <3>1, LinesOver
  <2>10. Screen(grants)
    <3>1. \A i \in DOMAIN result.approvals : grants[i].severity \in Severities
      BY DEF GrantLine, Info, Danger, Severities
    <3> QED
      BY <2>8, <3>1, LinesOver
  <2>11. SimulationDisplayLines(result) = rows \o grants
    BY <2>5 DEF SimulationDisplayLines
  <2> HIDE DEF rows, grants
  <2>12. Screen(rows \o grants)
    BY <2>9, <2>10, MoreLines
  <2> QED
    BY <2>11, <2>12 DEF result, payload
<1> QED
  BY <1>1, <1>2, <1>3 DEF SimulateRequest

-----------------------------------------------------------------------------
(* The page, one action at a time.                                         *)

(* What is asked is on the screen, or the screen is a warning.             *)
IsSaid ==
  \/ SaysWhatIsAsked(lines)
  \/ DecodeSignConsent(request) = Undecodable /\ Danger({}) \in Range(lines)

GestureTypes ==
  /\ stage \in Stages /\ rejectOnly \in BOOLEAN
  /\ asked \in Credentials \cup {"any"} /\ holder \in Credentials /\ secrets \subseteq {"prf", "key"}

AnswerTypes ==
  /\ answer.kind \in {"none", "user_rejected", "signature"}
  /\ (stage = "answered") = (answer # NoAnswer)

ScreenInv ==
  /\ Screen(lines)
  /\ stage # "closed" => SignRequest(request)
  /\ stage \notin {"closed", "decode"} => IsSaid

(* What does not decode is never offered for approval.                     *)
NeverOffered ==
  stage \notin {"closed", "decode"} /\ DecodeSignConsent(request) = Undecodable =>
    rejectOnly /\ stage \in {"consent", "answered"}

IScreen ==
  /\ GestureTypes /\ AnswerTypes /\ ScreenInv
  /\ SecretsEndWithTheGesture /\ SignaturesAreAccepted

IPage == IScreen /\ NeverOffered

LEMMA PageStart == DelegatedInit => IPage
<1> SUFFICES ASSUME DelegatedInit PROVE IPage
  OBVIOUS
<1>1. GestureTypes /\ AnswerTypes /\ SecretsEndWithTheGesture /\ SignaturesAreAccepted
  BY SigningAssumption
     DEF DelegatedInit, GestureTypes, Stages, AnswerTypes, NoAnswer, SecretsEndWithTheGesture, SignaturesAreAccepted
<1>2. ScreenInv
  BY NoLine DEF DelegatedInit, ScreenInv
<1>3. NeverOffered
  BY DEF DelegatedInit, NeverOffered
<1> QED
  BY <1>1, <1>2, <1>3 DEF IPage, IScreen

LEMMA SendsAreRequests ==
  ASSUME NEW rail \in {"native-gas", "sponsored"}, NEW c, NEW calls \in UserCalls
  PROVE  SignRequest(SendRequest(rail, c, calls))
<1>1. Calldata([fn |-> "execute", calls |-> calls])
  BY SendChainsAssumption DEF Calldata, Amounts
<1> QED
  BY <1>1 DEF SendRequest, SignRequest

LEMMA OpenedPage ==
  ASSUME IPage, OpenOfApp \/ OpenOfSend
  PROVE  IScreen'
<1>1. /\ UNCHANGED <<lines, rejectOnly, asked, holder, secrets, answer>>
      /\ stage = "closed" /\ stage' = "decode"
  BY DEF OpenOfApp, OpenOfSend, Open, gestureVars
<1>2. SignRequest(request')
  <2>1. CASE OpenOfApp
    BY <2>1, RequestsAssumption DEF OpenOfApp, Open
  <2>2. CASE OpenOfSend
    BY <2>2, SendsAreRequests DEF OpenOfSend, Open
  <2> QED
    BY <2>1, <2>2
<1>3. GestureTypes' /\ AnswerTypes' /\ SecretsEndWithTheGesture' /\ SignaturesAreAccepted'
  BY <1>1 DEF IPage, IScreen, GestureTypes, Stages, AnswerTypes, NoAnswer, SecretsEndWithTheGesture, SignaturesAreAccepted
<1>4. ScreenInv'
  BY <1>1, <1>2 DEF IPage, IScreen, ScreenInv, Screen
<1> QED
  BY <1>3, <1>4 DEF IPage, IScreen

(* Decoding writes the lines, simulation adds to them.                     *)
LEMMA DecodeWrites ==
  ASSUME IPage, Decode
  PROVE  IScreen'
<1>1. /\ UNCHANGED <<request, asked, holder, secrets, answer>>
      /\ stage = "decode" /\ stage' \in {"consent", "simulate"} /\ rejectOnly' \in BOOLEAN
  BY DEF Decode, gestureVars, IPage, IScreen, GestureTypes
<1>2. GestureTypes' /\ AnswerTypes' /\ SecretsEndWithTheGesture' /\ SignaturesAreAccepted'
  BY <1>1 DEF IPage, IScreen, GestureTypes, Stages, AnswerTypes, NoAnswer, SecretsEndWithTheGesture,
              SignaturesAreAccepted, Accepted
<1>3. SignRequest(request)
  BY <1>1 DEF IPage, IScreen, ScreenInv
<1>4. CASE DecodeSignConsent(request) = Undecodable
  <2>1. lines' = <<Danger({})>> /\ Danger({}).severity \in Severities
    BY <1>4, LineFor DEF Decode, Severities
  <2>2. Screen(lines') /\ Danger({}) \in Range(lines')
    BY <2>1, OneLine
  <2>3. IsSaid'
    BY <1>1, <1>4, <2>2 DEF IsSaid
  <2> QED
    BY <1>1, <1>2, <1>3, <2>2, <2>3 DEF IPage, IScreen, ScreenInv
<1>5. CASE DecodeSignConsent(request) # Undecodable
  <2>1. lines' = FormatConsentDisplay(DecodeSignConsent(request))
    BY <1>5 DEF Decode
  <2>2. Screen(lines') /\ SaysWhatIsAsked(lines')
    BY <1>3, <1>5, <2>1, DecodedScreen
  <2>3. IsSaid'
    BY <1>1, <2>2 DEF IsSaid, SaysWhatIsAsked, SignsBatch, OuterCall, Authorization, Displays
  <2> QED
    BY <1>1, <1>2, <1>3, <2>2, <2>3 DEF IPage, IScreen, ScreenInv
<1> QED
  BY <1>4, <1>5

LEMMA SimulateAdds ==
  ASSUME IPage, Simulate
  PROVE  IScreen'
<1>1. /\ UNCHANGED <<request, asked, holder, secrets, answer>>
      /\ stage = "simulate" /\ stage' = "consent"
  BY DEF Simulate, gestureVars
<1>2. PICK o \in Outcomes(SimulationPayloadFor(request)) \cup {NoOutcome} :
        /\ lines' = lines \o SimulationDisplayLines(SimulateRequest(SimulationPayloadFor(request), o))
        /\ rejectOnly' = (rejectOnly \/ SimulateRequest(SimulationPayloadFor(request), o).status = "reverted")
  BY DEF Simulate
<1>3. GestureTypes' /\ AnswerTypes' /\ SecretsEndWithTheGesture' /\ SignaturesAreAccepted'
  <2>1. rejectOnly' \in BOOLEAN
    BY <1>2 DEF IPage, IScreen, GestureTypes
  <2> QED
    BY <1>1, <2>1 DEF IPage, IScreen, GestureTypes, Stages, AnswerTypes, NoAnswer, SecretsEndWithTheGesture,
                      SignaturesAreAccepted, Accepted
<1>4. SignRequest(request) /\ Screen(lines) /\ IsSaid
  BY <1>1 DEF IPage, IScreen, ScreenInv
<1>5. Screen(SimulationDisplayLines(SimulateRequest(SimulationPayloadFor(request), o)))
  BY <1>4, SimulatedScreen
<1>6. /\ Screen(lines') /\ Range(lines) \subseteq Range(lines')
      /\ SaysWhatIsAsked(lines) => SaysWhatIsAsked(lines')
  BY <1>2, <1>4, <1>5, MoreIsSaid, MoreLines
<1>7. IsSaid'
  BY <1>1, <1>4, <1>6 DEF IsSaid, SaysWhatIsAsked, SignsBatch, OuterCall, Authorization, Displays
<1> QED
  BY <1>1, <1>3, <1>4, <1>6, <1>7 DEF IPage, IScreen, ScreenInv

(* After that the lines stay.                                              *)
LEMMA ScreenStays ==
  ASSUME ScreenInv, UNCHANGED <<request, lines>>, stage \notin {"closed", "decode"}, stage' \notin {"closed", "decode"}
  PROVE  ScreenInv'
BY DEF ScreenInv, IsSaid, SaysWhatIsAsked, SignsBatch, OuterCall, Authorization, Displays, Screen

LEMMA FailedGesture ==
  ASSUME NEW terminal \in BOOLEAN, GestureTypes, FailGesture(terminal)
  PROVE  /\ stage' \in {"assert", "consent"} /\ lines' = lines
         /\ rejectOnly' \in BOOLEAN /\ asked' \in Credentials \cup {"any"}
BY DEF FailGesture, GestureTypes

(* What performSign does not refuse, the wallet accepts.                   *)
LEMMA SignedIsAccepted ==
  ASSUME NEW c, ~Refused(c), request.op # "signSponsored",
         request.op = "signAuthorization" => Authorization(request)
  PROVE  Accepted(request, Signature(c))
<1>1. /\ Signature(c).by = KeyOf[c] /\ Signature(c).on = WalletOf(c)
      /\ Signature(c).authorization = Authorization(request)
      /\ Signature(c).wrapped = (request.op = "signUserOp" /\ IsRosterSigner(c))
  BY DEF Signature
<1>2. IsRosterSigner(c) =>
        /\ request.op \notin {"signMessage", "signTypedData", "signSiwe"}
        /\ ~Authorization(request)
  BY DEF Refused
<1>3. (Signature(c).by = Signature(c).on) <=> ~IsRosterSigner(c)
  BY <1>1 DEF IsRosterSigner
<1>4. IsRosterSigner(c) => request.op # "signAuthorization"
  BY <1>2
<1>5. IsRosterSigner(c) \in BOOLEAN /\ Authorization(request) \in BOOLEAN
  BY DEF IsRosterSigner, Authorization
<1>6. ASSUME request.op = "signUserOp"
      PROVE  Signature(c).wrapped = ~(Signature(c).by = Signature(c).on)
  BY <1>1, <1>3, <1>5, <1>6
<1> HIDE DEF Signature, Refused
<1> QED
  BY <1>1, <1>2, <1>3, <1>4, <1>6 DEF Accepted

LEMMA SignStep ==
  ASSUME IPage, PerformSign
  PROVE  IScreen'
<1>1. stage = "sign" /\ UNCHANGED <<request, outcome, holder>> /\ secrets' = {}
  BY DEF PerformSign, WipeSecrets
<1>2. SecretsEndWithTheGesture'
  BY <1>1 DEF SecretsEndWithTheGesture
<1>3. CASE Refused(holder)
  <2>1. /\ stage' \in {"assert", "consent"} /\ lines' = lines /\ answer' = answer
        /\ rejectOnly' \in BOOLEAN /\ asked' \in Credentials \cup {"any"}
    BY <1>3, FailedGesture DEF PerformSign, IPage, IScreen
  <2>2. ScreenInv'
    BY <1>1, <2>1, ScreenStays DEF IPage, IScreen
  <2> QED
    BY <1>1, <1>2, <2>1, <2>2 DEF IPage, IScreen, GestureTypes, Stages, AnswerTypes, NoAnswer, SignaturesAreAccepted, Accepted
<1>4. CASE ~Refused(holder)
  <2>1. answer' = Signature(holder) /\ stage' = "answered" /\ UNCHANGED <<asked, lines, rejectOnly>>
    BY <1>4 DEF PerformSign
  <2>2. ScreenInv'
    BY <1>1, <2>1, ScreenStays DEF IPage, IScreen
  <2>3. Signature(holder).kind = "signature"
    BY DEF Signature
  <2>4. SignaturesAreAccepted'
    <3>1. DecodeSignConsent(request) # Undecodable
      BY <1>1 DEF IPage, NeverOffered
    <3>2. request.op = "signAuthorization" => Authorization(request)
      BY <3>1 DEF DecodeSignConsent, Authorization
    <3>3. request.op # "signSponsored" => Accepted(request, Signature(holder))
      BY <1>4, <3>2, SignedIsAccepted
    <3> HIDE DEF Signature
    <3> QED
      BY <1>1, <2>1, <3>3 DEF SignaturesAreAccepted, Accepted
  <2>5. GestureTypes' /\ AnswerTypes'
    BY <1>1, <2>1, <2>3 DEF IPage, IScreen, GestureTypes, Stages, AnswerTypes, NoAnswer
  <2> QED
    BY <1>2, <2>2, <2>4, <2>5 DEF IPage, IScreen
<1> QED
  BY <1>3, <1>4

LEMMA GestureStep ==
  ASSUME IPage, Reject \/ Approve \/ DiscoverFails \/ Derive \/ \E c \in Credentials : Discover(c)
  PROVE  IScreen'
<1> USE DEF IPage, IScreen
<1>1. CASE Reject
  <2>1. ScreenInv'
    BY <1>1, ScreenStays DEF Reject, pageVars
  <2>2. GestureTypes' /\ SecretsEndWithTheGesture'
    BY <1>1 DEF Reject, pageVars, gestureVars, GestureTypes, Stages, SecretsEndWithTheGesture
  <2>3. AnswerTypes' /\ SignaturesAreAccepted'
    BY <1>1 DEF Reject, Rejection, NoAnswer, AnswerTypes, SignaturesAreAccepted
  <2> QED
    BY <2>1, <2>2, <2>3
<1>2. CASE Approve
  <2>1. ScreenInv'
    BY <1>2, ScreenStays DEF Approve, pageVars
  <2>2. GestureTypes' /\ SecretsEndWithTheGesture'
    BY <1>2, SigningAssumption DEF Approve, pageVars, GestureTypes, Stages, SecretsEndWithTheGesture
  <2>3. AnswerTypes' /\ SignaturesAreAccepted'
    BY <1>2 DEF Approve, NoAnswer, AnswerTypes, SignaturesAreAccepted
  <2> QED
    BY <2>1, <2>2, <2>3
<1>3. CASE DiscoverFails
  <2>1. /\ stage = "assert" /\ stage' \in {"assert", "consent"} /\ lines' = lines
        /\ rejectOnly' \in BOOLEAN /\ asked' \in Credentials \cup {"any"}
        /\ UNCHANGED <<request, holder, secrets, answer>>
    BY <1>3, FailedGesture DEF DiscoverFails
  <2>2. ScreenInv'
    BY <2>1, ScreenStays
  <2>3. GestureTypes' /\ SecretsEndWithTheGesture' /\ AnswerTypes' /\ SignaturesAreAccepted'
    BY <2>1 DEF GestureTypes, Stages, SecretsEndWithTheGesture, NoAnswer, AnswerTypes, SignaturesAreAccepted
  <2> QED
    BY <2>2, <2>3
<1>4. CASE Derive
  <2>1. stage = "derive" /\ UNCHANGED <<request, holder, answer>>
    BY <1>4 DEF Derive
  <2>2. \/ secrets' = {} /\ FailGesture(FALSE)
        \/ secrets' = {"prf", "key"} /\ stage' = "sign" /\ UNCHANGED <<asked, lines, rejectOnly>>
    BY <1>4 DEF Derive, WipeSecrets
  <2>3. /\ stage' \in {"assert", "consent", "sign"} /\ lines' = lines
        /\ rejectOnly' \in BOOLEAN /\ asked' \in Credentials \cup {"any"}
        /\ secrets' \subseteq {"prf", "key"} /\ (secrets' # {} => stage' = "sign")
    BY <2>2, FailedGesture DEF GestureTypes
  <2>4. ScreenInv'
    BY <2>1, <2>3, ScreenStays
  <2>5. GestureTypes' /\ SecretsEndWithTheGesture' /\ AnswerTypes' /\ SignaturesAreAccepted'
    BY <2>1, <2>3 DEF GestureTypes, Stages, SecretsEndWithTheGesture, NoAnswer, AnswerTypes, SignaturesAreAccepted
  <2> QED
    BY <2>4, <2>5
<1>5. ASSUME NEW c \in Credentials, Discover(c) PROVE IScreen'
  <2>1. ScreenInv'
    BY <1>5, ScreenStays DEF Discover, pageVars
  <2>2. GestureTypes' /\ SecretsEndWithTheGesture'
    BY <1>5 DEF Discover, pageVars, GestureTypes, Stages, SecretsEndWithTheGesture
  <2>3. AnswerTypes' /\ SignaturesAreAccepted'
    BY <1>5 DEF Discover, NoAnswer, AnswerTypes, SignaturesAreAccepted
  <2> QED
    BY <2>1, <2>2, <2>3
<1> QED
  BY <1>1, <1>2, <1>3, <1>4, <1>5

LEMMA PageUntouched ==
  ASSUME IPage, UNCHANGED vars
  PROVE  IScreen'
<1>1. UNCHANGED <<request, stage, lines, rejectOnly, asked, holder, secrets, answer>>
  BY DEF vars, pageVars, gestureVars
<1>2. ScreenInv'
  BY <1>1 DEF IPage, IScreen, ScreenInv, IsSaid, SaysWhatIsAsked, SignsBatch, OuterCall, Authorization, Displays, Screen
<1>3. GestureTypes' /\ SecretsEndWithTheGesture' /\ AnswerTypes' /\ SignaturesAreAccepted'
  BY <1>1 DEF IPage, IScreen, GestureTypes, SecretsEndWithTheGesture, AnswerTypes, NoAnswer, SignaturesAreAccepted, Accepted
<1> QED
  BY <1>2, <1>3 DEF IPage, IScreen

LEMMA StaysUnoffered ==
  ASSUME IPage, [DelegatedNext]_sendVars
  PROVE  NeverOffered'
<1> USE DEF IPage, NeverOffered
<1>1. CASE OpenOfApp \/ OpenOfSend
  BY <1>1 DEF OpenOfApp, OpenOfSend, Open
<1>2. CASE UNCHANGED vars
  BY <1>2 DEF vars, pageVars
<1>3. CASE Decode
  BY <1>3 DEF Decode
<1>4. CASE Simulate
  BY <1>4 DEF Simulate
<1>5. CASE Reject
  BY <1>5 DEF Reject, pageVars
<1>6. CASE Approve
  BY <1>6 DEF Approve, pageVars
<1>7. CASE DiscoverFails
  BY <1>7 DEF DiscoverFails
<1>8. CASE Derive
  BY <1>8 DEF Derive
<1>9. CASE PerformSign
  BY <1>9 DEF PerformSign
<1>10. CASE \E c \in Credentials : Discover(c)
  BY <1>10 DEF Discover, pageVars
<1> QED
  BY <1>1, <1>2, <1>3, <1>4, <1>5, <1>6, <1>7, <1>8, <1>9, <1>10
     DEF DelegatedNext, PageStep, Next, sendVars, ReleaseStep, Delegate

LEMMA PageNext ==
  ASSUME IPage, [DelegatedNext]_sendVars
  PROVE  IPage'
<1>1. CASE PageStep
  BY <1>1, DecodeWrites, SimulateAdds, SignStep, GestureStep, StaysUnoffered DEF PageStep, Next, IPage
<1>2. CASE UNCHANGED vars
  BY <1>2, PageUntouched, StaysUnoffered DEF IPage
<1> QED
  BY <1>1, <1>2, OpenedPage, StaysUnoffered DEF DelegatedNext, sendVars, ReleaseStep, Delegate, IPage

-----------------------------------------------------------------------------
(* What the lines amount to.                                               *)

LEMMA HighestIsDanger ==
  ASSUME NEW line \in Range(lines), line.severity = "danger"
  PROVE  HighestSeverity(lines) = "danger"
BY DEF HighestSeverity, Range

LEMMA ShownFacts ==
  ASSUME NEW line \in Range(lines)
  PROVE  line.facts \subseteq Shown
BY DEF Shown, Range

(* The calls a transaction or an operation signs are the inner ones, or    *)
(* the batch of some other account.                                        *)
LEMMA SignedAreInner ==
  ASSUME request.op \in {"signTransaction", "signSend", "signUserOp"}
  PROVE  SignedCalls = InnerCalls(OuterCall) \/ (SignedCalls = <<OuterCall>> /\ OuterCall.data.fn = "execute")
<1> DEFINE account == IF request.op = "signUserOp" THEN request.sender ELSE request.from
<1>1. SignedCalls = Executed([account |-> account, calls |-> <<OuterCall>>])
  BY DEF SignedCalls, OuterCall
<1>2. <<OuterCall>> # <<>> /\ <<OuterCall>>[1] = OuterCall
  OBVIOUS
<1> HIDE DEF account
<1>3. SignedCalls = IF OuterCall.to = account /\ OuterCall.data.fn = "execute"
                    THEN OuterCall.data.calls ELSE <<OuterCall>>
  BY <1>1, <1>2 DEF Executed
<1> QED
  BY <1>3 DEF InnerCalls

LEMMA EngineSignsInner ==
  ASSUME OfTheEngine
  PROVE  SignedCalls = InnerCalls(OuterCall)
<1> DEFINE account == IF request.op = "signUserOp" THEN request.sender ELSE request.from
<1>1. SignedCalls = Executed([account |-> account, calls |-> <<OuterCall>>])
  BY DEF SignedCalls, OuterCall, OfTheEngine
<1>2. <<OuterCall>> # <<>> /\ <<OuterCall>>[1] = OuterCall /\ OuterCall.to = account
  BY DEF OuterCall, OfTheEngine
<1> HIDE DEF account
<1> QED
  BY <1>1, <1>2 DEF Executed, InnerCalls

LEMMA MarkedDanger ==
  ASSUME IsSaid
  PROVE  \/ HighestSeverity(lines) = "danger"
         \/ /\ ~(Authorization(request) /\ request.address # NoAddress)
            /\ request.op \in {"signTransaction", "signSend", "signUserOp"} =>
                 ~\E i \in DOMAIN SignedCalls : Unlimited(SignedCalls[i])
            /\ request.op \in {"signTypedData", "signSponsored"} =>
                 IF SignsBatch
                 THEN ~\E call \in Range(request.typedData.message.userCalls) : Unlimited(call)
                 ELSE request.typedData.primaryType \notin DangerousPrimaryTypes
<1>1. ASSUME NEW facts, Danger(facts) \in Range(lines) PROVE HighestSeverity(lines) = "danger"
  BY <1>1, HighestIsDanger DEF Danger
<1>2. ASSUME NEW call, Displays(lines, call), Unlimited(call) PROVE HighestSeverity(lines) = "danger"
  BY <1>2, HighestIsDanger, LineOfACall DEF Displays
<1> SUFFICES ASSUME SaysWhatIsAsked(lines), HighestSeverity(lines) # "danger"
             PROVE  /\ ~(Authorization(request) /\ request.address # NoAddress)
                    /\ request.op \in {"signTransaction", "signSend", "signUserOp"} =>
                         ~\E i \in DOMAIN SignedCalls : Unlimited(SignedCalls[i])
                    /\ request.op \in {"signTypedData", "signSponsored"} =>
                         IF SignsBatch
                         THEN ~\E call \in Range(request.typedData.message.userCalls) : Unlimited(call)
                         ELSE request.typedData.primaryType \notin DangerousPrimaryTypes
  BY <1>1 DEF IsSaid
<1>3. ~(Authorization(request) /\ request.address # NoAddress)
  BY <1>1 DEF SaysWhatIsAsked
<1>4. ASSUME request.op \in {"signTransaction", "signSend", "signUserOp"},
             NEW i \in DOMAIN SignedCalls, Unlimited(SignedCalls[i])
      PROVE  FALSE
  <2>1. CASE SignedCalls = InnerCalls(OuterCall)
    <3>1. SignedCalls[i] \in Range(InnerCalls(OuterCall))
      BY <1>4, <2>1 DEF Range
    <3> QED
      BY <1>2, <1>4, <3>1 DEF SaysWhatIsAsked
  <2>2. CASE SignedCalls = <<OuterCall>> /\ OuterCall.data.fn = "execute"
    <3>1. SignedCalls[i] = OuterCall
      BY <1>4, <2>2
    <3> QED
      BY <1>4, <2>2, <3>1 DEF Unlimited
  <2> QED
    BY <1>4, <2>1, <2>2, SignedAreInner
<1>5. ASSUME request.op \in {"signTypedData", "signSponsored"}
      PROVE  IF SignsBatch
             THEN ~\E call \in Range(request.typedData.message.userCalls) : Unlimited(call)
             ELSE request.typedData.primaryType \notin DangerousPrimaryTypes
  BY <1>1, <1>2, <1>5 DEF SaysWhatIsAsked
<1> QED
  BY <1>3, <1>4, <1>5

LEMMA EngineIsShown ==
  ASSUME IsSaid, OfTheEngine
  PROVE  Commits \subseteq Shown
<1>1. DecodeSignConsent(request) # Undecodable
  BY DEF OfTheEngine, DecodeSignConsent, Undecodable
<1>2. SaysWhatIsAsked(lines)
  BY <1>1 DEF IsSaid
<1>3. ASSUME NEW i \in DOMAIN SignedCalls PROVE CommitsCall(SignedCalls[i]) \subseteq Shown
  <2>1. SignedCalls[i] \in Range(InnerCalls(OuterCall))
    BY EngineSignsInner DEF Range
  <2>2. Displays(lines, SignedCalls[i])
    BY <1>2, <2>1 DEF SaysWhatIsAsked, OfTheEngine
  <2> QED
    BY <2>2, ShownFacts, LineOfACall DEF Displays
<1>4. ASSUME Authorization(request)
      PROVE  request.address # NoAddress /\ <<"delegate", request.address>> \in Shown
  <2>1. request.address # NoAddress
    BY <1>4 DEF Authorization, OfTheEngine
  <2>2. Danger({<<"delegate", request.address>>}) \in Range(lines)
    BY <1>2, <1>4, <2>1 DEF SaysWhatIsAsked
  <2>3. {<<"delegate", request.address>>} \subseteq Shown
    BY <2>2, ShownFacts, LineFor
  <2> QED
    BY <2>1, <2>3
<1>5. CommitsDelegation \subseteq Shown
  BY <1>4 DEF CommitsDelegation
<1> DEFINE calls == {CommitsCall(SignedCalls[i]) : i \in DOMAIN SignedCalls}
<1>6. Commits = (UNION calls) \cup CommitsDelegation
  BY DEF Commits
<1>7. \A facts \in calls : facts \subseteq Shown
  BY <1>3
<1> HIDE DEF calls
<1> QED
  BY <1>5, <1>6, <1>7

(* ceremony.ts, mount.ts, sandbox.ts: no secret outlives its gesture,      *)
(* however it ends, and what is signed the wallet accepts, for whatever is *)
(* asked and with whichever passkeys.                                      *)
THEOREM SigningIsSafe == DelegatedSpec => []SigningInv
<1>1. IPage => SigningInv
  <2> SUFFICES ASSUME IPage PROVE SigningInv
    OBVIOUS
  <2>1. \A i \in DOMAIN lines : lines[i].severity \in {"info", "caution", "danger"}
    BY DEF IPage, IScreen, ScreenInv, Screen, Severities, Range
  <2> QED
    BY <2>1 DEF IPage, IScreen, SigningInv, SigningTypeOK, GestureTypes, AnswerTypes
<1> QED
  BY <1>1, PageStart, PageNext, PTL DEF DelegatedSpec

(* consent.ts, consent-display.ts: of what the send engine asks for, the   *)
(* screen leaves nothing out, whatever the batch and the simulation.       *)
THEOREM EngineSendsAreShown == DelegatedSpec => []EngineRequestsAreShown
<1>1. IPage => EngineRequestsAreShown
  BY EngineIsShown DEF IPage, IScreen, ScreenInv, EngineRequestsAreShown
<1> QED
  BY <1>1, PageStart, PageNext, PTL DEF DelegatedSpec

(* danger.ts, consent-display.ts: an approval without limit, a permit and  *)
(* a delegation are marked as dangerous, whatever else is on the screen.   *)
THEOREM DangerIsShown == DelegatedSpec => []DangerIsMarked
<1>1. IPage => DangerIsMarked
  BY MarkedDanger DEF IPage, IScreen, ScreenInv, DangerIsMarked
<1> QED
  BY <1>1, PageStart, PageNext, PTL DEF DelegatedSpec

-----------------------------------------------------------------------------
(* Sums of lists.                                                          *)

Sums(g, s, n) == g[0] = 0 /\ \A m \in 1 .. n : g[m] = g[m - 1] + s[m]

LEMMA SumsExist ==
  ASSUME NEW n \in Nat, NEW s \in [1 .. n -> Int]
  PROVE  \E g \in [0 .. n -> Int] : Sums(g, s, n)
<1> DEFINE T == {m \in Nat : m <= n => \E g \in [0 .. m -> Int] : Sums(g, s, m)}
<1>1. 0 \in T
  <2>1. [i \in 0 .. 0 |-> 0] \in [0 .. 0 -> Int] /\ Sums([i \in 0 .. 0 |-> 0], s, 0)
    BY DEF Sums
  <2> QED
    BY <2>1
<1>2. ASSUME NEW m \in Nat, m \in T
      PROVE  m + 1 \in T
  <2> SUFFICES ASSUME m + 1 <= n
               PROVE  \E g \in [0 .. m + 1 -> Int] : Sums(g, s, m + 1)
    OBVIOUS
  <2>1. PICK g \in [0 .. m -> Int] : Sums(g, s, m)
    BY <1>2
  <2> DEFINE h == [i \in 0 .. m + 1 |-> IF i = m + 1 THEN g[m] + s[m + 1] ELSE g[i]]
  <2>2. h \in [0 .. m + 1 -> Int]
    OBVIOUS
  <2>3. Sums(h, s, m + 1)
    BY <2>1 DEF Sums
  <2> QED
    BY <2>2, <2>3
<1> HIDE DEF T
<1>3. n \in T
  BY <1>1, <1>2, SetInduction
<1> QED
  BY <1>3 DEF T

LEMMA SumsAgree ==
  ASSUME NEW n \in Nat, NEW s, NEW g, NEW h, Sums(g, s, n), Sums(h, s, n)
  PROVE  g[n] = h[n]
<1> DEFINE T == {m \in Nat : m <= n => g[m] = h[m]}
<1>1. 0 \in T
  BY DEF Sums
<1>2. ASSUME NEW m \in Nat, m \in T PROVE m + 1 \in T
  <2> SUFFICES ASSUME m + 1 <= n PROVE g[m + 1] = h[m + 1]
    OBVIOUS
  <2>1. /\ g[m + 1] = g[(m + 1) - 1] + s[m + 1]
        /\ h[m + 1] = h[(m + 1) - 1] + s[m + 1]
    BY DEF Sums
  <2> QED
    BY <2>1, <1>2
<1> HIDE DEF T
<1>3. n \in T
  BY <1>1, <1>2, SetInduction
<1> QED
  BY <1>3 DEF T

LEMMA TotalIs ==
  ASSUME NEW n \in Nat, NEW s \in [1 .. n -> Int], NEW g, Sums(g, s, n)
  PROVE  Total(s) = g[n] /\ Total(s) \in Int
<1> DEFINE eq(f) == f = [m \in 0 .. Len(s) |-> IF m = 0 THEN 0 ELSE f[m - 1] + s[m]]
           sum == CHOOSE f : eq(f)
<1>0. Len(s) = n
  OBVIOUS
<1>1. PICK h \in [0 .. n -> Int] : Sums(h, s, n)
  BY SumsExist
<1>2. eq(h)
  BY <1>0, <1>1 DEF Sums
<1>3. eq(sum)
  <2> HIDE DEF eq
  <2> QED BY <1>2
<1>4. Total(s) = sum[n]
  BY <1>0 DEF Total
<1> HIDE DEF sum
<1>5. Sums(sum, s, n)
  <2>1. sum = [m \in 0 .. n |-> IF m = 0 THEN 0 ELSE sum[m - 1] + s[m]]
    BY <1>0, <1>3
  <2> QED
    BY <2>1 DEF Sums
<1>6. sum[n] = g[n] /\ sum[n] = h[n]
  BY <1>1, <1>5, SumsAgree
<1> QED
  BY <1>4, <1>6

LEMMA TotalIsInt ==
  ASSUME NEW n \in Nat, NEW s \in [1 .. n -> Int]
  PROVE  Total(s) \in Int
<1>1. PICK g \in [0 .. n -> Int] : Sums(g, s, n)
  BY SumsExist
<1> QED
  BY <1>1, TotalIs

LEMMA TotalOfNothing ==
  ASSUME NEW n \in Nat, NEW s \in [1 .. n -> Int], \A i \in 1 .. n : s[i] = 0
  PROVE  Total(s) = 0
<1> DEFINE g == [m \in 0 .. n |-> 0]
<1>1. Sums(g, s, n) /\ g[n] = 0
  BY DEF Sums
<1> HIDE DEF g
<1> QED
  BY <1>1, TotalIs

LEMMA TotalOfLosses ==
  ASSUME NEW n \in Nat, NEW s \in [1 .. n -> Int], NEW t \in [1 .. n -> Int], \A i \in 1 .. n : t[i] = 0 - s[i]
  PROVE  Total(t) = 0 - Total(s)
<1>1. PICK h \in [0 .. n -> Int] : Sums(h, s, n)
  BY SumsExist
<1> DEFINE g == [m \in 0 .. n |-> 0 - h[m]]
<1>2. g[0] = 0
  BY <1>1 DEF Sums
<1>3. ASSUME NEW m \in 1 .. n PROVE g[m] = g[m - 1] + t[m]
  <2>1. h[m] = h[m - 1] + s[m] /\ h[m - 1] \in Int /\ s[m] \in Int /\ t[m] = 0 - s[m]
    BY <1>1 DEF Sums
  <2>2. g[m] = 0 - h[m] /\ g[m - 1] = 0 - h[m - 1]
    OBVIOUS
  <2> HIDE DEF g
  <2> QED
    BY <2>1, <2>2
<1>4. g[n] = 0 - h[n]
  OBVIOUS
<1> HIDE DEF g
<1>5. Sums(g, t, n)
  BY <1>2, <1>3 DEF Sums
<1> QED
  BY <1>1, <1>4, <1>5, TotalIs

LEMMA TotalOfBoth ==
  ASSUME NEW n \in Nat, NEW k \in Nat, NEW s \in [1 .. n -> Int], NEW t \in [1 .. k -> Int],
         NEW u \in [1 .. n + k -> Int],
         \A i \in 1 .. n : u[i] = s[i], \A i \in 1 .. k : u[n + i] = t[i]
  PROVE  Total(u) = Total(s) + Total(t)
<1>1. PICK f \in [0 .. n -> Int] : Sums(f, s, n)
  BY SumsExist
<1>2. PICK h \in [0 .. k -> Int] : Sums(h, t, k)
  BY SumsExist
<1> DEFINE g == [m \in 0 .. n + k |-> IF m <= n THEN f[m] ELSE f[n] + h[m - n]]
<1>3. g[0] = 0
  BY <1>1 DEF Sums
<1>4. ASSUME NEW m \in 1 .. n + k PROVE g[m] = g[m - 1] + u[m]
  <2>1. CASE m <= n
    <3>1. f[m] = f[m - 1] + s[m] /\ u[m] = s[m]
      BY <1>1, <2>1 DEF Sums
    <3>2. g[m] = f[m] /\ g[m - 1] = f[m - 1]
      BY <2>1
    <3> HIDE DEF g
    <3> QED
      BY <3>1, <3>2
  <2>2. CASE m > n
    <3> DEFINE j == m - n
    <3>1. j \in 1 .. k /\ n + j = m
      BY <2>2
    <3>2. h[j] = h[j - 1] + t[j] /\ u[m] = t[j] /\ h[j - 1] \in Int /\ t[j] \in Int /\ f[n] \in Int
      <4> HIDE DEF j, g
      <4>1. h[j] = h[j - 1] + t[j]
        BY <1>2, <3>1 DEF Sums
      <4>2. u[m] = t[j] /\ t[j] \in Int
        BY <3>1
      <4>3. h[j - 1] \in Int
        BY <3>1
      <4>4. f[n] \in Int
        OBVIOUS
      <4> QED
        BY <4>1, <4>2, <4>3, <4>4
    <3>3. g[m] = f[n] + h[j]
      BY <2>2
    <3>4. g[m - 1] = f[n] + h[j - 1]
      <4>1. CASE m - 1 = n
        <5>1. j - 1 = 0 /\ h[0] = 0 /\ f[n] \in Int
          BY <4>1, <1>2 DEF Sums
        <5>2. g[m - 1] = f[n]
          BY <4>1
        <5> HIDE DEF g, j
        <5> QED
          BY <5>1, <5>2
      <4>2. CASE m - 1 > n
        BY <4>2
      <4> QED
        BY <2>2, <4>1, <4>2
    <3> HIDE DEF g, j
    <3> QED
      BY <3>2, <3>3, <3>4
  <2> QED
    BY <2>1, <2>2
<1>5. g[n + k] = f[n] + h[k]
  <2>1. CASE k = 0
    <3>1. g[n + k] = f[n] /\ h[k] = 0 /\ f[n] \in Int
      BY <2>1, <1>2 DEF Sums
    <3> HIDE DEF g
    <3> QED
      BY <3>1
  <2>2. CASE k > 0
    BY <2>2
  <2> QED
    BY <2>1, <2>2
<1> HIDE DEF g
<1>6. Sums(g, u, n + k)
  BY <1>3, <1>4 DEF Sums
<1>7. n + k \in Nat
  OBVIOUS
<1>8. Total(u) = g[n + k] /\ Total(s) = f[n] /\ Total(t) = h[k]
  BY <1>1, <1>2, <1>6, <1>7, TotalIs
<1> QED
  BY <1>5, <1>8

-----------------------------------------------------------------------------
(* What rows are worth, of one token and identifier.                       *)

Worth(d, token, id) ==
  IF d.token = token /\ d.id = id THEN IF d.direction = "in" THEN d.amount ELSE 0 - d.amount ELSE 0
Worths(s, token, id) == [i \in DOMAIN s |-> Worth(s[i], token, id)]
Priced(s, token, id) == IsList(s) /\ \A d \in Range(s) : Worth(d, token, id) \in Int

LEMMA PricedIs ==
  ASSUME NEW s, NEW token, NEW id, Priced(s, token, id)
  PROVE  Len(s) \in Nat /\ DOMAIN s = 1 .. Len(s) /\ Worths(s, token, id) \in [1 .. Len(s) -> Int]
<1>1. Len(s) \in Nat /\ DOMAIN s = 1 .. Len(s)
  BY DEF Priced, IsList
<1>2. \A i \in 1 .. Len(s) : s[i] \in Range(s)
  BY <1>1 DEF Range
<1> QED
  BY <1>1, <1>2 DEF Priced, Worths

LEMMA WorthOfNothing ==
  ASSUME NEW token, NEW id
  PROVE  Priced(<<>>, token, id) /\ Total(Worths(<<>>, token, id)) = 0
<1>1. Priced(<<>>, token, id) /\ Len(<<>>) = 0
  BY EmptyList DEF Priced
<1>2. Worths(<<>>, token, id) \in [1 .. 0 -> Int]
  BY <1>1, PricedIs
<1> QED
  BY <1>1, <1>2, TotalOfNothing

LEMMA WorthOfBoth ==
  ASSUME NEW s, NEW t, NEW token, NEW id, Priced(s, token, id), Priced(t, token, id)
  PROVE  /\ Priced(s \o t, token, id)
         /\ Total(Worths(s \o t, token, id)) = Total(Worths(s, token, id)) + Total(Worths(t, token, id))
<1> DEFINE n == Len(s)
           k == Len(t)
           S == Range(s) \cup Range(t)
<1>1. Priced(s \o t, token, id)
  BY Concatenated DEF Priced
<1>2. /\ n \in Nat /\ k \in Nat /\ DOMAIN s = 1 .. n /\ DOMAIN t = 1 .. k
      /\ Worths(s, token, id) \in [1 .. n -> Int] /\ Worths(t, token, id) \in [1 .. k -> Int]
  BY PricedIs
<1>3. s \in Seq(S) /\ t \in Seq(S)
  BY DEF Priced, IsList
<1>4. /\ Len(s \o t) = n + k
      /\ \A i \in 1 .. n : (s \o t)[i] = s[i]
      /\ \A i \in 1 .. k : (s \o t)[n + i] = t[i]
  <2> HIDE DEF S
  <2> QED
    BY <1>3
<1>5. Worths(s \o t, token, id) \in [1 .. n + k -> Int] /\ DOMAIN (s \o t) = 1 .. n + k
  BY <1>1, <1>4, PricedIs
<1> HIDE DEF n, k
<1>6. \A i \in 1 .. n : Worths(s \o t, token, id)[i] = Worths(s, token, id)[i]
  <2> SUFFICES ASSUME NEW i \in 1 .. n PROVE Worths(s \o t, token, id)[i] = Worths(s, token, id)[i]
    OBVIOUS
  <2>1. i \in 1 .. n + k
    BY <1>2
  <2> QED
    BY <2>1, <1>2, <1>4, <1>5 DEF Worths
<1>7. \A i \in 1 .. k : Worths(s \o t, token, id)[n + i] = Worths(t, token, id)[i]
  <2> SUFFICES ASSUME NEW i \in 1 .. k PROVE Worths(s \o t, token, id)[n + i] = Worths(t, token, id)[i]
    OBVIOUS
  <2>1. n + i \in 1 .. n + k
    BY <1>2
  <2> QED
    BY <2>1, <1>2, <1>4, <1>5 DEF Worths
<1> QED
  BY <1>1, <1>2, <1>5, <1>6, <1>7, TotalOfBoth

LEMMA WorthOfAll ==
  ASSUME NEW seqs, IsList(seqs), NEW token, NEW id, \A i \in DOMAIN seqs : Priced(seqs[i], token, id)
  PROVE  /\ Priced(FlattenSeq(seqs), token, id)
         /\ Total(Worths(FlattenSeq(seqs), token, id))
              = Total([i \in DOMAIN seqs |-> Total(Worths(seqs[i], token, id))])
<1> DEFINE n == Len(seqs)
           S == UNION {Range(seqs[i]) : i \in DOMAIN seqs}
           t == [i \in DOMAIN seqs |-> Total(Worths(seqs[i], token, id))]
<1>1. n \in Nat /\ DOMAIN seqs = 1 .. n
  BY DEF IsList
<1>2. Priced(FlattenSeq(seqs), token, id)
  <2>1. \A i \in DOMAIN seqs : IsList(seqs[i])
    BY DEF Priced
  <2>2. \A d \in S : Worth(d, token, id) \in Int
    BY DEF Priced
  <2> HIDE DEF S
  <2> QED
    BY <2>1, <2>2, Flattened DEF Priced, S
<1>3. seqs \in [1 .. n -> Seq(S)]
  <2>1. ASSUME NEW i \in 1 .. n PROVE seqs[i] \in Seq(S)
    <3>1. Range(seqs[i]) \subseteq S /\ seqs[i] \in Seq(Range(seqs[i]))
      BY <1>1 DEF Priced, IsList
    <3> HIDE DEF S
    <3> QED
      BY <3>1
  <2> QED
    BY <1>1, <2>1 DEF IsList
<1>4. t \in [1 .. n -> Int]
  <2>1. ASSUME NEW i \in 1 .. n PROVE Total(Worths(seqs[i], token, id)) \in Int
    BY <1>1, PricedIs, TotalIsInt
  <2> QED
    BY <1>1, <2>1
<1>5. CASE n = 0
  <2>1. FlattenSeq(seqs) = <<>>
    <3>1. Len(seqs) = 0 /\ seqs \in Seq(Range(seqs))
      BY <1>5 DEF IsList
    <3>2. FlattenSeq(seqs) = seqs
      BY <3>1 DEF FlattenSeq
    <3> HIDE DEF S, n, t
    <3> QED
      BY <3>1, <3>2
  <2>2. Total(t) = 0
    <3> HIDE DEF t, n
    <3>1. \A i \in 1 .. n : t[i] = 0
      BY <1>5
    <3> QED
      BY <1>1, <1>4, <3>1, TotalOfNothing
  <2> HIDE DEF t
  <2> QED
    BY <1>2, <2>1, <2>2, WorthOfNothing DEF t
<1>6. CASE n # 0
  <2> HIDE DEF S, n
  <2>1. PICK f : (\A i \in 1 .. n : f[i] \in Seq(S)) /\ Flattens(f, seqs, n) /\ FlattenSeq(seqs) = f[n]
    BY <1>1, <1>3, <1>6, FlattenBy
  <2>2. \A d \in S : Worth(d, token, id) \in Int
    BY DEF Priced, S
  <2>3. \A i \in 1 .. n : Priced(f[i], token, id)
    <3> SUFFICES ASSUME NEW i \in 1 .. n PROVE Priced(f[i], token, id)
      OBVIOUS
    <3>1. IsList(f[i])
      BY <2>1, ListIsSeq
    <3>2. Range(f[i]) \subseteq S
      BY <2>1 DEF Range
    <3> QED
      BY <2>2, <3>1, <3>2 DEF Priced
  <2> DEFINE g == [m \in 0 .. n |-> IF m = 0 THEN 0 ELSE Total(Worths(f[m], token, id))]
  <2>4. g[0] = 0 /\ g[n] = Total(Worths(FlattenSeq(seqs), token, id))
    BY <1>1, <1>6, <2>1
  <2>5. ASSUME NEW m \in 1 .. n PROVE g[m] = g[m - 1] + t[m]
    <3>1. t[m] = Total(Worths(seqs[m], token, id)) /\ t[m] \in Int
      BY <1>1, <1>4
    <3>2. CASE m = 1
      <4>1. f[m] = seqs[m]
        BY <2>1, <3>2 DEF Flattens
      <4>2. g[m] = Total(Worths(f[m], token, id)) /\ g[m - 1] = 0
        BY <1>1, <3>2
      <4> HIDE DEF g, t
      <4> QED
        BY <3>1, <4>1, <4>2
    <3>3. CASE m # 1
      <4>1. m - 1 \in 1 .. n /\ m \in DOMAIN seqs
        BY <1>1, <3>3
      <4>2. f[m] = f[m - 1] \o seqs[m]
        BY <2>1, <3>3 DEF Flattens
      <4>3. Priced(f[m - 1], token, id) /\ Priced(seqs[m], token, id)
        BY <2>3, <4>1
      <4>4. Total(Worths(f[m], token, id)) = Total(Worths(f[m - 1], token, id)) + Total(Worths(seqs[m], token, id))
        BY <4>2, <4>3, WorthOfBoth
      <4>5. g[m] = Total(Worths(f[m], token, id)) /\ g[m - 1] = Total(Worths(f[m - 1], token, id))
        BY <1>1, <4>1
      <4> HIDE DEF g, t
      <4> QED
        BY <3>1, <4>4, <4>5
    <3> QED
      BY <3>2, <3>3
  <2> HIDE DEF g, t
  <2>6. Sums(g, t, n)
    BY <2>4, <2>5 DEF Sums
  <2>7. Total(t) = g[n]
    BY <1>1, <1>4, <2>6, TotalIs
  <2> QED
    BY <1>2, <2>4, <2>7 DEF t
<1> QED
  BY <1>1, <1>5, <1>6

-----------------------------------------------------------------------------
(* The rows of a run, and what it moved.                                   *)

(* A log of a transfer of the wallet is worth what the wallet gains by it. *)
LEMMA LogAddsUp ==
  ASSUME NEW log, Moves(log), log.from # log.to, NEW account, NEW token, NEW id
  PROVE  /\ Priced(DeltasOfLog(log, account), token, id)
         /\ Total(Worths(DeltasOfLog(log, account), token, id)) = Gain(log, account, token, id)
         /\ Gain(log, account, token, id) \in Int
<1> DEFINE n == Len(log.moved)
           s == [k \in DOMAIN log.moved |-> IF log.moved[k].id = id THEN log.moved[k].amount ELSE 0]
           rows == DeltasOfLog(log, account)
           direction == DirectionFor(account, log)
<1>1. n \in Nat /\ DOMAIN log.moved = 1 .. n /\ IsList(rows)
  BY RowsOfALog DEF Moves, IsList
<1>2. \A k \in 1 .. n : log.moved[k].amount \in Nat
  BY <1>1 DEF Moves, Range
<1>3. s \in [1 .. n -> Int] /\ Total(s) \in Int
  <2>1. s \in [1 .. n -> Int]
    BY <1>1, <1>2
  <2> HIDE DEF s, n
  <2> QED
    BY <1>1, <2>1, TotalIsInt
<1>4. Gain(log, account, token, id) =
        IF log.token # token \/ ~log.intact THEN 0
        ELSE (IF log.to = account THEN Total(s) ELSE 0) - (IF log.from = account THEN Total(s) ELSE 0)
  BY DEF Gain
<1>5. CASE log.event \notin DOMAIN KindOfTransfer \/ ~log.intact \/ direction = "none"
  <2>1. rows = <<>>
    BY <1>5 DEF DeltasOfLog
  <2>2. log.event \notin DOMAIN KindOfTransfer => Total(s) = 0
    <3> SUFFICES ASSUME log.event \notin DOMAIN KindOfTransfer PROVE Total(s) = 0
      OBVIOUS
    <3>1. n = 0
      BY DEF Moves
    <3> HIDE DEF s, n
    <3>2. \A k \in 1 .. n : s[k] = 0
      BY <3>1
    <3> QED
      BY <1>1, <1>3, <3>2, TotalOfNothing
  <2>3. direction = "none" => log.to # account /\ log.from # account
    BY DEF DirectionFor
  <2> HIDE DEF s, n, rows, direction
  <2>4. Gain(log, account, token, id) = 0
    BY <1>3, <1>4, <1>5, <2>2, <2>3
  <2> QED
    BY <2>1, <2>4, WorthOfNothing DEF rows
<1>6. CASE log.event \in DOMAIN KindOfTransfer /\ log.intact /\ direction # "none"
  <2>1. rows = [i \in DOMAIN log.moved |->
            [kind |-> KindOfTransfer[log.event], token |-> log.token, id |-> log.moved[i].id,
             amount |-> log.moved[i].amount, direction |-> direction]]
    BY <1>6 DEF DeltasOfLog
  <2>2. /\ DOMAIN rows = 1 .. n
        /\ \A i \in 1 .. n : /\ rows[i].token = log.token /\ rows[i].id = log.moved[i].id
                             /\ rows[i].amount = log.moved[i].amount /\ rows[i].direction = direction
    <3> HIDE DEF n, rows, direction
    <3> QED
      BY <1>1, <2>1
  <2>3. \/ direction = "out" /\ log.from = account /\ log.to # account
        \/ direction = "in" /\ log.to = account /\ log.from # account
    BY <1>6 DEF DirectionFor
  <2>4. \A i \in 1 .. n : s[i] = IF log.moved[i].id = id THEN log.moved[i].amount ELSE 0
    BY <1>1
  <2> HIDE DEF s, n, rows, direction
  <2>5. \A i \in 1 .. n : Worth(rows[i], token, id) =
          IF log.token # token THEN 0 ELSE IF direction = "in" THEN s[i] ELSE 0 - s[i]
    BY <1>2, <2>2, <2>4 DEF Worth
  <2>6. \A i \in 1 .. n : Worth(rows[i], token, id) \in Int
    BY <1>3, <2>5
  <2>7. Priced(rows, token, id)
    BY <1>1, <2>2, <2>6 DEF Priced, Range
  <2> DEFINE worths == Worths(rows, token, id)
  <2>8. worths = [i \in 1 .. n |-> Worth(rows[i], token, id)]
    BY <2>2 DEF Worths
  <2>9. worths \in [1 .. n -> Int]
    BY <2>6, <2>8
  <2> HIDE DEF worths
  <2>10. CASE log.token # token
    <3>1. \A i \in 1 .. n : worths[i] = 0
      BY <2>5, <2>8, <2>10
    <3>2. Total(worths) = 0
      BY <1>1, <2>9, <3>1, TotalOfNothing
    <3> QED
      BY <1>4, <2>7, <2>10, <3>2 DEF worths, rows
  <2>11. CASE log.token = token /\ direction = "in"
    <3>1. worths = s
      BY <1>3, <2>5, <2>8, <2>11
    <3>2. Gain(log, account, token, id) = Total(s) - 0
      BY <1>4, <1>6, <2>3, <2>11
    <3> QED
      BY <1>3, <2>7, <3>1, <3>2 DEF worths, rows
  <2>12. CASE log.token = token /\ direction = "out"
    <3>1. \A i \in 1 .. n : worths[i] = 0 - s[i]
      BY <2>5, <2>8, <2>12
    <3>2. Total(worths) = 0 - Total(s)
      BY <1>1, <1>3, <2>9, <3>1, TotalOfLosses
    <3>3. Gain(log, account, token, id) = 0 - Total(s)
      BY <1>4, <1>6, <2>3, <2>12
    <3> QED
      BY <1>3, <2>7, <3>2, <3>3 DEF worths, rows
  <2> QED
    BY <2>3, <2>10, <2>11, <2>12
<1> QED
  BY <1>5, <1>6

(* The payments of native tokens are of no other token.                    *)
LEMMA NativesAreOfNoToken ==
  ASSUME NEW calls, IsList(calls), NEW token, token # NoAddress, NEW id
  PROVE  /\ Priced(NativeDeltas(calls), token, id)
         /\ Total(Worths(NativeDeltas(calls), token, id)) = 0
<1> DEFINE parts == [i \in DOMAIN calls |-> NativeDelta(calls[i])]
           rows == NativeDeltas(calls)
<1>1. IsList(parts)
  <2>1. Len(calls) \in Nat /\ DOMAIN calls = 1 .. Len(calls)
    BY DEF IsList
  <2> QED
    BY <2>1, ListOf
<1>2. ASSUME NEW i \in DOMAIN parts
      PROVE  IsList(parts[i]) /\ \A d \in Range(parts[i]) : d.token = NoAddress
  <2> DEFINE d == [kind |-> "native", token |-> NoAddress, id |-> 0, amount |-> calls[i].value, direction |-> "out"]
  <2>1. parts[i] = <<>> \/ parts[i] = <<d>>
    BY DEF NativeDelta
  <2>2. d.token = NoAddress
    OBVIOUS
  <2> HIDE DEF d, parts
  <2> QED
    BY <2>1, <2>2, OneElement, EmptyList
<1>3. rows = FlattenSeq(parts)
  BY DEF NativeDeltas
<1> HIDE DEF parts, rows
<1>4. IsList(rows) /\ \A d \in Range(rows) : d.token = NoAddress
  BY <1>1, <1>2, <1>3, Flattened
<1>5. \A d \in Range(rows) : Worth(d, token, id) = 0
  BY <1>4 DEF Worth
<1>6. Priced(rows, token, id)
  BY <1>4, <1>5 DEF Priced
<1>7. /\ Len(rows) \in Nat /\ DOMAIN rows = 1 .. Len(rows)
      /\ Worths(rows, token, id) \in [1 .. Len(rows) -> Int]
  BY <1>6, PricedIs
<1>8. \A i \in 1 .. Len(rows) : Worths(rows, token, id)[i] = 0
  BY <1>5, <1>7 DEF Worths, Range
<1>9. Total(Worths(rows, token, id)) = 0
  BY <1>7, <1>8, TotalOfNothing
<1> QED
  BY <1>6, <1>9 DEF rows

-----------------------------------------------------------------------------
(* What a line shows of a gain or a loss.                                  *)

LEMMA RowOfADelta ==
  ASSUME NEW d, NEW token, NEW id
  PROVE  RowGain(DeltaLine(d), token, id) = Worth(d, token, id)
<1> DEFINE line == DeltaLine(d)
           shown == {f \in line.facts : f[1] = "delta" /\ f[2].token = token /\ f[2].id = id}
<1>1. line.facts = {<<"delta", d>>}
  BY DEF DeltaLine, Info, Caution
<1>2. RowGain(line, token, id) =
        IF shown = {} THEN 0
        ELSE IF (CHOOSE f \in shown : TRUE)[2].direction = "in"
             THEN (CHOOSE f \in shown : TRUE)[2].amount ELSE 0 - (CHOOSE f \in shown : TRUE)[2].amount
  BY DEF RowGain
<1>3. CASE d.token = token /\ d.id = id
  <2>1. shown = {<<"delta", d>>}
    BY <1>1, <1>3
  <2> HIDE DEF shown, line
  <2>2. (CHOOSE f \in shown : TRUE) = <<"delta", d>>
    BY <2>1
  <2>3. shown # {} /\ (CHOOSE f \in shown : TRUE)[2] = d
    BY <2>1, <2>2
  <2> QED
    BY <1>2, <1>3, <2>3 DEF Worth, line
<1>4. CASE ~(d.token = token /\ d.id = id)
  <2>1. shown = {}
    BY <1>1, <1>4
  <2> HIDE DEF shown, line
  <2> QED
    BY <1>2, <1>4, <2>1 DEF Worth, line
<1> QED
  BY <1>3, <1>4

LEMMA NoRow ==
  ASSUME NEW line, \A f \in line.facts : f[1] # "delta", NEW token, NEW id
  PROVE  RowGain(line, token, id) = 0
BY DEF RowGain

(* What lines show gained, of one token and identifier.                    *)
Gains(s, token, id) == [i \in DOMAIN s |-> RowGain(s[i], token, id)]

LEMMA NoRows ==
  ASSUME NEW s, Paper(s), NEW token, NEW id
  PROVE  /\ Len(s) \in Nat /\ DOMAIN s = 1 .. Len(s)
         /\ \A i \in 1 .. Len(s) : RowGain(s[i], token, id) = 0
<1>1. Len(s) \in Nat /\ DOMAIN s = 1 .. Len(s)
  BY DEF Paper, IsList
<1>2. \A i \in 1 .. Len(s) : s[i] \in Range(s)
  BY <1>1 DEF Range
<1> QED
  BY <1>1, <1>2, NoRow DEF Paper, Plain

(* Nothing before a list and nothing after it leave its sum as it was.     *)
Nothing(u, n, k) == \A i \in 1 .. k : u[n + i] = 0

LEMMA TotalAfterNothing ==
  ASSUME NEW n \in Nat, NEW k \in Nat, NEW t \in [1 .. k -> Int], NEW u \in [1 .. n + k -> Int],
         Nothing(u, 0, n), \A i \in 1 .. k : u[n + i] = t[i]
  PROVE  Total(u) = Total(t)
<1>1. PICK none \in [1 .. n -> Int] : \A i \in 1 .. n : none[i] = 0
  <2>1. [i \in 1 .. n |-> 0] \in [1 .. n -> Int]
    OBVIOUS
  <2> QED
    BY <2>1
<1>2. Total(none) = 0
  BY <1>1, TotalOfNothing
<1>3. \A i \in 1 .. n : u[i] = none[i]
  <2>1. \A i \in 1 .. n : u[0 + i] = 0
    BY DEF Nothing
  <2> QED
    BY <1>1, <2>1
<1>4. Total(u) = Total(none) + Total(t)
  BY <1>3, TotalOfBoth
<1> QED
  BY <1>2, <1>4, TotalIsInt

LEMMA TotalBeforeNothing ==
  ASSUME NEW n \in Nat, NEW k \in Nat, NEW t \in [1 .. n -> Int], NEW u \in [1 .. n + k -> Int],
         \A i \in 1 .. n : u[i] = t[i], Nothing(u, n, k)
  PROVE  Total(u) = Total(t)
<1>1. PICK none \in [1 .. k -> Int] : \A i \in 1 .. k : none[i] = 0
  <2>1. [i \in 1 .. k |-> 0] \in [1 .. k -> Int]
    OBVIOUS
  <2> QED
    BY <2>1
<1>2. Total(none) = 0
  BY <1>1, TotalOfNothing
<1>3. \A i \in 1 .. k : u[n + i] = none[i]
  BY <1>1 DEF Nothing
<1>4. Total(u) = Total(t) + Total(none)
  BY <1>3, TotalOfBoth
<1> QED
  BY <1>2, <1>4, TotalIsInt

(* A list whose two parts are numbers is one of numbers.                   *)
LEMMA NumbersOfBoth ==
  ASSUME NEW n \in Nat, NEW k \in Nat, NEW f, DOMAIN f = 1 .. n + k, f = [i \in 1 .. n + k |-> f[i]],
         \A i \in 1 .. n : f[i] \in Int, \A i \in 1 .. k : f[n + i] \in Int
  PROVE  f \in [1 .. n + k -> Int]
<1>1. ASSUME NEW i \in 1 .. n + k PROVE f[i] \in Int
  <2>1. i \in 1 .. n \/ (i - n \in 1 .. k /\ n + (i - n) = i)
    OBVIOUS
  <2> QED
    BY <2>1
<1> QED
  BY <1>1

LEMMA ElementsOfBoth ==
  ASSUME NEW S, NEW s \in Seq(S), NEW t \in Seq(S)
  PROVE  /\ s \o t \in Seq(S) /\ Len(s \o t) = Len(s) + Len(t)
         /\ \A i \in 1 .. Len(s) : (s \o t)[i] = s[i]
         /\ \A i \in 1 .. Len(t) : (s \o t)[Len(s) + i] = t[i]
OBVIOUS

(* Rows between other lines: the lines show gained what the rows are       *)
(* worth.                                                                  *)
LEMMA LinesAddUp ==
  ASSUME NEW s, Paper(s), NEW grants, Paper(grants), NEW token, NEW id, NEW deltas, Priced(deltas, token, id)
  PROVE  Total(Gains(s \o ([i \in DOMAIN deltas |-> DeltaLine(deltas[i])] \o grants), token, id))
           = Total(Worths(deltas, token, id))
<1> DEFINE rows == [i \in DOMAIN deltas |-> DeltaLine(deltas[i])]
           n == Len(s)
           k == Len(deltas)
           m == Len(grants)
           lower == rows \o grants
           all == s \o lower
           t == Worths(deltas, token, id)
<1>1. n \in Nat /\ \A i \in 1 .. n : RowGain(s[i], token, id) = 0
  BY NoRows
<1>2. m \in Nat /\ \A i \in 1 .. m : RowGain(grants[i], token, id) = 0
  BY NoRows
<1>3. k \in Nat /\ DOMAIN deltas = 1 .. k /\ t \in [1 .. k -> Int]
  BY PricedIs
<1>4. IsList(rows) /\ Len(rows) = k
  <2>1. DOMAIN rows = 1 .. k /\ rows = [i \in 1 .. k |-> rows[i]]
    BY <1>3
  <2> HIDE DEF rows, k
  <2> QED
    BY <1>3, <2>1, ListOf
<1>5. \A i \in 1 .. k : RowGain(rows[i], token, id) = t[i]
  <2> HIDE DEF k
  <2> QED
    BY <1>3, RowOfADelta DEF Worths
<1> HIDE DEF rows
<1> DEFINE S == Range(rows) \cup Range(grants) \cup Range(s)
<1>6. rows \in Seq(S) /\ grants \in Seq(S) /\ s \in Seq(S)
  BY <1>4 DEF IsList, Paper
<1> HIDE DEF S
<1>7. /\ lower \in Seq(S) /\ Len(lower) = k + m
      /\ \A i \in 1 .. k : lower[i] = rows[i]
      /\ \A i \in 1 .. m : lower[k + i] = grants[i]
  <2> HIDE DEF k, m
  <2>1. /\ rows \o grants \in Seq(S) /\ Len(rows \o grants) = Len(rows) + Len(grants)
        /\ \A i \in 1 .. Len(rows) : (rows \o grants)[i] = rows[i]
        /\ \A i \in 1 .. Len(grants) : (rows \o grants)[Len(rows) + i] = grants[i]
    BY <1>6, ElementsOfBoth
  <2> QED
    BY <1>4, <2>1 DEF m
<1> HIDE DEF lower, k, m
<1>8. /\ all \in Seq(S) /\ Len(all) = n + Len(lower)
      /\ \A i \in 1 .. n : all[i] = s[i]
      /\ \A i \in 1 .. Len(lower) : all[n + i] = lower[i]
  <2>1. s \in Seq(S) /\ lower \in Seq(S)
    BY <1>6, <1>7
  <2> QED
    BY <2>1, ElementsOfBoth
<1> HIDE DEF all, n, t
<1> DEFINE low == Gains(lower, token, id)
           u == Gains(all, token, id)
<1>9. low \in [1 .. k + m -> Int] /\ Total(low) = Total(t)
  <2>1. low = [i \in 1 .. k + m |-> RowGain(lower[i], token, id)]
    BY <1>7 DEF Gains
  <2>2. /\ \A i \in 1 .. k : i \in 1 .. k + m
        /\ \A i \in 1 .. m : k + i \in 1 .. k + m
    BY <1>2, <1>3
  <2> HIDE DEF low
  <2>3. \A i \in 1 .. k : low[i] = t[i]
    BY <1>5, <1>7, <2>1, <2>2
  <2>4. Nothing(low, k, m)
    BY <1>2, <1>7, <2>1, <2>2 DEF Nothing
  <2>5. /\ \A i \in 1 .. k : low[i] \in Int
        /\ \A i \in 1 .. m : low[k + i] \in Int
    BY <1>3, <2>3, <2>4 DEF Nothing
  <2>6. DOMAIN low = 1 .. k + m /\ low = [i \in 1 .. k + m |-> low[i]]
    BY <2>1
  <2>7. low \in [1 .. k + m -> Int]
    BY <1>2, <1>3, <2>5, <2>6, NumbersOfBoth
  <2>8. Total(low) = Total(t)
    BY <1>2, <1>3, <2>3, <2>4, <2>7, TotalBeforeNothing
  <2> QED
    BY <2>7, <2>8
<1>10. Total(u) = Total(low)
  <2> DEFINE j == k + m
  <2>0. j \in Nat /\ Len(lower) = j
    BY <1>2, <1>3, <1>7
  <2>1. u = [i \in 1 .. n + j |-> RowGain(all[i], token, id)]
    BY <1>8, <2>0 DEF Gains
  <2>2. low \in [1 .. j -> Int] /\ low = [i \in 1 .. j |-> RowGain(lower[i], token, id)]
    BY <1>7, <1>9 DEF Gains
  <2> HIDE DEF low, u, j
  <2>3. /\ \A i \in 1 .. n : i \in 1 .. n + j
        /\ \A i \in 1 .. j : n + i \in 1 .. n + j
    BY <1>1, <2>0
  <2>4. Nothing(u, 0, n)
    BY <1>1, <1>8, <2>1, <2>3 DEF Nothing
  <2>5. \A i \in 1 .. j : u[n + i] = low[i]
    BY <1>8, <2>0, <2>1, <2>2, <2>3
  <2>6. /\ \A i \in 1 .. n : u[i] \in Int
        /\ \A i \in 1 .. j : u[n + i] \in Int
    BY <2>2, <2>4, <2>5 DEF Nothing
  <2>7. DOMAIN u = 1 .. n + j /\ u = [i \in 1 .. n + j |-> u[i]]
    BY <2>1
  <2>8. u \in [1 .. n + j -> Int]
    BY <1>1, <2>0, <2>6, <2>7, NumbersOfBoth
  <2>9. n \in Nat /\ j \in Nat /\ low \in [1 .. j -> Int]
    BY <1>1, <2>0, <2>2
  <2> QED
    BY <2>4, <2>5, <2>8, <2>9, TotalAfterNothing, SMTT(60)
<1> QED
  BY <1>9, <1>10 DEF all, lower, rows, t

(* What rows the simulation of a run has, of one token.                    *)
LEMMA RunAddsUp ==
  ASSUME SignRequest(request), NEW o, Answers(o), o.status = "answered", ~o.failed,
         \A i \in DOMAIN o.logs : o.logs[i].from # o.logs[i].to,
         NEW token, token # NoAddress, NEW id
  PROVE  LET payload == SimulationPayloadFor(request)  deltas == SimulateRequest(payload, o).deltas
         IN /\ Priced(deltas, token, id)
            /\ Total(Worths(deltas, token, id))
                 = Total([i \in DOMAIN o.logs |-> Gain(o.logs[i], payload.account, token, id)])
<1> DEFINE payload == SimulationPayloadFor(request)
           account == payload.account
           n == Len(o.logs)
           moved == [i \in DOMAIN o.logs |-> DeltasOfLog(o.logs[i], account)]
           natives == NativeDeltas(payload.calls)
           gains == [i \in DOMAIN o.logs |-> Gain(o.logs[i], account, token, id)]
<1>1. SimulateRequest(payload, o).deltas = natives \o FlattenSeq(moved)
  <2> HIDE DEF payload
  <2> QED
    BY DEF SimulateRequest
<1>2. Priced(natives, token, id) /\ Total(Worths(natives, token, id)) = 0
  BY PayloadIsOfLists, NativesAreOfNoToken
<1> HIDE DEF payload, account, natives
<1>3. n \in Nat /\ DOMAIN o.logs = 1 .. n
  BY DEF Answers, IsList
<1>4. \A i \in DOMAIN o.logs : Moves(o.logs[i])
  BY DEF Answers, Range
<1>5. \A i \in DOMAIN o.logs :
        /\ Priced(moved[i], token, id)
        /\ Total(Worths(moved[i], token, id)) = gains[i]
        /\ gains[i] \in Int
  BY <1>4, LogAddsUp
<1>6. IsList(moved) /\ DOMAIN moved = DOMAIN o.logs
  <2> HIDE DEF n
  <2>1. DOMAIN moved = 1 .. n /\ moved = [i \in 1 .. n |-> moved[i]]
    BY <1>3
  <2> HIDE DEF moved
  <2> QED
    BY <1>3, <2>1, ListOf
<1>7. gains = [i \in DOMAIN o.logs |-> gains[i]]
  OBVIOUS
<1> HIDE DEF moved, n, gains
<1>8. /\ Priced(FlattenSeq(moved), token, id)
      /\ Total(Worths(FlattenSeq(moved), token, id))
           = Total([i \in DOMAIN moved |-> Total(Worths(moved[i], token, id))])
  BY <1>5, <1>6, WorthOfAll
<1>9. [i \in DOMAIN moved |-> Total(Worths(moved[i], token, id))] = gains
  BY <1>5, <1>6, <1>7
<1>10. /\ Priced(natives \o FlattenSeq(moved), token, id)
       /\ Total(Worths(natives \o FlattenSeq(moved), token, id))
            = Total(Worths(natives, token, id)) + Total(Worths(FlattenSeq(moved), token, id))
  BY <1>2, <1>8, WorthOfBoth
<1>11. Total(gains) \in Int
  <2>1. gains \in [1 .. n -> Int]
    BY <1>3, <1>5, <1>7
  <2> QED
    BY <1>3, <2>1, TotalIsInt
<1>12. Total(Worths(natives \o FlattenSeq(moved), token, id)) = Total(gains)
  BY <1>2, <1>8, <1>9, <1>10, <1>11
<1> QED
  BY <1>1, <1>10, <1>12 DEF payload, gains, account

(* The approvals of a run are not rows of it.                              *)
LEMMA GrantsAreNoRows ==
  ASSUME SignRequest(request), NEW o, Answers(o), o.status = "answered", ~o.failed
  PROVE  LET grants == SimulateRequest(SimulationPayloadFor(request), o).approvals
         IN Paper([i \in DOMAIN grants |-> GrantLine(grants[i])])
<1> DEFINE granted == [i \in DOMAIN o.logs |-> ApprovalsOfLog(o.logs[i])]
           grants == SimulateRequest(SimulationPayloadFor(request), o).approvals
           rows == [i \in DOMAIN grants |-> GrantLine(grants[i])]
<1>1. grants = FlattenSeq(granted)
  BY DEF SimulateRequest
<1>2. IsList(granted) /\ \A i \in DOMAIN granted : IsList(granted[i])
  <2>1. Len(o.logs) \in Nat /\ DOMAIN o.logs = 1 .. Len(o.logs)
    BY DEF Answers, IsList
  <2>2. \A i \in DOMAIN o.logs : IsList(o.logs[i].moved)
    BY DEF Answers, Moves, Range
  <2>3. \A i \in DOMAIN granted : IsList(granted[i])
    BY <2>2, RowsOfALog
  <2>4. IsList(granted)
    BY <2>1, ListOf
  <2> QED
    BY <2>3, <2>4
<1> HIDE DEF granted
<1>3. IsList(grants)
  BY <1>1, <1>2, Flattened
<1> HIDE DEF grants
<1>4. \A i \in DOMAIN grants : Plain(rows[i])
  <2>1. \A grant : LET facts == {<<"granted", grant.token, grant.spender>>}
                   IN GrantLine(grant) = Danger(facts) \/ GrantLine(grant) = Info(facts)
    BY DEF GrantLine
  <2>2. \A token, spender : /\ Plain(Info({<<"granted", token, spender>>}))
                            /\ Plain(Danger({<<"granted", token, spender>>}))
    BY LineFor
  <2>3. ASSUME NEW grant PROVE Plain(GrantLine(grant))
    <3> DEFINE facts == {<<"granted", grant.token, grant.spender>>}
    <3>1. GrantLine(grant) = Danger(facts) \/ GrantLine(grant) = Info(facts)
      BY <2>1
    <3>2. Plain(Info(facts)) /\ Plain(Danger(facts))
      BY <2>2
    <3> HIDE DEF facts
    <3> QED
      BY <3>1, <3>2
  <2> QED
    BY <2>3
<1>5. Paper(rows)
  BY <1>3, <1>4, LinesOver
<1> QED
  BY <1>5 DEF rows, grants

-----------------------------------------------------------------------------
(* RowsAddUp, of a request, an outcome and the lines of the screen.        *)
AddUp(r, o, s) ==
  LET account == SimulationPayloadFor(r).account
  IN (\A i \in DOMAIN o.logs : o.logs[i].from # o.logs[i].to) =>
       \A i \in DOMAIN o.logs : \A k \in DOMAIN o.logs[i].moved :
         LET token == o.logs[i].token  id == o.logs[i].moved[k].id
         IN token # NoAddress =>
              Total([n \in DOMAIN s |-> RowGain(s[n], token, id)])
                = Total([n \in DOMAIN o.logs |-> Gain(o.logs[n], account, token, id)])

LEMMA RowsAreOfThePage ==
  /\ RowsAddUp <=> (stage \notin {"closed", "decode"} => AddUp(request, outcome, lines))
  /\ RowsAddUp' <=> (stage' \notin {"closed", "decode"} => AddUp(request', outcome', lines'))
BY DEF RowsAddUp, AddUp

(* The page has no logs until it is simulated, and only lines of the       *)
(* request.                                                                *)
IRows ==
  /\ stage \in {"closed", "decode", "simulate"} => outcome.logs = <<>>
  /\ stage = "simulate" => Paper(lines)
  /\ RowsAddUp

LEMMA NoLogsAddUp ==
  ASSUME outcome.logs = <<>>
  PROVE  RowsAddUp
<1>1. DOMAIN outcome.logs = {}
  OBVIOUS
<1> QED
  BY <1>1 DEF RowsAddUp

LEMMA RowsStart == DelegatedInit => IRows
<1> SUFFICES ASSUME DelegatedInit PROVE IRows
  OBVIOUS
<1>1. outcome.logs = <<>> /\ stage = "closed"
  BY DEF DelegatedInit, NoOutcome
<1> QED
  BY <1>1, NoLogsAddUp DEF IRows

LEMMA DecodeKeepsRows ==
  ASSUME IPage, IRows, Decode
  PROVE  IRows'
<1>1. outcome' = outcome /\ outcome.logs = <<>> /\ stage = "decode"
  BY DEF Decode, IRows
<1>2. RowsAddUp'
  <2>1. outcome.logs' = <<>>
    BY <1>1
  <2>2. DOMAIN outcome.logs' = {}
    BY <2>1
  <2> QED
    BY <2>2 DEF RowsAddUp
<1>3. stage' = "simulate" => Paper(lines')
  <2> SUFFICES ASSUME stage' = "simulate" PROVE Paper(lines')
    OBVIOUS
  <2>1. DecodeSignConsent(request) # Undecodable /\ lines' = FormatConsentDisplay(DecodeSignConsent(request))
    BY DEF Decode
  <2>2. SignRequest(request)
    BY <1>1 DEF IPage, IScreen, ScreenInv
  <2> QED
    BY <2>1, <2>2, DecodedScreen
<1> QED
  BY <1>1, <1>2, <1>3 DEF IRows

LEMMA SimulateKeepsRows ==
  ASSUME IPage, IRows, Simulate
  PROVE  IRows'
<1> DEFINE payload == SimulationPayloadFor(request)
<1>1. request' = request /\ stage = "simulate" /\ stage' = "consent"
  BY DEF Simulate
<1>2. PICK o \in Outcomes(payload) \cup {NoOutcome} :
        outcome' = o /\ lines' = lines \o SimulationDisplayLines(SimulateRequest(payload, o))
  BY DEF Simulate
<1>3. SignRequest(request) /\ Paper(lines)
  BY <1>1 DEF IPage, IScreen, ScreenInv, IRows
<1>4. Answers(o) /\ (o.logs # <<>> => o.status = "answered" /\ ~o.failed)
  <2>1. o.logs # <<>> => o.status = "answered" /\ ~o.failed
    <3> DEFINE logs(other) == FlattenSeq([i \in DOMAIN Executed(payload) |->
                                            LogsOf(Executed(payload)[i], payload.account, other)])
    <3>1. Outcomes(payload) = {NoOutcome, [status |-> "answered", failed |-> TRUE, logs |-> <<>>]} \cup
            {[status |-> "answered", failed |-> FALSE, logs |-> logs(other)] : other \in OtherLogs}
      BY DEF Outcomes
    <3> HIDE DEF logs, payload
    <3> QED
      BY <3>1 DEF NoOutcome
  <2> QED
    BY <1>3, <2>1, OutcomesAreAnswers
<1>5. ASSUME \A i \in DOMAIN o.logs : o.logs[i].from # o.logs[i].to, NEW token, token # NoAddress, NEW id,
             o.logs # <<>>
      PROVE  Total(Gains(lines', token, id))
               = Total([n \in DOMAIN o.logs |-> Gain(o.logs[n], payload.account, token, id)])
  <2> DEFINE result == SimulateRequest(payload, o)
             rows == [i \in DOMAIN result.deltas |-> DeltaLine(result.deltas[i])]
             grants == [i \in DOMAIN result.approvals |-> GrantLine(result.approvals[i])]
  <2>1. o.status = "answered" /\ ~o.failed
    BY <1>4, <1>5
  <2>2. SimulationDisplayLines(result) = rows \o grants
    <3>1. result.status = "simulated"
      BY <2>1 DEF SimulateRequest
    <3> HIDE DEF result
    <3> QED
      BY <3>1 DEF SimulationDisplayLines
  <2>3. /\ Priced(result.deltas, token, id)
        /\ Total(Worths(result.deltas, token, id))
             = Total([i \in DOMAIN o.logs |-> Gain(o.logs[i], payload.account, token, id)])
    BY <1>3, <1>4, <1>5, <2>1, RunAddsUp
  <2>4. Paper(grants)
    BY <1>3, <1>4, <2>1, GrantsAreNoRows
  <2> HIDE DEF result, grants
  <2>5. Total(Gains(lines \o (rows \o grants), token, id)) = Total(Worths(result.deltas, token, id))
    BY <1>3, <2>3, <2>4, LinesAddUp
  <2>6. lines' = lines \o (rows \o grants)
    BY <1>2, <2>2 DEF result
  <2> QED
    BY <2>3, <2>5, <2>6
<1>6. AddUp(request, o, lines')
  <2> SUFFICES ASSUME \A i \in DOMAIN o.logs : o.logs[i].from # o.logs[i].to,
                      NEW i \in DOMAIN o.logs, NEW k \in DOMAIN o.logs[i].moved,
                      o.logs[i].token # NoAddress
               PROVE  Total([n \in DOMAIN lines' |-> RowGain(lines'[n], o.logs[i].token, o.logs[i].moved[k].id)])
                        = Total([n \in DOMAIN o.logs |->
                                   Gain(o.logs[n], payload.account, o.logs[i].token, o.logs[i].moved[k].id)])
    BY DEF AddUp
  <2>1. o.logs # <<>>
    OBVIOUS
  <2>2. \A token, id : Gains(lines', token, id) = [n \in DOMAIN lines' |-> RowGain(lines'[n], token, id)]
    BY DEF Gains
  <2>3. Total(Gains(lines', o.logs[i].token, o.logs[i].moved[k].id))
          = Total([n \in DOMAIN o.logs |->
                     Gain(o.logs[n], payload.account, o.logs[i].token, o.logs[i].moved[k].id)])
    BY <1>5, <2>1
  <2> QED
    BY <2>2, <2>3
<1>7. RowsAddUp'
  BY <1>1, <1>2, <1>6, RowsAreOfThePage
<1> QED
  BY <1>1, <1>7 DEF IRows

LEMMA RowsStay ==
  ASSUME IRows, UNCHANGED <<request, outcome, lines>>,
         stage' \in {"closed", "decode", "simulate"} => stage' = stage,
         stage \in {"closed", "decode"} => stage' = stage
  PROVE  IRows'
<1>1. RowsAddUp'
  <2>1. stage' \notin {"closed", "decode"} => AddUp(request', outcome', lines')
    BY RowsAreOfThePage DEF IRows
  <2> QED
    BY <2>1, RowsAreOfThePage
<1> QED
  BY <1>1 DEF IRows

LEMMA RowsNext ==
  ASSUME IPage, IRows, [DelegatedNext]_sendVars
  PROVE  IRows'
<1>1. CASE OpenOfApp \/ OpenOfSend
  <2>1. stage' = "decode" /\ outcome' = outcome /\ outcome.logs = <<>>
    BY <1>1 DEF OpenOfApp, OpenOfSend, Open, IRows
  <2> QED
    BY <2>1 DEF IRows, RowsAddUp
<1>2. CASE UNCHANGED vars
  BY <1>2, RowsStay DEF vars, pageVars
<1>3. CASE Decode
  BY <1>3, DecodeKeepsRows
<1>4. CASE Simulate
  BY <1>4, SimulateKeepsRows
<1>5. CASE Reject
  BY <1>5, RowsStay DEF Reject, pageVars
<1>6. CASE Approve
  BY <1>6, RowsStay DEF Approve, pageVars
<1>7. CASE DiscoverFails
  BY <1>7, RowsStay, FailedGesture DEF DiscoverFails, IPage, IScreen
<1>8. CASE Derive
  <2>1. /\ stage = "derive" /\ UNCHANGED <<request, outcome>>
        /\ FailGesture(FALSE) \/ (stage' = "sign" /\ UNCHANGED lines)
    BY <1>8 DEF Derive
  <2>2. lines' = lines /\ stage' \in {"assert", "consent", "sign"}
    BY <2>1, FailedGesture DEF IPage, IScreen
  <2> QED
    BY <2>1, <2>2, RowsStay
<1>9. CASE PerformSign
  <2>1. /\ stage = "sign" /\ UNCHANGED <<request, outcome>>
        /\ FailGesture(FALSE) \/ (stage' = "answered" /\ UNCHANGED lines)
    BY <1>9 DEF PerformSign
  <2>2. lines' = lines /\ stage' \in {"assert", "consent", "answered"}
    BY <2>1, FailedGesture DEF IPage, IScreen
  <2> QED
    BY <2>1, <2>2, RowsStay
<1>10. CASE \E c \in Credentials : Discover(c)
  BY <1>10, RowsStay DEF Discover, pageVars
<1> QED
  BY <1>1, <1>2, <1>3, <1>4, <1>5, <1>6, <1>7, <1>8, <1>9, <1>10
     DEF DelegatedNext, PageStep, Next, sendVars, ReleaseStep, Delegate

(* simulate.ts, consent-display.ts: the rows below a request add up to     *)
(* what the wallet gains and loses in the run, whatever calls it makes and *)
(* whatever they leave in the logs.                                        *)
THEOREM RowsAreTrue == DelegatedSpec => []RowsAddUp
<1>1. DelegatedInit => IPage /\ IRows
  BY PageStart, RowsStart
<1>2. (IPage /\ IRows) /\ [DelegatedNext]_sendVars => (IPage /\ IRows)'
  BY PageNext, RowsNext
<1>3. IPage /\ IRows => RowsAddUp
  BY DEF IRows
<1> QED
  BY <1>1, <1>2, <1>3, PTL DEF DelegatedSpec
=============================================================================
