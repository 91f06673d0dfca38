----------------------------- MODULE Deployment ------------------------------
(***************************************************************************)
(* The address wallets delegate to: deployed on a chain by deploy-         *)
(* canonical.mjs and DeployCanonical.s.sol, written into the registry of   *)
(* chains by write-canonical-address.mjs, shipped to apps with the         *)
(* registry (contracts/src-ts/registry.ts).                                *)
(*                                                                         *)
(* CREATE2 makes an address a function of the bytecode: a version of the   *)
(* contracts stands for its bytecode and for the addresses of its pair,    *)
(* GuardianLogic and the AvokCalibur that calls into it.  The factory is   *)
(* open to everybody, and nothing ties the two deploys of a pair together. *)
(***************************************************************************)
EXTENDS Naturals, FiniteSets, TLC

CONSTANTS
  Versions,     \* the versions of the contracts, the oldest first
  Runs,         \* the command lines deploy-canonical is called with
  Added,        \* the chains whose profile was added, with the placeholder, since it was last written
  Reached,      \* bound: the chains on which the contracts come to be deployed
  Typed,        \* the addresses a maintainer may type
  Elsewhere,    \* the chains where such an address has code of something else: pairs of a chain and an address
  MaxDeploys    \* bound on the runs of the deploy script

(* CHAIN_IDS: the chains the script can deploy to.                         *)
CHAIN_IDS ==
  "ethereum" :> 1 @@ "optimism" :> 10 @@ "bsc" :> 56 @@ "base" :> 8453 @@ "arbitrum" :> 42161 @@
  "arc" :> 5042002 @@ "sepolia" :> 11155111 @@ "base-sepolia" :> 84532

(* CHAIN_NAME_TO_ID: the names the registry knows its chains by.           *)
CHAIN_NAME_TO_ID ==
  "ethereum" :> 1 @@ "optimism" :> 10 @@ "base" :> 8453 @@ "arbitrum" :> 42161 @@ "bsc" :> 56 @@
  "robinhood" :> 4663 @@ "arc-testnet" :> 5042002 @@ "sepolia" :> 11155111 @@ "base-sepolia" :> 84532

(* CHAIN_PROFILES: the chains of the registry.                             *)
CHAIN_PROFILES == {10, 1, 42161, 56, 8453, 4663, 5042002, 84532, 11155111}

Pending == "PENDING"
NoFile == "no file"

(* applyWriteback refuses the zero address, which the placeholder is.      *)
ASSUME DeploymentAssumption ==
  /\ MaxDeploys \in Nat /\ DOMAIN Versions = 1 .. 2
  /\ \A run \in Runs : run.rpc \in CHAIN_PROFILES
  /\ Reached \subseteq CHAIN_PROFILES /\ Pending \notin Typed

Contracts == {"GuardianLogic", "AvokCalibur"}

VARIABLES
  source,    \* the version of the contracts in the working tree
  golden,    \* the version whose address GOLDEN is
  slots,     \* canonicalImplementation of each chain in the registry file
  artifact,  \* the AvokCalibur named by run-latest.json of each chain
  code,      \* the contracts that have code, on each chain
  cli,       \* the run of deploy-canonical
  deploys,   \* how many runs reached forge
  published  \* the registry in the package apps have installed

treeVars == <<source, golden>>
chainSide == <<artifact, code>>
deployVars == <<treeVars, slots, chainSide, cli, deploys, published>>

Idle == [at |-> "idle"]
Address(n) == Versions[n]
PairOf(v) == {<<v, c>> : c \in Contracts}

(* The chains a run may be called for by name.                             *)
Named == {CHAIN_IDS[name] : name \in {run.chain : run \in Runs} \cap DOMAIN CHAIN_IDS}

(* Earlier runs may have deployed the first version, or a half of it, left *)
(* their files and written the registry; a chain is added to the registry  *)
(* with the placeholder.                                                   *)
DeployInit ==
  /\ source = 1 /\ golden = 1
  /\ \E before \in {Pending, Address(1)} :
       slots = [c \in CHAIN_PROFILES |-> IF c \in Added THEN Pending ELSE before]
  /\ \E made \in [Reached -> SUBSET PairOf(Address(1))] :
       code = [c \in CHAIN_PROFILES |-> IF c \in Reached THEN made[c] ELSE {}]
  /\ \E left \in SUBSET Named :
       artifact = [c \in CHAIN_PROFILES |-> IF c \in left THEN Address(1) ELSE NoFile]
  /\ cli = Idle /\ deploys = 0 /\ published = slots

-----------------------------------------------------------------------------
(* The maintainers.                                                        *)

(* The contracts change, and GOLDEN is brought up to date by hand.         *)
ChangeContracts ==
  /\ source < 2 /\ source' = source + 1
  /\ UNCHANGED <<golden, slots, chainSide, cli, deploys, published>>

UpdateGolden ==
  /\ cli = Idle /\ golden # source /\ golden' = source
  /\ UNCHANGED <<source, slots, chainSide, cli, deploys, published>>

Publish ==
  /\ published # slots /\ published' = slots
  /\ UNCHANGED <<treeVars, slots, chainSide, cli, deploys>>

-----------------------------------------------------------------------------
(* write-canonical-address.                                                *)

OtherSet(address) == {c \in CHAIN_PROFILES : slots[c] \notin {Pending, address}}

(* applyWriteback sets every slot at once, and refuses to change one that  *)
(* is set to another address unless it is forced to.                       *)
ApplyWriteback(address, force) ==
  /\ OtherSet(address) = {} \/ force
  /\ slots' = [c \in CHAIN_PROFILES |-> address]

(* The tool on its own, with an address that is typed, or that of a file   *)
(* of a broadcast, whatever became of that broadcast.                      *)
WriteCanonicalAddress ==
  /\ \E address \in (Typed \cup {artifact[c] : c \in CHAIN_PROFILES}) \ {NoFile}, force \in BOOLEAN :
       ApplyWriteback(address, force) /\ slots' # slots
  /\ UNCHANGED <<treeVars, chainSide, cli, deploys, published>>

-----------------------------------------------------------------------------
(* deploy-canonical: the arguments, forge, the artifact, the registry.     *)

(* parseArgs, resolveChainId and resolveKeySource: a run without a known   *)
(* chain, an endpoint or a key ends before forge is started; a key that    *)
(* is typed for the name of an account is no key.                          *)
KeySource(run) ==
  CASE run.account = "name" -> "account"
    [] run.account = "none" /\ run.envKey -> "privateKey"
    [] OTHER -> "none"

Accepts(run) == run.chain \in DOMAIN CHAIN_IDS /\ KeySource(run) # "none"

RunDeploy(run) ==
  /\ cli = Idle /\ deploys < MaxDeploys /\ Accepts(run)
  /\ cli' = [at |-> "forge", chain |-> CHAIN_IDS[run.chain], rpc |-> run.rpc,
             broadcast |-> ~run.dryRun, force |-> run.force, golden |-> Address(golden), version |-> NoFile]
  /\ deploys' = deploys + 1
  /\ UNCHANGED <<treeVars, slots, chainSide, published>>

CliGoes(at) == cli' = IF at = "idle" THEN Idle ELSE [cli EXCEPT !.at = at]
OutsideForge == UNCHANGED <<treeVars, slots, deploys, published>>

(* forge builds the working tree and runs the script against the chain of  *)
(* the endpoint, whichever chain was named.  It fails if one of the two    *)
(* addresses has code; a dry run ends here.  The file is written with the  *)
(* transactions that are about to be sent.                                 *)
ForgeScript ==
  /\ cli.at = "forge"
  /\ IF cli.broadcast /\ PairOf(Address(source)) \cap code[cli.rpc] = {}
     THEN /\ artifact' = [artifact EXCEPT ![cli.rpc] = Address(source)]
          /\ cli' = [cli EXCEPT !.at = "confirm", !.version = Address(source)]
     ELSE CliGoes("idle") /\ UNCHANGED artifact
  /\ UNCHANGED code /\ OutsideForge

(* The factory makes a contract of a version: of what forge sent, while it *)
(* waits or after it gave up, or of what somebody else sends.  Each of the *)
(* two may fail and the other not, and either may come first.              *)
MineDeploy ==
  /\ \E c \in Reached, n \in 1 .. source : \E what \in PairOf(Address(n)) \ code[c] :
       code' = [code EXCEPT ![c] = @ \cup {what}]
  /\ UNCHANGED <<artifact, cli>> /\ OutsideForge

(* Mutant: the exit status of forge is not looked at. *)
AnyStatus == TRUE

(* forge exits with 0 once both of its transactions have a receipt that    *)
(* reports success.                                                        *)
Confirmed == PairOf(cli.version) \subseteq code[cli.rpc]

ForgeSucceeds ==
  /\ cli.at = "confirm" /\ Confirmed
  /\ CliGoes("artifact")
  /\ UNCHANGED chainSide /\ OutsideForge

(* A failure of forge, or of the machine, ends the run wherever it is.     *)
DeployDies ==
  /\ cli.at # "idle" /\ CliGoes("idle")
  /\ UNCHANGED chainSide /\ OutsideForge

(* The file of the chain that was named is read, and its address must be   *)
(* the golden one; then the registry is written.                           *)
ReadArtifact ==
  /\ cli.at = "artifact"
  /\ CliGoes(IF artifact[cli.chain] = cli.golden THEN "write" ELSE "idle")
  /\ UNCHANGED chainSide /\ OutsideForge

WriteRegistry ==
  /\ cli.at = "write"
  /\ IF OtherSet(cli.golden) = {} \/ cli.force THEN ApplyWriteback(cli.golden, cli.force) ELSE UNCHANGED slots
  /\ CliGoes("idle")
  /\ UNCHANGED <<treeVars, chainSide, deploys, published>>

DeployNext ==
  \/ ChangeContracts \/ UpdateGolden \/ Publish \/ WriteCanonicalAddress
  \/ ForgeScript \/ MineDeploy \/ ForgeSucceeds \/ DeployDies \/ ReadArtifact \/ WriteRegistry
  \/ \E run \in Runs : RunDeploy(run)
=============================================================================
