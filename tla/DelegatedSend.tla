---------------------------- MODULE DelegatedSend ----------------------------
(***************************************************************************)
(* From the registry of chains to the signature on a delegation: the       *)
(* maintainers deploy and publish (Deployment), an app of the published    *)
(* package assembles a send (core/src/client/resolve.ts), and the page of  *)
(* the vault shows and signs it (SigningPage).                             *)
(***************************************************************************)
EXTENDS SigningPageSafety, Deployment

CONSTANTS
  Wallet,      \* the wallet of the send
  SendChains,  \* the chains it sends on, by the names an app gives them
  UserCalls    \* the calls of the send

VARIABLES
  walletCode, \* the version the wallet delegates to on each chain, or "none"
  opener      \* who opened the page: an "app" with a request of its own, a "send", or "nobody"

sendVars == <<vars, deployVars, walletCode, opener>>

NoRequest == [op |-> "none"]

(* What getCode finds at an address: an account of a version, or whatever  *)
(* else is at an address somebody typed.                                   *)
HasCode(c, address) == <<address, "AvokCalibur">> \in code[c] \/ <<c, address>> \in Elsewhere

(* No page is open.  The wallet may delegate to what is on its chain.      *)
DelegatedInit ==
  /\ DeployInit
  /\ walletCode \in [CHAIN_PROFILES -> {"none", Address(1)}]
  /\ \A c \in CHAIN_PROFILES : walletCode[c] # "none" =>
       HasCode(c, walletCode[c]) /\ \E name \in SendChains : CHAIN_NAME_TO_ID[name] = c
  /\ request = NoRequest /\ stage = "closed"
  /\ outcome = NoOutcome /\ lines = <<>> /\ rejectOnly = FALSE
  /\ asked = "any" /\ holder = Connected /\ secrets = {} /\ answer = NoAnswer
  /\ opener = "nobody"

(* The page is opened with a request. *)
Open(who, r) ==
  /\ stage = "closed" /\ stage' = "decode" /\ request' = r /\ opener' = who
  /\ UNCHANGED <<outcome, lines, rejectOnly, gestureVars, answer, deployVars, walletCode>>

(* Bound: a page with a request of an app's own shares no state with a     *)
(* release: it is opened before there is one, and not interleaved with it. *)
NothingReleased ==
  /\ DeployInit
  /\ \A c \in CHAIN_PROFILES : code[c] = {} /\ artifact[c] = NoFile /\ slots[c] = Pending

OpenOfApp == stage = "closed" /\ NothingReleased /\ \E r \in Requests : Open("app", r)

-----------------------------------------------------------------------------
(* resolveChainByName, for the names in the configuration of an app, and   *)
(* getChainProfile of the published registry.                              *)
ResolveChainByName(name) == CHAIN_NAME_TO_ID[name]

ASSUME SendChainsAssumption ==
  /\ \A name \in SendChains : ResolveChainByName(name) \in CHAIN_PROFILES
  /\ \A calls \in UserCalls : IsList(calls) /\ \A call \in Range(calls) : Amounts(call.data)

(* Mutant: an address that is set is taken to be deployed. *)
ResolvesUnread(c) ==
  walletCode[c] # published[c] => published[c] # Pending

(* leanResolve: a wallet that does not delegate to the implementation of   *)
(* the registry is to sign an authorization, if the implementation is set  *)
(* and has code on the chain; else the send throws.  It asks for no code   *)
(* of the guardian logic the implementation calls into.                    *)
Resolves(c) ==
  walletCode[c] # published[c] => published[c] # Pending /\ HasCode(c, published[c])

AuthorizationOf(c) == IF walletCode[c] = published[c] THEN NoAddress ELSE published[c]

SendRequest(rail, c, calls) ==
  LET batch == [fn |-> "execute", calls |-> calls]
  IN IF rail = "native-gas"
     THEN [op |-> "signSend", from |-> Wallet, address |-> AuthorizationOf(c), contractAddress |-> NoAddress,
           tx |-> [to |-> Wallet, value |-> 0, data |-> batch, chain |-> c, gas |-> 1, maxFeePerGas |-> 1]]
     ELSE [op |-> "signUserOp", sender |-> Wallet, chain |-> c, data |-> batch,
           address |-> AuthorizationOf(c), contractAddress |-> NoAddress]

OpenOfSend ==
  stage = "closed" /\ \E name \in SendChains, rail \in {"native-gas", "sponsored"}, calls \in UserCalls :
    LET c == ResolveChainByName(name)
    IN Resolves(c) /\ Open("send", SendRequest(rail, c, calls))

(* The chain takes the authorization of a signature by the wallet's key.   *)
ChainOf(r) == IF r.op = "signSend" THEN r.tx.chain ELSE r.chain

Delegate ==
  /\ answer.kind = "signature" /\ opener = "send" /\ answer.authorization /\ answer.by = Wallet
  /\ walletCode[ChainOf(request)] # request.address
  /\ walletCode' = [walletCode EXCEPT ![ChainOf(request)] = request.address]
  /\ UNCHANGED <<vars, deployVars, opener>>

-----------------------------------------------------------------------------
PageStep == Next /\ UNCHANGED <<deployVars, walletCode, opener>>
ReleaseStep == opener # "app" /\ DeployNext /\ UNCHANGED <<vars, walletCode, opener>>

DelegatedNext == OpenOfApp \/ OpenOfSend \/ PageStep \/ ReleaseStep \/ Delegate

DelegatedSpec == DelegatedInit /\ [][DelegatedNext]_sendVars

-----------------------------------------------------------------------------
(***************************************************************************)
(* What the way from a deploy to a signed delegation promises: a wallet is *)
(* never made to delegate to an address without code on its chain, though  *)
(* the registry names one address for all of them.                         *)
(***************************************************************************)

(* Type invariant of the release side. *)
DelegationTypeOK ==
  /\ source \in DOMAIN Versions /\ golden \in DOMAIN Versions /\ deploys \in 0 .. MaxDeploys
  /\ \A c \in CHAIN_PROFILES :
       /\ {slots[c], published[c]} \subseteq {Pending, Address(1), Address(2)} \cup Typed
       /\ artifact[c] \in {NoFile, Address(1), Address(2)}
       /\ walletCode[c] \in {"none", Address(1), Address(2)} \cup Typed
       /\ code[c] \subseteq PairOf(Address(1)) \cup PairOf(Address(2))
  /\ cli.at \in {"idle", "forge", "confirm", "artifact", "write"}

(* resolve.ts:56: a wallet that signs an authorization in a send, and one  *)
(* that delegates, does so to an address that has code on that chain,      *)
(* whatever the registry names for chains nothing was deployed on,         *)
(* whatever failed of a deploy, and however old the app's package is.  Of  *)
(* a version of the contracts it is the account, whose guardian logic may  *)
(* be missing; of an address that was typed it is what is there.           *)
DelegatesToCode ==
  /\ answer.kind = "signature" /\ opener = "send" /\ answer.authorization =>
       HasCode(ChainOf(request), request.address)
  /\ \A c \in CHAIN_PROFILES : walletCode[c] # "none" => HasCode(c, walletCode[c])

(* The registry names one implementation, or none, for all its chains,     *)
(* also when a chain is added between two versions and when a run is       *)
(* forced: wallets have the same address and code everywhere.              *)
OneDelegateForEveryChain == Cardinality({slots[c] : c \in CHAIN_PROFILES} \ {Pending}) <= 1

(* What every release, and every send after it, keeps.                     *)
DelegationInv ==
  /\ DelegationTypeOK
  /\ OneDelegateForEveryChain
  /\ DelegatesToCode

(* deploy-canonical changes the registry only once both contracts of what  *)
(* it writes have code on the chain that was named: a broadcast that       *)
(* failed half way leaves its file behind, but not its address.  An endpoint of another chain     *)
(* than the one named is not noticed by the script.                        *)
WrittenAfterTheDeploy ==
  [][WriteRegistry /\ slots' # slots /\ cli.rpc = cli.chain => PairOf(cli.golden) \subseteq code[cli.chain]]_sendVars
=============================================================================
