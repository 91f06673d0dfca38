# Avok in TLA+

A verification project for [avok.js](../src/README.md): wallets whose keys are passkeys, whose
accounts are EIP-7702 delegations to `AvokCalibur`, and which guardians can recover. The modules
here are translated from the Solidity, TypeScript and JavaScript sources; `PROJECT.json` maps every
definition to the lines it stands for, and lists the hazards the properties are for.

## The system

| Part | State it keeps | Operations | What makes it hard |
|---|---|---|---|
| `GuardianLogic.sol`, run by delegatecall in a wallet (`AvokCalibur.sol`) | guardians (array and mapping), threshold, delays, pending operations, pending recovery, recorded votes, nonces | setup; propose, veto, execute an operation; approve directly or by signature; veto and execute a recovery | signers, guardians and passers-by call in any order; operations change the electorate of a running vote; signatures arrive late |
| `KeyRegistry.sol` | attestors (array and mapping), a record per provider key, ledgers of attestations and rotations | add, remove attestor; attest, contest, uncontest, attestRotated; isKeyUsable | governance changes under pending quorums; irrevocable rotation; windows |
| `keeper.mjs` | a state file per attestor, the plan of one run | diff, submit, wait, save | lost receipts, late mining, crashes, several keepers, a provider that changes its keys |
| `OidcRecoveryGuardian.sol` | an identity per wallet, and a pending change | set, veto, apply an identity; submit an approval | composes the registry's clocks with the wallet's |
| popup channel (`channel/channels/web.ts`, `auth-popup/ceremony.ts`, `auth-popup/mount.ts`) | one pending request on each side, timers, a poll | open, ready, request, result, timeout, close | two windows, unordered events, one promise |
| native channel (`channel/channels/native.ts`, `channel/redirect-protocol.ts`) | the one session of the in-app browser | open, answer, dismiss | a callback names no request, pages outlive their session, the process dies |
| connections (`channel/connection.ts`, `shared-origin/connection.ts`), client, EIP-1193 provider, React snapshot | account in memory, stored account, what each listener last saw, polled receipts | connect, status, logout, sign, send, poll | overlapping calls, restarts, copies of one account |
| send engine (`client/evm.ts`, `nonce.ts`, `evm/rpc.ts`, bundler, paymaster) | allocated nonces, in-flight sends, receipts | simulate, send, wait | unknown outcomes, failover, concurrent sends, an account that is switched |
| signing screen (`auth-popup/sign/`, `vault/simulate/`, `wallet/`) | one request, what is displayed of it, the secrets of one gesture | decode, simulate, ask, assert, sign | what is signed must be what was shown |
| recovery screen (`auth-popup/recover/`, `vault/recover/`) | step of the screen, wallet, promote key | enter, begin, approve | asynchronous answers out of order, state read from a chain that moves |
| roster of devices (`evm/roster-*.ts`, `react/hooks.ts`) | the list last read | refresh, register, revoke | a listing of many reads, keys named by hashes |
| deployment (`script/deploy-canonical.mjs`, `DeployCanonical.s.sol`, `write-canonical-address.mjs`, `src-ts/registry.ts`) | the registry of chains, forge's artifacts | deploy, write, publish, resolve | one address for many chains, half-failed broadcasts, an open factory |
| vault builder (`packages/vault`) | configuration, output directory | init, build, dev, check | kills between writes, requests and checks between builds |

How they interact: maintainers deploy the contracts and publish the registry; the application's SDK
resolves a send against it and talks to the vault through a channel; the vault, a page an operator
built, shows and signs; the send engine broadcasts to the wallet's contract, which delegates to
`GuardianLogic`. Guardians call the wallet directly, or through the recovery screen; an executed
recovery puts a key on the roster the devices page lists. `OidcRecoveryGuardian` is one guardian among
others, gated on `KeyRegistry`; keepers feed the registry. Contracts share block time and call each
other within one transaction; the other parts exchange messages, callbacks and transactions.

## The modules

| Module | Models | Composition |
|---|---|---|
| `AddressArray` | the swap-and-pop arrays both contracts keep | used by `GuardianLogic` and `KeyRegistry` |
| `RecoveryVote` | abstract: a vote with an electorate, a quorum and a clock | implemented by `GuardianLogic` |
| `GuardianLogic`, `GuardianLogicSafety` | every entry point of the contract that writes: an action is a transaction that succeeds, its guards are the negations of the reverts | |
| `KeyRegistry`, `KeyRegistrySafety` | the registry; a record is the hash of (issuer, kid, keyHash) | |
| `Keeper` | several keepers, one provider, the mempool | extends `KeyRegistry`: its actions are what is mined |
| `OidcRecovery` | the identity guardian | extends `KeyRegistry`, instantiates `GuardianLogic` |
| `PopupChannel` | the promises of `open()` in the app, the vault's windows, the messages and timers between them | one queue of tasks per promise, in the order the browser queued them |
| `SharedOrigin`, `SharedOriginSafety` | the connection over the popup: account in memory, account in storage, calls in flight | extends `PopupChannel` |
| `NativeChannel` | requests in the fragment of a page, answers in callback URLs, one session at a time; and, for comparison, the web transport reduced to what `SharedOrigin` shows of it | |
| `ProviderApp` | client, provider, React snapshot and storages around one connection | extends `NativeChannel` |
| `NonceAllocator` | the promise chain of `nonce.ts` and its store | |
| `Chain` | external: accounts, transactions, a bundler's pool | |
| `SendEngine`, `SendEngineSafety` | `simulate`, `send`, `wait` on the sponsored and the native-gas rail | extends `NonceAllocator`, `Chain` |
| `Delivery` | abstract: calls run at most once, as a whole, and a report is never taken back | implemented by `SendEngine` |
| `Consent` | pure: decoding of a request, lines of the screen, danger, the logs of a simulation | |
| `SigningPage`, `SigningPageSafety` | the life of one request on the vault's page, with passkeys and secrets | extends `Consent` |
| `Deployment` | deploy, write, publish | |
| `DelegatedSend` | a send resolved against the published registry, shown, signed, delegated | extends `Deployment` and `SigningPageSafety` |
| `VaultPage`, `VaultBuild` | configuration, page and policy as operators; `init`, `build`, `dev`, `check` as steps | `VaultBuild` extends `VaultPage` |
| `RecoveryScreen` | the recovery page over wallets that live on: guardians approve there or elsewhere, come and leave | |
| `DeviceRoster` | the roster, its listing, registration, revocation | |
| `WalletPages` | both pages over the same wallets | extends `RecoveryScreen`, `DeviceRoster` |
| `MC*` | small instances for TLC | |
| `*Proofs` | theorems and proofs | see below |

**State.** Storage slots keep their names (`pendingRecovery`, `isGuardian`, `records`, ...). A mapping
to booleans is the set of keys it is true of; the mapping of votes, keyed by a hash of (guardian,
promoteKey, nonce), is a set of such triples; the mapping of pending operations is a function from
operations to the tick they are ready at. `msg.sender == address(this)` is `OnlySelf`: somebody holds
a signer. `block.timestamp` is `now`, in ticks, and is never 0. Variables marked *history* exist for
the properties; they read the next state and restrict nothing.

**Asynchronous code.** Everything between two awaits is one step, and a job, task or act is a call
with a place in its own code (`phase`, `stage`, `doing`). Anything else may happen between two of its
steps. What a call captured before an await stays in its own record (`batch`, `draft`, `reply`,
`task[t].read`), what it reads anew is read from the state (`session`, `current`, `devices`): that
difference is where most of the hazards are.

**Popup.** The vault's page is one value (`page[o]`): the stage its ceremony is in, with `pending`
true from the first stage after `listening`. A passkey stands for the account it yields and for a
signature it makes. `PopupChannel` needs of a request only which of four kinds it is; its content is
the subject of `SigningPage`, which in turn leaves the transport out.

**Send engine.** Calls, gas and prices are left out: a batch runs, or reverts, or does nothing because
the account has no code. A job's `draft` is first what was prepared and then what was signed, with the
key the page is connected with at that moment. A bundler and a node may take what they are sent and
lose the answer.

**Signing.** Calldata is the function it calls and its arguments. A line of the screen is the facts a
reader learns from it and its severity; wording and order are left out.

Definitions whose name says what is wrong with them, or whose comment says `Mutant` (`SwapPopDropsLast`,
`ReuseBatchOnly`, `LastHalf`, ...), stand before the definition they vary. No specification uses them;
each is a mistake that could be made in the code and that a property is known to notice.

## What the runs show

| Run | Question | Answer |
|---|---|---|
| `guardian_ops` | Do operations proposed against one roster and executed against another, during a recovery, keep the roster and its mapping equal, the threshold reachable, closed operations closed and the counter equal to the present voters; has a promotion had a full delay of notice from a quorum; and is the contract an implementation of `RecoveryVote`? | yes, but the notice runs on when the signers raise the threshold above the votes (see Disagreements) |
| `guardian_rounds` | Over several rounds, do late or replayed signatures cross from one recovery to another, and does a recovery whose clock runs end in a promotion when every signer is lost? | no; yes |
| `registry` | Do the ledgers count distinct addresses, can every record still reach its quorum, does a key that stays served collect it while a quorum of keepers is run, do expired keys stay dead, and what can revive a key? | yes; quorum, owner, time |
| `keeper` | Through faults, does a state file only claim what is on chain, and the chain only what the provider served? Without faults, are served keys attested and dropped keys rotated? | yes |
| `oidc` | How long before a promotion must a provider key be attested, if anybody can make proofs with it? Does an identity change only after the wait of its own proposal? | an anchor window and a recovery delay; yes |
| `shared_origin` | With lost and duplicated requests, reloads of both windows, windows closed at any point, failing gestures, timeouts and overlapping calls: can the handshake stall, can an answer reach another promise or get lost to the close poll, can a blocked request be prompted for, does a reload lose the account? | no |
| `send_engine` | With sends that overlap, lost answers, failing writes, a reload and a switched account: is `confirmed` ever said of calls that did not run, does a quote run twice, is an intent nonce handed out twice, and does the engine implement `Delivery`? | no; no; no; yes |
| `signing_page` | Does the screen show everything a request of the send engine does, mark what is dangerous, and add up what a simulation found; does it sign only what the wallet accepts and forget its secrets; and does a wallet delegate only to an address that has code, whatever was deployed, written or typed where? | yes |
| `vault_build` | Do kills, edits, dev requests and uploads ever mix the output of two builds, ship a page its policy blocks, or let a check pass that is not true? | no |
| `provider_app` | Over web and native transports, can a late callback sign somebody in, a dead session block the next request, a poll report what is not so, a view of the account differ from it after the client's own verbs, a logout be undone; does every request settle? | no; yes |
| `wallet_pages` | Does the recovery screen let a guardian approve a key minted for something else, or with a nonce other than that of the recovery that was read; is the list of devices true; does a revocation remove another key than the one picked? | no |
| `roster_register` (violation) | Is a device that was registered with the SDK's call found under its own key hash? | no: `buildRegisterCall` registers the bare address, `keyHashFor` hashes the padded word |

Invariants that belong together are checked as one conjunction; each conjunct is named and commented
where it is defined:

- `IInv`, `RegistryIInv`, `SharedOriginIInv`: the inductive invariants of the proofs, with every safety
  invariant of their component among the conjuncts.
- `KeeperInv`: types, `SeenIsOnChain`, `KeepersReportTheProvider`.
- `NobodyWaitsInVain` = `HandshakeNeverStalls` /\ `EndedPageIsNoticed`.
- `SendInv` = `SendTypeOK` /\ `ConfirmedMeansExecuted`.
- `SigningInv` = `SigningTypeOK` /\ `SecretsEndWithTheGesture` /\ `SignaturesAreAccepted`.
- `DelegationInv` = `DelegationTypeOK` /\ `OneDelegateForEveryChain` /\ `DelegatesToCode`.
- `VaultInv` = `VaultTypeOK` /\ `OutputIsOfOneBuild` /\ `PolicyNotOlderThanPage`.
- `ProviderInv` = `ProviderTypeOK` /\ `SessionsAreAwaited` /\ `SignedIsASignature` /\
  `StatusHasAccount` /\ `ReportedIsTrue`; `AccountMovesInTheOpen` = `ClientVerbsAreSeen` /\
  `LoggedOutStaysOut`.
- `RecoveryInv` = `RecoveryTypeOK` /\ `KeyIsMintedForTheRead` /\ `NonceIsOfTheRead` /\
  `FirstApprovalIsAccepted` /\ `ButtonsMeetTheirStep`.
- `RosterInv` = `RosterTypeOK` /\ `ListIsTrue` /\ `RecoveredKeysSign`.

### Bounds

Time, operations, rounds, faults, key changes, proposals, reloads and builds are bounded by guards
named in each module (`MaxTime`, `MaxOps`, `MaxRounds`, `MaxFaults`, `MaxTrouble`, ...).

- Contracts: two operations prepared against the same roster and executed in either order while a
  vote of three guardians runs; a vote, its veto and a second vote with signatures of the first; a
  removal and a re-addition of an attestor between two attestations; expiry of a grace window and
  every call after it. `InHorizon` keeps a vote from starting a clock the model could not let run out.
  The contracts count votes in `uint8` and attestations in `uint16`; the guard on `MaxUint8` is in
  `Approve`, and no instance has 256 guardians.
- `keeper`: two keepers, two keys of one kid, served, replaced and dropped, two faults (a fetch that fails
  is one kind). Two kids differ in their entries of the state file only. The attestors stay as they are.
- `oidc`: one attestor and a quorum of one: larger quorums are the registry's own, checked in
  `registry`, and `PartsBehaveAsAlone` proves that the composition adds nothing to its behaviour.
- `shared_origin`: two opens, which is enough for answers to be confused; `MaxTrouble` = 2 bounds,
  together, reloads, failed gestures and opens that overlap another one.
- `send_engine`: a simulation and two sends on one page with its own store, a founding key and a key
  of the roster, two endpoints, one reload: a send can overtake another between any two of its
  awaits, a quote can be sent twice, the key switched between preparation and signature, and the
  page reloaded while a write is in flight. The two keys are of one wallet: see the disagreements for
  what a switch to another wallet does, which `ConfirmedMeansExecuted` excludes by its condition
  `SignedForItsWallet` and `KeepsItsPromise` by this instance.
- `signing_page`: batches of up to two calls (of fifteen), transactions, messages, permits, typed data
  that is nearly a batch; three passkeys; two versions, one run of the deploy script, which may name one
  chain and reach another, after earlier runs that left the first version, or half of it, its file and its
  address behind (`DeployInit`); one chain (`Reached`) where either contract of either version is made at
  any moment, one address that is typed, and one chain where there is something at it (`Elsewhere`). So
  that the two halves do not multiply, an app's own request is opened before anything is released, and
  releases go on only around the requests of a send: `opener` says which.
- `vault_build`: two builds, four configurations, six bundles of which one is good, three hosts.
- `provider_app`: three requests, two keys of two wallets, two chains, three kinds of storage.
- `wallet_pages`: one wallet, two people, two devices, rosters of at most three keys, one round that
  ends, three calls of the two pages between them: enough for a reading, a minted key and an
  approval, for two readings to overlap with a key that is minted, or for a listing, a revocation and a
  registration, around recoveries that go on without the page.
  No threshold is kept here: a clock needs a vote, and how many it needs is `GuardianLogic`'s subject.

**Symmetry** is used only in runs without liveness, over values the specification does not tell apart.

**Deadlock** is not checked: with every bound used up nothing more can happen; an app that is not used
does nothing; and a wallet without a signer and without enough guardians really is stuck.

### Fairness

`guardian_rounds` assumes that blocks come and that somebody keeps calling `executeRecovery`, which
asks for no permission. `registry` assumes (`ServedFairness`) that attestors who run their keeper
(`Running`) attest in the end the keys that stay served (`Served`): a run plans every key it finds served
and not in its state file (`keeper.mjs:123-132`), and a key gets into that file only once it is attested
(`SeenIsOnChain`). Other attestors, and keys that are dropped, are promised nothing; and
`ServedKeysReachQuorum` speaks of a registry that keeps a quorum of running attestors from some moment on. `keeper` assumes that keepers are run again and again and that what they send is
mined; `LiveKeysGetAttested` and `DroppedKeysGetRotated` promise nothing once a fault has struck.
Nobody is assumed to vote, veto, contest or propose. `provider_app` assumes that what code awaits
settles, and that a person closes a page that stays silent (`Code(j) \/ Dismiss(j)`): the native
transport has no timeout, so without the second a request may wait for ever. The other runs have no
fairness; `shared_origin` states that nobody waits for nothing as safety: what the waiting side needs
is queued.

**Order of events.** In `PopupChannel`, tasks queued for one promise run in the order they were
queued: `web.ts` relies on it (113-117) when it defers a rejection by one task. Nothing orders the
tasks of two promises, and nothing orders a window's loading, a decision of the user or the end of the
five minutes with anything.

## What is proved

TLAPS checks these for all values of the constants; TLC checks the properties they name on the instances
above. The assumptions are the named `ASSUME`s of the modules: finitely many guardians, attestors and key
identifiers, natural bounds and delays, a positive quorum; placeholders that are not among the values they
stand in for; for a release, that the chains of the command line and of a send are among those of the
registry and that nobody types the placeholder; for a request, that it has the fields its kind has and that amounts are natural numbers
(`uint256`), and for a log, that only a transfer moves anything; for a roster, that it may hold two keys,
since a wallet may start with two; for a build, what its configuration and its bundle are made of. Every
safety property of the passing runs is stated by a theorem.

Where a proof needs induction over data (that flattening a plan, or a screen, keeps what each part says;
that a set of numbers has a greatest; what a list of amounts adds up to), it is an induction over the natural numbers for a *set* closed under
successors (`SetInduction`), which follows from the well-foundedness of `<` without the operator parameter
of the library's theorems.

*GuardianLogic.* `IInv` is the inductive invariant. `TypeOK` and the roster conjuncts say what
`SwapPop` needs: without distinctness, removing one entry of the array would not remove the address,
and the threshold could not be compared with the number of guardians. The counter `approvals` is
related to the set of votes by cardinality, and votes are confined to nonces up to the current one:
that is why a new round starts from none. `quorumSince` is the tick since which the votes are as many as
the threshold of that moment asks, and `overtaken` that tick for a quorum which a raised threshold ended. A
running clock began no earlier than one of the two, which gives `PromotionHadNotice`: removals, late votes
and lowered thresholds never leave a clock running without its quorum, and a raised threshold does. The refinement maps `approved` to the votes for the
pending key at the pending nonce, and the nonce to the round. Theorems: `InvariantHolds`,
`TypeCorrect`, `RosterStaysMirrored`, `ThresholdStaysReachable`, `ApprovalsAreVotes`,
`RoundHasOneCandidate`, `ClosedOpsNeverReopen`, `PromotionIsNoticed`, `ImplementsVote`.

*KeyRegistry* (in `KeyRegistryProofs`). `RegistryIInv` adds to the ledgers' cardinalities that clocks
start in the past, so that a `validUntil` once stamped can only recede: `RegistryInvariant`,
`AttestorsStayMirrored`, `LedgerStaysCounted`, `QuorumStaysWithinReach`, `ExpiredForGood`. From the same
invariant, `OnlyThoseRevive`: a key becomes usable by time, by the attestation that makes its quorum, or
by the owner, since no other step moves any of the five things `isKeyUsable` reads in that direction.
The lemmas about the swap-and-pop arrays are those of `GuardianLogicProofs`, of which this module takes
an instance.

*Keeper* (in `KeyRegistryProofs`). `KeepersAreHonest`. That a file claims only what is on chain is not
inductive: what it will claim is in the plan of a run, and what that plan did is in the mempool. `IKeeper`
says of every item that an attestation that was sent is on chain or still waits, and is on chain once it is
marked `ok`; and of every transaction that waits that it can only fail because another one did its work
(`TxHolds`: the attestors stay as they are). So a receipt, which the keeper takes for success whatever its
status says (`keeper.mjs:171`), is right about attestations. `ServedOrDropped` makes the diff right: a hash that is
on file was served, and one that is served no longer was dropped. The plan is a flattened sequence
(`PlanAsks`), the file the last item of a kid that landed (`LandedIs`).

*OidcRecovery* (in `KeyRegistryProofs`). A pending change is the last one proposed and carries its own
wait (`PendingIsProposed`), whence `IdentityChangesNoticed`; `IdentityTypes` is the type invariant.
`PartsBehaveAsAlone` shows that the composition is, seen from the wallet, `GuardianLogic`, and seen
from the registry, `KeyRegistry`: the theorems about each hold of both together. `PromotionIsInTheOpen`
needs both at once: `OpenInv` joins the wallet's `IInv`, the registry's invariant, that an identity's vote
of the pending round was cast when some key was anchored an anchor window ago, and that a clock it started
began no earlier. The wallet's invariant is that of an instance of `GuardianLogicProofs` without
signers, which the composition behaves as; a few lemmas say that the two instances' operators are equal.

*SharedOrigin.* `SharedOriginIInv` speaks of each open by itself (`OpenInv`), and every step but a
reload of the app moves one open and leaves the others as they were (`UntouchedKeeps`). The properties
are not inductive because they say nothing of the order of the queue: the invariant adds that the
first result queued is the first one posted (`FirstResult`), that a rejection is only deferred once
the page is gone, that it is behind every result (`DeferredLast`), and that a promise that waits has
its poll or its rejection still to come. The lemmas about `Append` and `Tail` carry these through the
queue, whatever its length. Theorems: `SharedOriginInvariant`, `HandshakeTheorem`,
`AnswersAreOwnTheorem`, `AnswersAreNotLostTheorem`, `EndedPageTheorem`, `NobodyWaitsTheorem`,
`BlockedTheorem`, `ReloadKeepsAccountTheorem`.

*DelegatedSend.* That a wallet delegates only to an address that has code is not inductive: nothing in it says
why the address of the registry has code on a chain nothing was deployed on, and indeed it need not.
`IDelegation` adds where the argument really lies: what stands in the registry and in every copy of it is
an address of a version or one that was typed, code never leaves a chain (`CodeStays`), and a send asks the chain
before it asks for a signature (`SendAsksForCode`, from `resolve.ts`), so that the answer, which is to the
request (`AnswerIsOfTheRequest`), authorizes an address with code. Nothing is said of the guardian logic
behind it, since nothing in the code asks for it. `RegistryIsWrittenAfterTheDeploy` rests on what forge's exit status
says of both receipts (`Confirmed`) and on the run that carries it to the write (`CliKnows`). Theorems:
`DelegationIsSafe`, `RegistryIsWrittenAfterTheDeploy`.

*DelegatedSend, the signing screen.* `SigningIsSafe`, `EngineSendsAreShown`, `DangerIsShown`: proved of the
composition, where requests come from an app and from a send. `IPage` says what the lines of the screen are
from the moment they are there (those of the request, as `Consent` defines them), and where a secret may be.
One conjunct is not obvious: an authorization without an address does not decode, is therefore not refused
to a roster key by its decoding, and is kept from being signed only because nothing undecodable is ever
offered (`NeverOffered`). The lemmas about lists carry a line through the concatenations of the screen.
`RowsAreTrue` [`RowsAddUp`]: what the rows add up to is what the logs say the wallet gained and lost. `IRows`
adds that no log is there before the simulation and that what was on the screen by then are lines of the request
(`Paper`), which count nothing. The rest is arithmetic of lists: what a log's rows are worth (`LogAddsUp`, where
the order of the two questions in `DirectionFor` matters), what a flattened list is worth (`WorthOfAll`), and
that other lines before and after the rows add nothing (`LinesAddUp`). Sums are a recursive function; that it
is defined and splits over a concatenation is `TotalIs` and `TotalOfBoth`.

*SendEngine.* `NoncesAreHandedOutOnce`: a page with a store of its own (`OwnStores`) never hands a
number out twice. `INonces` places every number a job holds below the next one in the page's memory,
and, once it is handed out, below the next one in the store; the number of the running allocation is
above all of them. A reload empties the memory and keeps the store, a failed write skips a number, and
a write that lands after its page is gone raises the store by one allocation, the one `tail` names.
Without `OwnStores` it is false, as `nonce.ts:40-42` says itself: two tabs may read the same number.

`QuotesRunOnce`, for which `OwnStores` is not needed: two executed operations of one quote are the same.
That says nothing of what is still under way, so `IQuotes` names for every quote one wallet and one
EntryPoint nonce (`Quote`) and says that all that stems from it - what a job has prepared or signed, what
is in the bundler's pool, what is mined - spends that nonce of that wallet. `MinedOnce` adds that an
EntryPoint nonce is spent once and only below the wallet's next one. A job that reuses a quote is on
its page (`Reused`), so a reload that ends the quote ends every reuse not sent yet; a job of the other rail stems from
no sponsored quote, which keeps transactions out of the argument.

`ConfirmedIsExecuted` [`SendInv`]: what `wait` says confirmed was mined and ran. `ISend` adds to `IQuotes` what is
needed to know that the calls of a mined operation run: its sender has code, or its authorization takes
effect. So it ties the nonce of every authorization that is drafted, in a pool or mined to what the chain
has reached: one read while the wallet had no code is the account's own nonce then, and either it is still
that, or the account has moved on, and a wallet's account moves on only by being delegated. The property
speaks of drafts signed by a key of the wallet they were prepared for; the other case is under
Disagreements.

`PromiseIsKept` [`KeepsItsPromise`]: the step simulation behind the refinement of `Delivery`. It has the hypothesis
`OneWalletPages`, that the keys a page may be switched between are of one wallet: without it a draft can be signed for
another wallet, and the promise is broken as the disagreement describes. `IPromise` says that a batch is for the
wallet of its page, and a transaction in any pool is from a key of the wallet it calls.

*ProviderApp.* `AppIsSound` [`ProviderInv`], `ConnectIsProven`, `AccountsMoveInTheOpen`. Each property is about
what a call does at its end with what it captured at its start. `AppIInv` follows that part of a job: a native
session has one job that waits for it (`OneSessionEach`), the answer a job holds is one of the page it opened
(`AnswersFit`), the account the client holds is one that was connected or restored and not logged out since
(`AccountKept`), and what a poll last saw is on chain (`ReportsFollow`).

*WalletPages.* `RecoveryIsSafe` [`RecoveryInv`], `RosterIsTrue` [`RosterInv`], `OnlyPickedKeysLeaveARoster`.
For the recovery screen, `IRecovery` says of every call where it stands (`TaskHolds`), what it read
and when: the model remembers with a read the round it looked in (`Dated`), so a nonce read with a pending
recovery is that round's, whoever else votes, vetoes or proposes the same key again, and a key minted by a
call is that call's. For the devices page, `IRoster`
describes a listing that is under way and met at most one change: it has read the first keys of the roster,
which include all that stayed, or a revocation moved one, and then the next read past the end fails
(`ReadsInOrder`, `WillFail`). That is why a list is true or the listing throws.

*VaultBuild.* `VaultIsSound` [`VaultInv`], `ShippedPagesRun` [`ShippedPageRuns`], `ChecksAreTrue`
[`CheckedMeansProtected`]. `IVault` adds that a running build holds the page and the policy of one
parsed configuration, what of it is written already is its own, a request being served holds a page no
newer than any file it still reads, and the first half of a check is true of the host it asked. That a page which
passed the assertions runs is a fact about the operators of `VaultPage` alone (`FinishedPageRuns`): what
was inlined is hashed, whatever the bundler emitted.

**Only model-checked.** Liveness, and so everything under fairness: out of the prover's reach. Of the
refinements the step simulation is proved (`PromiseIsKept`, `ImplementsVote`).

## Disagreements met

The model shows what the code does; these are the places where that differs from what a sentence of the
repository says, or from what one would expect. The first has a run and a finding in `PROJECT.json`.

Roster and recovery
- `evm/roster-calls.ts:30` registers the bare 20-byte address as the public key, while `keyHashFor`,
  and the promotion of a recovery, use the 32-byte word: a device registered through the SDK is not
  found under its hash, and cannot sign (`roster_register`).
- `discover-guardian-provider.ts:81` passes a `bigint` to `JSON.stringify`, which throws: a connected
  guardian wallet never gets to sign.
- The recovery screen mints a fresh key for each approval, also with a recovery pending for another
  one; the contract then reverts with `RecoveryMismatch`, where `flow.ts:6-7` expects the approval to
  count. `nonceFor` is 0 without a pending recovery (`ceremony.ts:66` owns to it).
- A screen that read a pending recovery goes on signing its nonce after a veto, also when guardians have
  proposed the same key again since: the approval is for the candidate, and reverts (`ceremony.ts:59-73`).
- A late answer of an earlier `enterWallet` overrides a newer one; a failed step leaves an error no
  button leaves.
- `verifyDeviceEnrollmentRequest` checks the proof against the wallet the request itself names; its
  caller must compare that with its own (`device-enrollment.ts:19-21`). Nothing in the SDK calls it: the
  calls that register a device are built for any key (`hooks.ts:144-145`, `roster-calls.ts:26-33`).
- `readDeviceRoster` reads a count and then index by index: a key registered, with another revoked, in
  between can be missed. `ListIsTrue` promises the rest.

Contracts and keeper
- Raising the threshold leaves a running clock running (`GuardianLogic.sol:239`), where 245-246 say that the
  timelock only ever runs on a still-valid quorum: a key can be promoted that had fewer votes than the
  threshold for part of the delay. Only signers can raise it, and they can veto; `PromotionHadNotice` and
  `RecoveryVote` make the exception explicit and allow no other. A threshold lowered to or below the approvals never starts it: 166 compares for
  equality.
- `uncontest` keeps an anchor window that ran during the contest (`KeyRegistry.sol:151`, 56).
- The keeper takes a reverted receipt for success (`keeper.mjs:171`, 176), and the entry of a replaced
  kid overwrites its failed rotation (198, 193). Its state file is written in place. An attestation
  that lands after its run was cut off, of a key dropped before the next, is never rotated.
- A change of identity to zero makes the next call a first one, without a wait
  (`OidcRecoveryGuardian.sol:54`; `IOidcRecoveryGuardian.sol:23`). An approval counted for one identity
  stays counted when the identity changes.

Sending and signing
- A `paymasterService` without a token in `wallet_sendCalls` is served with native gas.
- The quoted `paymaster-7677` request names another version of the EntryPoint than the engine uses.
- Two tabs can allocate the same intent nonce (`nonce.ts:40-42`: "the loser reverts").
- A send is prepared for the wallet of the account at its start (`batch.walletAddress`) and signed by the
  key of the account the page is connected with at the end. Between keys of one wallet that is
  harmless. Where the page was switched to another wallet in between, a native-gas send to a wallet
  without code is signed by the other wallet's founding key, whose authorization delegates the other
  wallet: the transaction succeeds, runs nothing, and `wait` says `confirmed`.
- The screen leaves out, for requests the engine does not make: all but the last fee call, the value
  that goes with a decoded token call, the outer `to` and value of a batch, a delegation named
  `contractAddress`. Native value inside a batch has no simulated row; a transfer to oneself is shown
  as sent. `signSponsored` is not refused to a roster key.
- `signWith` falls back to any passkey after any failure of the first prompt (`mount.ts:69`, 60).

Provider and channels
- `redirect-protocol` cannot encode a request that holds a `bigint`; `native.ts:94-95` does not check the
  result of a signature; a callback names no request, so a late one answers the next request
  (`ConnectedIsProven`: it cannot sign anybody in). A native request sent again is executed twice.
- `eth_requestAccounts` signs in without `notify()`: subscribers learn of it with the next verb
  (`react/provider.tsx:2` promises otherwise). An asynchronous storage never restores a session. A
  malformed session is dropped without a word; a throwing listener stops those after it; a logout while
  a connect is under way ends signed in.
- Overlapping `wallet_getCallsStatus` polls can answer 200 and then 100.

Releases and builds
- `registry.ts:184-185` and 272-274 say a pending chain fails loud; the write fills every placeholder
  with the address after a deploy on one chain. What keeps a send safe is the read of the code in
  `resolve.ts` (`DelegatesToCode`). Profiles and the deploy script disagree on names
  (`robinhood`, `arc`). `--rpc` is not compared with `--chain`. A run repeated after half a broadcast
  fails on the CREATE2 collision, so the script never completes a half-deployed pair. `resolve.ts:56` asks for
  the code of the account alone, the factory is open, and the constructor of `AvokCalibur` does not look at its
  logic (`AvokCalibur.sol:26-28`): where the account is deployed without `GuardianLogic`, or a typed address is
  something else's, a wallet delegates to it. `write-canonical-address.mjs` takes a file of a broadcast
  whatever became of it. Once the registry names a new version, a wallet that delegates to it
  elsewhere cannot be served where it is not deployed yet.
- The vault's redundancy check counts URLs, not origins; overrides that are no list are dropped
  silently; the dev server reads page and policy apart; `check` asks for `/recover` and not what is
  below it; two runs of `init` can overwrite each other.

## What is not modelled

- Calibur itself (a vendored dependency; its roster is a set or sequence of keys and the signers
  `signerLive`), hashes and signatures (a hash is its preimage, a signature the fact that it was made),
  the circuit (a proof is the tuple it attests), key derivation, WebAuthn: cryptography is out of a model
  checker's reach.
- Gas and user-operation arithmetic, formatting and look-ups: functions without state.
- The retry prompt of a blocked popup (`popup-open.ts`), the envelope of `protocol.ts`, pages whose
  answer is too large for a fragment, a second tab on one storage.
- EIP-6963 announcements and capabilities; the guardian hooks of React, which show the last answer.
- Reads a client makes outside a send, name resolution, the look-up of tokens.
- `DeployD7.s.sol`, an experiment; generated contract interfaces and the generated verifier.
- Device enrollment (`wallet/device-enrollment.ts`): two pure functions whose use is up to the caller.
- Events, view functions, and the width of the `uint40` clocks, which overflow in the year 36812.

## What is left

1. A second tab on one storage, for the connection and for the allocator, with what the contract makes
   of two equal nonces; the guardian hooks.
2. Gas estimates and the packing of user operations as operators against a reference definition.
