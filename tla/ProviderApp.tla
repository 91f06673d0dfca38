---------------------------- MODULE ProviderApp ----------------------------
(***************************************************************************)
(* An app around one connection: the client and its subscribers            *)
(* (client/client.ts), the EIP-1193 provider a dapp library drives         *)
(* (provider/eip1193.ts, provider/eip1193-methods.ts), the snapshot React  *)
(* renders (react/src/provider.tsx), and the account in memory and in      *)
(* storage (channel/connection.ts, shared-origin/connection.ts).  Requests *)
(* overlap, wait for a person, and are lost with the process.              *)
(*                                                                         *)
(* What happens between the broadcast of a send and its receipt is         *)
(* SendEngine's; here a send is a signature, a receipt and its polls.      *)
(***************************************************************************)
EXTENDS NativeChannel

CONSTANTS
  WalletOf,        \* the wallet a device key belongs to
  NoWallet,
  Malformed,       \* stored bytes that parse and hold no address
  Chains,
  Storages         \* subset of {"memory", "local", "secure"}

ASSUME ProviderAppAssumption ==
  /\ WalletOf \in [Keys -> {WalletOf[k] : k \in Keys}]
  /\ NoKey \notin Keys /\ Malformed \notin Keys \cup {NoKey}
  /\ NoWallet \notin {WalletOf[k] : k \in Keys}
  /\ Chains # {}

Wallets == {WalletOf[k] : k \in Keys}
Wallet(k) == IF k = NoKey THEN NoWallet ELSE WalletOf[k]

VARIABLES
  running,         \* the process of the app
  storage,         \* the kind of storage the connection was given
  current, stored, \* the account in memory, and what storage holds
  verb, stage,     \* what each job is, and how far
  reply,           \* what the channel answered a job
  seen,            \* a poll: the receipt it read last
  chainId,
  onchain,         \* the fate of each send
  calls, told,     \* the provider's receipts, and the last status the dapp got
  prev,            \* prevConnected and prevAddr of the provider
  snap,            \* the snapshot of the React provider
  dapp             \* what the dapp concluded from events and results

accountVars == <<storage, current, stored>>
callVars == <<seen, onchain, calls, told>>
viewVars == <<prev, snap, dapp>>
vars == <<channelVars, running, accountVars, verb, stage, reply, callVars, chainId, viewVars>>

NoView == [connected |-> FALSE, wallet |-> NoWallet]
NoAnswer == [kind |-> "none"]
NoSnap == [key |-> NoKey, status |-> FALSE]

(***************************************************************************)
(* The account.  A storage that answers with promises is read as nothing:  *)
(* loadAccount parses the promise and fails.                               *)
(***************************************************************************)
LoadAccount == IF storage = "secure" THEN NoKey ELSE stored
ResolveAccount == IF current # NoKey THEN current ELSE LoadAccount

Account == IF ResolveAccount = Malformed THEN NoKey ELSE ResolveAccount
Status == ResolveAccount # NoKey

(* account() drops a session it cannot use.                                *)
StoredAfterRestore == IF ResolveAccount = Malformed THEN NoKey ELSE stored

RandomNonce(j) == j        \* 128 random bits: no two connects share them

(* Mutant: the proof is not looked at. *)
VerifiedBlindly(answer, j) == TRUE

(* verifyAuthorizeProof: a signature over the challenge of this connect.   *)
Verified(answer, j) == answer.nonce = RandomNonce(j)

-----------------------------------------------------------------------------
Init ==
  /\ ChannelInit
  /\ running = FALSE
  /\ storage \in Storages /\ current = NoKey
  /\ stored \in IF storage = "memory" THEN {NoKey} ELSE Keys \cup {NoKey, Malformed}
  /\ verb = [j \in Jobs |-> "none"] /\ stage = [j \in Jobs |-> "idle"]
  /\ reply = [j \in Jobs |-> NoAnswer]
  /\ seen = [j \in Jobs |-> <<>>]
  /\ onchain = [j \in Jobs |-> "none"] /\ calls = [j \in Jobs |-> "none"]
  /\ told = [j \in Jobs |-> "none"]
  /\ chainId \in Chains
  /\ prev = NoView /\ snap = NoSnap /\ dapp = NoView

(* createAvokClient wires the provider; React renders and subscribes.      *)
Start ==
  /\ ~running /\ running' = TRUE
  /\ stored' = StoredAfterRestore /\ UNCHANGED <<storage, current>>
  /\ prev' = [connected |-> Status' /\ Account' # NoKey, wallet |-> Wallet(Account')]
  /\ snap' = [key |-> Account', status |-> Status']
  /\ dapp' = NoView
  /\ UNCHANGED <<channelVars, verb, stage, reply, callVars, chainId>>

(* The process is killed, the page reloaded: jobs and memory are gone.     *)
Die ==
  /\ running /\ running' = FALSE
  /\ LoseSessions
  /\ current' = NoKey
  /\ stored' = IF storage = "memory" THEN NoKey ELSE stored
  /\ stage' = [j \in Jobs |-> IF stage[j] \in {"idle", "done"} THEN stage[j] ELSE "failed"]
  /\ reply' = [j \in Jobs |-> NoAnswer] /\ seen' = [j \in Jobs |-> <<>>]
  /\ calls' = [j \in Jobs |-> "none"] /\ told' = [j \in Jobs |-> "none"]
  /\ prev' = NoView /\ snap' = NoSnap /\ dapp' = NoView
  /\ \E c \in Chains : chainId' = c          \* the default of the next start
  /\ UNCHANGED <<storage, verb, onchain>>

(* The listeners of the client run: the provider compares with what it     *)
(* knew and emits, React reads anew.                                       *)
Notify ==
  LET connected == Status' /\ Account' # NoKey
      wallet == Wallet(Account')
  IN /\ prev' = [connected |-> connected, wallet |-> wallet]
     /\ dapp' = [connected |-> IF connected # prev.connected THEN connected ELSE dapp.connected,
                 wallet |-> IF wallet # prev.wallet THEN wallet ELSE dapp.wallet]
     /\ snap' = [key |-> Account', status |-> Status']

-----------------------------------------------------------------------------
(* Requests.  Everything up to the channel runs in the task of the caller. *)
Begin(j, v) ==
  /\ running /\ stage[j] = "idle"
  /\ verb' = [verb EXCEPT ![j] = v]

OpFor(v) == CASE v \in {"login", "requestAccounts"} -> "authorize"
              [] v = "send" -> "send"
              [] OTHER -> "sign"

To(j, s) == stage' = [stage EXCEPT ![j] = s]

Ask(j, v) ==
  \E small \in BOOLEAN :
    IF Encodable(OpFor(v), small) /\ ~Locked
    THEN OpenSession(j) /\ To(j, "waiting")
    ELSE UNCHANGED channelVars /\ To(j, "failed")

Login(j) ==
  /\ Begin(j, "login") /\ Ask(j, "login")
  /\ UNCHANGED <<running, accountVars, reply, callVars, chainId, viewVars>>

(* eth_requestAccounts: the provider's own way in, past the client.        *)
RequestAccounts(j) ==
  /\ Begin(j, "requestAccounts")
  /\ IF Account = NoKey
     THEN Ask(j, "requestAccounts") /\ UNCHANGED dapp
     ELSE /\ To(j, "done") /\ UNCHANGED channelVars
          /\ dapp' = [dapp EXCEPT !.wallet = Wallet(Account)]
  /\ UNCHANGED <<running, accountVars, reply, callVars, chainId, prev, snap>>

EthAccounts ==
  /\ running
  /\ dapp' = [dapp EXCEPT !.wallet = Wallet(Account)]
  /\ UNCHANGED <<channelVars, running, accountVars, verb, stage, reply, callVars, chainId, prev, snap>>

MaySignAs(wallet) == Account # NoKey /\ Wallet(Account) = wallet

(* personal_sign and eth_signTypedData_v4, for the address the dapp names. *)
Sign(j, wallet) ==
  /\ Begin(j, "sign")
  /\ IF MaySignAs(wallet) THEN Ask(j, "sign") ELSE To(j, "failed") /\ UNCHANGED channelVars
  /\ UNCHANGED <<running, accountVars, reply, callVars, chainId, viewVars>>

(* wallet_sendCalls and eth_sendTransaction.                               *)
SendCalls(j) ==
  /\ Begin(j, "send")
  /\ IF Account # NoKey THEN Ask(j, "send") ELSE To(j, "failed") /\ UNCHANGED channelVars
  /\ UNCHANGED <<running, accountVars, reply, callVars, chainId, viewVars>>

SwitchEthereumChain(c) ==
  /\ running /\ chainId' = c
  /\ UNCHANGED <<channelVars, running, accountVars, verb, stage, reply, callVars, viewVars>>

(* Mutant: what was stored comes back with the next start. *)
ForgetInMemory == current' = NoKey /\ UNCHANGED stored

Forget == current' = NoKey /\ stored' = NoKey

Logout ==
  /\ running /\ Forget /\ UNCHANGED storage
  /\ Notify
  /\ UNCHANGED <<channelVars, running, verb, stage, reply, callVars, chainId>>

-----------------------------------------------------------------------------
(* Answers of the channel.  (DismissUnnoticed is a mutant.)                *)
DismissUnnoticed(j) ==
  /\ running /\ EndSession(j)
  /\ UNCHANGED <<running, accountVars, verb, stage, reply, callVars, chainId, viewVars>>

Dismiss(j) ==
  /\ running /\ EndSession(j) /\ To(j, "failed")
  /\ UNCHANGED <<running, accountVars, verb, reply, callVars, chainId, viewVars>>

IsSignature(answer) == answer.key # NoKey          \* throwIfSignError

Handled(j, answer) ==
  IF ~KindMatches(answer, OpFor(verb[j])) THEN "failed"
  ELSE IF OpFor(verb[j]) = "authorize" THEN "verifying"
  ELSE IF ~IsSignature(answer) THEN "failed"
  ELSE IF verb[j] = "send" THEN "signed" ELSE "done"

PageAnswers(p, key) ==
  LET answer == AnswerOf(p, OpFor(verb[p]), RandomNonce(p), key)
      receivers == ReceiversOf(p)
  IN /\ CallBack(p) /\ MayAnswer(OpFor(verb[p]), key)
     /\ stage' = [j \in Jobs |-> IF j \in receivers THEN Handled(j, answer) ELSE stage[j]]
     /\ reply' = [j \in Jobs |-> IF j \in receivers /\ stage'[j] # "failed" THEN answer ELSE reply[j]]
     /\ UNCHANGED <<running, accountVars, verb, callVars, chainId, viewVars>>

(* connect() after verifyAuthorizeProof, and what awaited it: the client   *)
(* notifies, the provider answers its request and tells nobody else.       *)
Verify(j) ==
  /\ running /\ stage[j] = "verifying" /\ UNCHANGED storage
  /\ IF Verified(reply[j], j)
     THEN /\ current' = reply[j].key /\ stored' = reply[j].key
          /\ To(j, "done")
          /\ IF verb[j] = "login"
             THEN Notify
             ELSE dapp' = [dapp EXCEPT !.wallet = Wallet(Account')] /\ UNCHANGED <<prev, snap>>
     ELSE To(j, "failed") /\ UNCHANGED <<current, stored, viewVars>>
  /\ reply' = [reply EXCEPT ![j] = NoAnswer]
  /\ UNCHANGED <<channelVars, running, verb, callVars, chainId>>

(* The engine broadcasts, or throws, and the provider keeps the receipt.   *)
SendResolves(j) ==
  /\ running /\ stage[j] = "signed"
  /\ \/ /\ To(j, "done")
        /\ onchain' = [onchain EXCEPT ![j] = "pending"]
        /\ calls' = [calls EXCEPT ![j] = "pending"]
     \/ To(j, "failed") /\ UNCHANGED <<onchain, calls>>
  /\ UNCHANGED <<channelVars, running, accountVars, verb, reply, seen, told, chainId, viewVars>>

Mine(j) ==
  /\ onchain[j] = "pending"
  /\ \E fate \in {"confirmed", "failed"} : onchain' = [onchain EXCEPT ![j] = fate]
  /\ UNCHANGED <<channelVars, running, accountVars, verb, stage, reply, seen, calls, told,
                 chainId, viewVars>>

(* wallet_getCallsStatus: the receipt as the provider knows it ...         *)
GetCallsStatus(j, id) ==
  /\ Begin(j, "status")
  /\ IF calls[id] # "none"
     THEN To(j, "polling") /\ seen' = [seen EXCEPT ![j] = <<id, calls[id]>>]
     ELSE To(j, "failed") /\ UNCHANGED seen
  /\ UNCHANGED <<channelVars, running, accountVars, reply, onchain, calls, told, chainId, viewVars>>

(* ... updated by what an endpoint says, if it has seen the receipt.       *)
Polled(known, fate) == IF fate \in {"confirmed", "failed"} THEN fate ELSE known

EndpointAnswers(j) ==
  /\ running /\ stage[j] = "polling" /\ To(j, "polled")
  /\ \E upToDate \in BOOLEAN :
       seen' = [seen EXCEPT ![j][2] = IF upToDate THEN Polled(@, onchain[seen[j][1]]) ELSE @]
  /\ UNCHANGED <<channelVars, running, accountVars, verb, reply, onchain, calls, told, chainId, viewVars>>

ToCallsStatus(j) ==
  /\ running /\ stage[j] = "polled" /\ To(j, "done")
  /\ calls' = [calls EXCEPT ![seen[j][1]] = seen[j][2]]
  /\ told' = [told EXCEPT ![seen[j][1]] = seen[j][2]]
  /\ seen' = [seen EXCEPT ![j] = <<>>]
  /\ UNCHANGED <<channelVars, running, accountVars, verb, reply, onchain, chainId, viewVars>>

-----------------------------------------------------------------------------
Requests(j) ==
  \/ Login(j) \/ RequestAccounts(j) \/ SendCalls(j)
  \/ \E w \in Wallets : Sign(j, w)
  \/ \E id \in Jobs : GetCallsStatus(j, id)

Code(j) == Verify(j) \/ SendResolves(j) \/ EndpointAnswers(j) \/ ToCallsStatus(j)

Next ==
  \/ Start \/ Die \/ Logout \/ EthAccounts
  \/ \E c \in Chains : SwitchEthereumChain(c)
  \/ \E j \in Jobs : Requests(j) \/ Dismiss(j) \/ Code(j) \/ Mine(j)
  \/ \E p \in Jobs, k \in Keys \cup {NoKey} : PageAnswers(p, k)

(* Promises settle, and a person closes what no longer answers.            *)
Fairness == WF_vars(\E j \in Jobs : Code(j) \/ Dismiss(j))

Spec == Init /\ [][Next]_vars /\ Fairness

-----------------------------------------------------------------------------
(* Properties. *)

ProviderTypeOK ==
  /\ sessions \subseteq Jobs /\ pages \subseteq Jobs
  /\ transport = "native" => Cardinality(sessions) <= 1
  /\ running \in BOOLEAN
  /\ current \in Keys \cup {NoKey} /\ stored \in Keys \cup {NoKey, Malformed}
  /\ verb \in [Jobs -> {"none", "login", "requestAccounts", "sign", "send", "status"}]
  /\ stage \in [Jobs -> {"idle", "waiting", "verifying", "signed", "polling", "polled",
                         "done", "failed"}]
  /\ \A j \in Jobs : reply[j] \in Answers \cup {NoAnswer}
  /\ onchain \in [Jobs -> {"none", "pending", "confirmed", "failed"}]
  /\ calls \in [Jobs -> {"none", "pending", "confirmed", "failed"}]
  /\ chainId \in Chains
  /\ dapp \in [connected : BOOLEAN, wallet : Wallets \cup {NoWallet}]

(* Whatever callbacks arrive - of pages whose session was dismissed, of a  *)
(* process that died - the account an app is connected to is one that its  *)
(* own page, of this very connect(), was answered with.                    *)
ConnectedIsProven ==
  [][current' # current /\ current' # NoKey =>
       \E j \in Jobs : /\ stage[j] = "verifying" /\ stage'[j] = "done"
                       /\ reply[j].from = j /\ current' = reply[j].key]_vars

(* A request that the browser serves is one the app still waits for, and   *)
(* the other way round: no answer of the platform, of a page or of a dying *)
(* process leaves a session that blocks the next, or a promise without one.*)
SessionsAreAwaited ==
  running => sessions = {j \in Jobs : stage[j] = "waiting"}

(* What a signing request resolves to is a signature: neither a refusal    *)
(* nor the answer to a sign-in that came home late.                        *)
SignedIsASignature ==
  \A j \in Jobs : verb[j] \in {"sign", "send"} /\ stage[j] \in {"signed", "done"} /\ reply[j] # NoAnswer
                    => reply[j].kind = "sign" /\ reply[j].key # NoKey

(* Once it is rendered, an app never shows itself signed in without an     *)
(* account: also after a start from what an older version left in storage. *)
StatusHasAccount ==
  running => (snap.status <=> snap.key # NoKey) /\ (Status <=> Account # NoKey)

(* Whenever the client's own verbs move the account, its subscribers are   *)
(* told the state as it then is.  (What eth_requestAccounts moves they do  *)
(* not learn.)                                                             *)
ClientVerbsAreSeen ==
  [][Account' # Account /\ running' =>
       \/ snap'.key = Account' /\ prev'.wallet = Wallet(Account')
       \/ \E j \in Jobs : verb[j] = "requestAccounts" /\ stage'[j] = "done"]_vars

(* A person is signed in by a ceremony only: a logout signs out, and from  *)
(* then on neither a restart, nor what storage kept, nor a late answer to  *)
(* a request that was abandoned brings an account back.                    *)
LoggedOutStaysOut ==
  [][/\ Logout => Account' = NoKey
     /\ Account = NoKey /\ Account' # NoKey => \E j \in Jobs : stage[j] = "verifying"]_vars

(* How the account of an app moves.                                        *)
AccountMovesInTheOpen == ClientVerbsAreSeen /\ LoggedOutStaysOut

(* However polls overlap and endpoints lag, a call reported as included is *)
(* included, with the outcome that was reported.                           *)
ReportedIsTrue ==
  \A j \in Jobs : told[j] \in {"confirmed", "failed"} => onchain[j] = told[j]

(* What every state of the app keeps: types, sessions and promises that    *)
(* belong together, signatures that are signatures, a status with an       *)
(* account, and reports that are true of the chain.                        *)
ProviderInv ==
  /\ ProviderTypeOK
  /\ SessionsAreAwaited
  /\ SignedIsASignature
  /\ StatusHasAccount
  /\ ReportedIsTrue

(* Every request comes to an end once the user leaves what stays silent:   *)
(* again and again, nothing is under way.                                  *)
RequestsSettle ==
  []<>(\A j \in Jobs : stage[j] \in {"idle", "done", "failed"})
=============================================================================
