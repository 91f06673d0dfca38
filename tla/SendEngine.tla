----------------------------- MODULE SendEngine -----------------------------
(***************************************************************************)
(* simulate, send and wait of the EVM client (core/src/client/evm.ts).     *)
(*                                                                         *)
(* A job is one call of simulate or of send.  Between two steps of a job   *)
(* the code awaits a store, an endpoint or the user, and anything else may *)
(* happen: other jobs, blocks, a reload, another account.  A send either   *)
(* builds its own batch or reuses the one of an earlier simulate.          *)
(*                                                                         *)
(* Calls, gas and prices are left out: what a batch does is to run or not  *)
(* to run.                                                                 *)
(***************************************************************************)
EXTENDS NonceAllocator, Chain

CONSTANTS
  Simulations, \* the jobs that are calls of simulate; the others are calls of send
  KeysOn,      \* the keys a page may be connected with, one at a time
  CanSponsor,  \* a paymaster and a bundler are configured
  Endpoints,   \* number of RPC endpoints, tried in order
  MaxReloads   \* bound on the reloads of pages

ASSUME SendAssumption ==
  /\ KeysOn \in [Pages -> SUBSET Keys] /\ \A p \in Pages : KeysOn[p] # {}
  /\ WalletOf \in [Keys -> Keys] /\ \A k \in Keys : WalletOf[WalletOf[k]] = WalletOf[k]
  /\ Wallets = Founding /\ NoAuth \notin Nat /\ Unset \notin Nat /\ NoJob \notin Jobs
  /\ Simulations \subseteq Jobs /\ Endpoints \in Nat \ {0}
  /\ StoreOf \in [Pages -> Stores] /\ Pages # {}

VARIABLES
  session,   \* the key of the account a page is connected with
  phase,     \* where a job is
  page,      \* the page a job runs in
  rail,      \* "sponsored" or "native-gas"
  source,    \* the job that built the batch a job uses
  batch,     \* the resolved batch of a job that built one: wallet, auth
  draft,     \* the transaction or the user operation a job prepared
  endpoint,  \* the RPC endpoint the broadcast of a job is at
  receipt,   \* the status of the receipt a send returned
  reloads    \* how often pages were reloaded

plan == <<page, rail, source>>
jobVars == <<phase, plan, batch, draft, endpoint, receipt>>
world == <<allocVars, chainVars, session, reloads>>
vars == <<world, jobVars>>

NoBatch == [wallet |-> CHOOSE w \in Wallets : TRUE, auth |-> NoAuth]
NoDraft == [nonce |-> 0, auth |-> NoAuth]

(* The steps a job makes while it is neither unborn nor over.              *)
Resolving == {"next", "load", "persist", "getCode", "getTransactionCount"}
Preparing == {"prepareSponsored", "txNonce"}
Awaiting == Resolving \cup Preparing \cup {"sign", "send"}

InitialJobs ==
  /\ phase = [j \in Jobs |-> "idle"]
  /\ page \in [Jobs -> Pages]
  /\ rail = [j \in Jobs |-> "native-gas"]
  /\ source = [j \in Jobs |-> j]
  /\ batch = [j \in Jobs |-> NoBatch]
  /\ draft = [j \in Jobs |-> NoDraft]
  /\ endpoint = [j \in Jobs |-> 1]
  /\ receipt = [j \in Jobs |-> "none"]

Init ==
  /\ AllocInit /\ ChainInit /\ InitialJobs
  /\ session \in {s \in [Pages -> Keys] : \A p \in Pages : s[p] \in KeysOn[p]}
  /\ reloads = 0

Goto(j, there) == phase' = [phase EXCEPT ![j] = there]
BatchOf(j) == batch[source[j]]
WalletIn(p) == WalletOf[session[p]]

(* resolveSponsorship: asking for a rail that is not configured throws     *)
(* before anything is resolved.                                            *)
Served(r) == r = "sponsored" => CanSponsor

(* A job that throws leaves nothing behind in its page.                    *)
Throws(j) ==
  /\ Goto(j, "thrown")
  /\ batch' = [batch EXCEPT ![j] = NoBatch]
  /\ draft' = [draft EXCEPT ![j] = NoDraft]
  /\ endpoint' = [endpoint EXCEPT ![j] = 1]
  /\ UNCHANGED <<plan, receipt>>

(* send(calls) and simulate(calls): the account is read, and the batch     *)
(* will be for its wallet.                                                 *)
Call(j, r) ==
  /\ phase[j] = "idle"
  /\ rail' = [rail EXCEPT ![j] = r]
  /\ batch' = [batch EXCEPT ![j] = [wallet |-> WalletIn(page[j]), auth |-> NoAuth]]
  /\ Goto(j, IF Served(r) THEN "next" ELSE "thrown")
  /\ UNCHANGED <<world, page, source, draft, endpoint, receipt>>

(* Mutant: the operation is prepared afresh, as if the quote were not kept. *)
ReuseBatchOnly(j, s) ==
  /\ phase[j] = "idle"
  /\ j \notin Simulations /\ s \in Simulations /\ phase[s] = "done" /\ page[s] = page[j]
  /\ source' = [source EXCEPT ![j] = s]
  /\ rail' = [rail EXCEPT ![j] = rail[s]]
  /\ draft' = [draft EXCEPT ![j] = draft[s]]
  /\ Goto(j, IF rail[s] = "sponsored" THEN "prepareSponsored" ELSE "txNonce")
  /\ UNCHANGED <<world, page, batch, endpoint, receipt>>

(* send(simulation): its batch and its prepared operation are used again.  *)
Reuse(j, s) ==
  /\ phase[j] = "idle"
  /\ j \notin Simulations /\ s \in Simulations /\ phase[s] = "done" /\ page[s] = page[j]
  /\ source' = [source EXCEPT ![j] = s]
  /\ rail' = [rail EXCEPT ![j] = rail[s]]
  /\ draft' = [draft EXCEPT ![j] = draft[s]]
  /\ Goto(j, IF rail[s] = "sponsored" THEN "sign" ELSE "txNonce")
  /\ UNCHANGED <<world, page, batch, endpoint, receipt>>

(* buildBatch takes an intent nonce ...                                    *)
NextNonce(j) ==
  /\ phase[j] = "next"
  /\ \/ NextFromMemory(j, page[j], batch[j].wallet) /\ Goto(j, "persist")
     \/ NextFromStore(j, page[j], batch[j].wallet) /\ Goto(j, "load")
  /\ UNCHANGED <<chainVars, session, reloads, plan, batch, draft, endpoint, receipt>>

Load(j) ==
  /\ phase[j] = "load"
  /\ Loaded(j, page[j], batch[j].wallet)
  /\ Goto(j, "persist")
  /\ UNCHANGED <<chainVars, session, reloads, plan, batch, draft, endpoint, receipt>>

Persist(j) ==
  /\ phase[j] = "persist"
  /\ \/ /\ Persisted(j, page[j], batch[j].wallet) /\ Goto(j, "getCode")
        /\ UNCHANGED <<plan, batch, draft, endpoint, receipt>>
     \/ PersistFailed(j, page[j]) /\ Throws(j)
  /\ UNCHANGED <<chainVars, session, reloads>>

(* ... and leanResolve reads the code of the wallet: an undelegated one    *)
(* gets an authorization over its account nonce, read next.                *)
AfterResolve(j) ==
  IF rail[j] = "sponsored" THEN "prepareSponsored"
  ELSE IF j \in Simulations THEN "done" ELSE "txNonce"

GetCode(j) ==
  /\ phase[j] = "getCode"
  /\ Goto(j, IF batch[j].wallet \in delegated THEN AfterResolve(j) ELSE "getTransactionCount")
  /\ UNCHANGED <<world, plan, batch, draft, endpoint, receipt>>

GetTransactionCount(j) ==
  /\ phase[j] = "getTransactionCount"
  /\ batch' = [batch EXCEPT ![j].auth = count[batch[j].wallet]]
  /\ Goto(j, AfterResolve(j))
  /\ UNCHANGED <<world, plan, draft, endpoint, receipt>>

(* prepareSponsoredUserOp: the EntryPoint nonce, then the handshake with   *)
(* the paymaster and the estimate of the bundler, which may each fail.     *)
PrepareSponsored(j) ==
  /\ phase[j] = "prepareSponsored"
  /\ draft' = [draft EXCEPT ![j] = [nonce |-> opCount[BatchOf(j).wallet], auth |-> BatchOf(j).auth]]
  /\ Goto(j, IF j \in Simulations THEN "done" ELSE "sign")
  /\ UNCHANGED <<world, plan, batch, endpoint, receipt>>

(* Mutant: the nonce of the transaction itself. *)
AuthorizationOverSame(j, nonce) == IF BatchOf(j).auth = NoAuth THEN NoAuth ELSE nonce

(* A native-gas send reads the account nonce of the key that will sign,    *)
(* and asks for the authorization to be signed over the one after it.      *)
AuthorizationOver(j, nonce) == IF BatchOf(j).auth = NoAuth THEN NoAuth ELSE nonce + 1

TxNonce(j) ==
  /\ phase[j] = "txNonce"
  /\ LET nonce == count[session[page[j]]]
     IN draft' = [draft EXCEPT ![j] = [nonce |-> nonce, auth |-> AuthorizationOver(j, nonce)]]
  /\ Goto(j, "sign")
  /\ UNCHANGED <<world, plan, batch, endpoint, receipt>>

(* Any endpoint may fail before anything was signed; the user may reject.  *)
Fail(j) ==
  /\ phase[j] \in (Resolving \cup Preparing \cup {"sign"}) \ {"next", "load", "persist"}
  /\ Throws(j) /\ UNCHANGED world

(* performSign: a roster key does not authorize a delegation.  The key is  *)
(* the one of the account the page is connected with now.                  *)
MaySign(key, auth) == auth # NoAuth => WalletOf[key] = key

Signed(j) ==
  LET key == session[page[j]] IN
  IF rail[j] = "sponsored"
  THEN [source |-> source[j], sender |-> BatchOf(j).wallet, signer |-> key,
        nonce |-> draft[j].nonce, auth |-> draft[j].auth]
  ELSE [source |-> source[j], to |-> BatchOf(j).wallet, from |-> key,
        nonce |-> draft[j].nonce, auth |-> draft[j].auth]

Sign(j) ==
  /\ phase[j] = "sign"
  /\ IF MaySign(session[page[j]], draft[j].auth)
     THEN /\ draft' = [draft EXCEPT ![j] = Signed(j)] /\ Goto(j, "send")
          /\ UNCHANGED <<world, plan, batch, endpoint, receipt>>
     ELSE Throws(j) /\ UNCHANGED world

(* The receipt of a broadcast: submitted on the chain, pending in a bundler. *)
HandOff(j, status) ==
  /\ Goto(j, "done")
  /\ receipt' = [receipt EXCEPT ![j] = status]
  /\ endpoint' = [endpoint EXCEPT ![j] = 1]
  /\ UNCHANGED <<plan, batch, draft>>

(* A transport error moves the broadcast to the next endpoint; after the   *)
(* last one it throws.                                                     *)
FailOver(j) ==
  IF endpoint[j] < Endpoints
  THEN /\ endpoint' = [endpoint EXCEPT ![j] = @ + 1]
       /\ UNCHANGED <<phase, plan, batch, draft, receipt>>
  ELSE Throws(j)

(* What a node, or the bundler, answers to something it was sent: taken    *)
(* and answered; taken, and the answer is lost; lost before it was taken;  *)
(* refused because it is known, too low, or in the way of another one.     *)
SendRawTransaction(j) ==
  /\ phase[j] = "send" /\ rail[j] = "native-gas"
  /\ \/ Admit(draft[j]) /\ (HandOff(j, "submitted") \/ FailOver(j))
     \/ UNCHANGED pool /\ FailOver(j)
     \/ (TooLow(draft[j]) \/ Taken(draft[j])) /\ UNCHANGED pool /\ Throws(j)
  /\ UNCHANGED <<allocVars, session, reloads, count, opCount, delegated, opPool, mined>>

SendUserOperation(j) ==
  /\ phase[j] = "send" /\ rail[j] = "sponsored"
  /\ \/ /\ OpValid(draft[j])
        /\ opPool' = {o \in opPool : o.sender # draft[j].sender} \cup {draft[j]}
        /\ HandOff(j, "pending") \/ Throws(j)
     \/ UNCHANGED opPool /\ Throws(j)
  /\ UNCHANGED <<allocVars, session, reloads, count, opCount, delegated, pool, mined>>

(* Mutant: a receipt is a success, whatever its status. *)
SettledByReceipt(fates) == "confirmed"

(* wait, and a poll of its status: a receipt of the chain or the bundler   *)
(* settles it; none, or an endpoint that fails, leaves it as it is.        *)
Settled(fates) ==
  IF fates \subseteq {"executed", "nothing"} THEN "confirmed" ELSE "failed"

Wait(j) ==
  /\ phase[j] = "done" /\ receipt[j] # "none" /\ FateOf(draft[j]) # {}
  /\ receipt' = [receipt EXCEPT ![j] = Settled(FateOf(draft[j]))]
  /\ UNCHANGED <<world, phase, plan, batch, draft, endpoint>>

(* The user connects another account in the same page.                     *)
Switch(p) ==
  /\ \E k \in KeysOn[p] \ {session[p]} : session' = [session EXCEPT ![p] = k]
  /\ UNCHANGED <<allocVars, chainVars, jobVars, reloads>>

(* A reload ends the jobs of a page, and takes their simulations with it;  *)
(* receipts are kept by the application, and waited for again.             *)
Reload(p) ==
  /\ reloads < MaxReloads /\ reloads' = reloads + 1
  /\ AllocReload(p, [j \in Jobs |-> batch[j].wallet])
  /\ LET ended == {j \in Jobs : page[j] = p /\ phase[j] # "idle" /\ receipt[j] = "none"}
     IN /\ phase' = [j \in Jobs |-> IF j \in ended THEN "thrown" ELSE phase[j]]
        /\ batch' = [j \in Jobs |-> IF j \in ended THEN NoBatch ELSE batch[j]]
        /\ draft' = [j \in Jobs |-> IF j \in ended THEN NoDraft ELSE draft[j]]
        /\ endpoint' = [j \in Jobs |-> IF j \in ended THEN 1 ELSE endpoint[j]]
  /\ UNCHANGED <<chainVars, session, plan, receipt>>

Asked(j) ==
  \/ \E r \in {"sponsored", "native-gas"} : Call(j, r)
  \/ \E s \in Jobs : Reuse(j, s)

JobStep(j) ==
  \/ Asked(j) \/ NextNonce(j) \/ Load(j) \/ Persist(j) \/ GetCode(j) \/ GetTransactionCount(j)
  \/ PrepareSponsored(j) \/ TxNonce(j) \/ Fail(j) \/ Sign(j)
  \/ SendRawTransaction(j) \/ SendUserOperation(j) \/ Wait(j)

Next ==
  \/ \E j \in Jobs : JobStep(j)
  \/ \E p \in Pages : Switch(p) \/ Reload(p)
  \/ ChainStep /\ UNCHANGED <<allocVars, session, jobVars, reloads>>

Spec == Init /\ [][Next]_vars
=============================================================================
