-------------------------------- MODULE Keeper --------------------------------
(***************************************************************************)
(* Keepers, contracts/script/keeper.mjs, one per attestor, against the     *)
(* registry of contracts/src/KeyRegistry.sol and one identity provider.    *)
(*                                                                         *)
(* A keeper is a script that is run again and again.  A run reads its      *)
(* state file and the keys the provider serves, plans attestations,        *)
(* submits them one after the other, and writes the state file at the end. *)
(* A submitted transaction waits behind those the account sent before it,  *)
(* and transactions of other accounts may overtake it; the keeper waits    *)
(* for its receipt.  A run that finds nothing to do changes nothing.       *)
(*                                                                         *)
(* No call of a keeper reads a contest or the time, so the composition     *)
(* leaves the contests and the clock of the registry alone.                *)
(***************************************************************************)
EXTENDS KeyRegistry, SequencesExt

CONSTANTS
  Kid,          \* key identifiers the provider uses
  Hash,         \* key hashes
  NoHash,       \* no entry
  Fault,        \* what may go wrong: "fetch", "rpc", "receipt", "crash"
  MaxFaults,    \* bound: faults
  MaxKeyChanges \* bound: changes of the provider's keys

ASSUME KeeperAssumption ==
  /\ IsFiniteSet(Kid)
  /\ Kid \X Hash \subseteq Record
  /\ NoHash \notin Hash
  /\ Fault \subseteq {"fetch", "rpc", "receipt", "crash"}
  /\ MaxFaults \in Nat
  /\ MaxKeyChanges \in Nat

VARIABLES
  live,      \* the provider's keys: kid -> hash or NoHash
  seen,      \* attestor -> its state file: kid -> hash or NoHash
  plan,      \* attestor -> the items of its present run; <<>> between runs
  mempool,   \* attestor -> its transactions not yet mined, by nonce
  keyChanges,
  faults,
  published, \* history: records the provider has served
  dropped    \* history: records the provider has ceased to serve

keeperVars == <<seen, plan, mempool, faults>>
providerVars == <<live, keyChanges, published, dropped>>
allVars == <<registryVars, keeperVars, providerVars>>

\* An item of a plan is "new", then "sent", then "ok" or "failed".
Item == [ action : {"attest", "attestRotated"}, kid : Kid, hash : Hash,
          status : {"new", "sent", "ok", "failed"} ]

NewItem(action, kid, hash) == [action |-> action, kid |-> kid, hash |-> hash, status |-> "new"]

-------------------------------------------------------------------------------
(* The provider *)

Serve(kid, hash) ==
  /\ keyChanges < MaxKeyChanges
  /\ hash # live[kid]
  /\ keyChanges' = keyChanges + 1
  /\ live' = [live EXCEPT ![kid] = hash]
  /\ published' = IF hash = NoHash THEN published ELSE published \cup {<<kid, hash>>}
  /\ dropped' = IF live[kid] = NoHash THEN dropped ELSE dropped \cup {<<kid, live[kid]>>}
  /\ UNCHANGED <<registryVars, keeperVars>>

-------------------------------------------------------------------------------
(* One run of a keeper *)

\* A known kid, never looked at again.
PlanLiveOnce(kid, old) ==
  IF live[kid] = NoHash \/ old # NoHash THEN <<>> ELSE << NewItem("attest", kid, live[kid]) >>

\* A new hash that takes the place of the old one.
PlanLiveForgetsOld(kid, old) ==
  IF live[kid] = NoHash \/ live[kid] = old THEN <<>> ELSE << NewItem("attest", kid, live[kid]) >>

\* The calls a kid asks for: its old hash is attested rotated out, before its
\* new one is attested.
PlanLive(kid, old) ==
  IF live[kid] = NoHash \/ live[kid] = old
  THEN <<>>
  ELSE IF old = NoHash
       THEN << NewItem("attest", kid, live[kid]) >>
       ELSE << NewItem("attestRotated", kid, old), NewItem("attest", kid, live[kid]) >>

PlanGone(kid, old) ==
  IF live[kid] = NoHash /\ old # NoHash THEN << NewItem("attestRotated", kid, old) >> ELSE <<>>

\* First the keys the provider serves, then those it serves no longer.
Plan(state) ==
  LET kids == SetToSeq(Kid)
  IN  FlattenSeq([ i \in 1..Len(kids) |-> PlanLive(kids[i], state[kids[i]]) ])
      \o FlattenSeq([ i \in 1..Len(kids) |-> PlanGone(kids[i], state[kids[i]]) ])

Start(a) ==
  /\ plan[a] = <<>>
  /\ Plan(seen[a]) # <<>>
  /\ plan' = [plan EXCEPT ![a] = Plan(seen[a])]
  /\ UNCHANGED <<registryVars, providerVars, seen, mempool, faults>>

\* The loop is at the i-th item of a's plan.
At(a, i) ==
  /\ i \in 1..Len(plan[a])
  /\ plan[a][i].status \in {"new", "sent"}
  /\ \A j \in 1..(i - 1) : plan[a][j].status \in {"ok", "failed"}

Mark(a, i, status) == plan' = [plan EXCEPT ![a][i].status = status]

Tx(a, item) == [from |-> a, action |-> item.action, record |-> <<item.kid, item.hash>>]

WouldSucceed(tx) ==
  \/ tx.action = "attest" /\ MayAttest(tx.from, tx.record)
  \/ tx.action = "attestRotated" /\ MayAttestRotated(tx.from, tx.record)

\* The reason the registry gives, its checks in their order.
RevertsAlreadyAttested(tx) ==
  /\ tx.from \in isAttestor
  /\ \/ /\ tx.action = "attest"
        /\ tx.record \in FieldRecord
        /\ <<tx.record, tx.from>> \in hasAttested
     \/ /\ tx.action = "attestRotated"
        /\ Known(tx.record)
        /\ records[tx.record].validUntil = 0
        /\ <<tx.record, tx.from>> \in hasRotated

\* The call succeeds in the estimate and is broadcast.
Submit(a, i) ==
  /\ At(a, i)
  /\ plan[a][i].status = "new"
  /\ WouldSucceed(Tx(a, plan[a][i]))
  /\ mempool' = [mempool EXCEPT ![a] = Append(@, Tx(a, plan[a][i]))]
  /\ Mark(a, i, "sent")
  /\ UNCHANGED <<registryVars, providerVars, seen, faults>>

\* The call reverts in the estimate.  AlreadyAttested is fine, provided the
\* message names it: the keeper's ABI declares no errors, so the node has to.
Rejected(a, i) ==
  LET tx == Tx(a, plan[a][i])
  IN  /\ At(a, i)
      /\ plan[a][i].status = "new"
      /\ ~WouldSucceed(tx)
      /\ \/ Mark(a, i, "failed")
         \/ RevertsAlreadyAttested(tx) /\ Mark(a, i, "ok")
      /\ UNCHANGED <<registryVars, providerVars, seen, mempool, faults>>

\* The receipt of the account's last transaction is there.  It counts as
\* success, whatever its status says.
Receipt(a, i) ==
  /\ At(a, i)
  /\ plan[a][i].status = "sent"
  /\ mempool[a] = <<>>
  /\ Mark(a, i, "ok")
  /\ UNCHANGED <<registryVars, providerVars, seen, mempool, faults>>

Finished(a) == plan[a] # <<>> /\ \A i \in 1..Len(plan[a]) : plan[a][i].status \in {"ok", "failed"}

\* The update of the state file, in the order of the plan: the last item of a
\* kid that landed is what is written of it.
Landed(state, items) ==
  [ kid \in Kid |->
      LET ok == { i \in 1..Len(items) : items[i].kid = kid /\ items[i].status = "ok" }
          last == items[Max(ok)]
      IN  IF ok = {} THEN state[kid] ELSE IF last.action = "attest" THEN last.hash ELSE NoHash ]

SaveEverything(a) ==
  /\ Finished(a)
  /\ seen' = [seen EXCEPT ![a] = Landed(@, [i \in 1..Len(plan[a]) |-> [plan[a][i] EXCEPT !.status = "ok"]])]
  /\ plan' = [plan EXCEPT ![a] = <<>>]
  /\ UNCHANGED <<registryVars, providerVars, mempool, faults>>

Save(a) ==
  /\ Finished(a)
  /\ seen' = [seen EXCEPT ![a] = Landed(@, plan[a])]
  /\ plan' = [plan EXCEPT ![a] = <<>>]
  /\ UNCHANGED <<registryVars, providerVars, mempool, faults>>

-------------------------------------------------------------------------------
(* What goes wrong *)

Failing(fault) == fault \in Fault /\ faults < MaxFaults /\ faults' = faults + 1

FetchIsEmpty(a) ==
  /\ Failing("fetch")
  /\ plan[a] = <<>>
  /\ \E kid \in Kid : seen[a][kid] # NoHash
  /\ plan' = [plan EXCEPT ![a] =
       LET kids == SetToSeq({ kid \in Kid : seen[a][kid] # NoHash })
       IN  [ i \in 1..Len(kids) |-> NewItem("attestRotated", kids[i], seen[a][kids[i]]) ]]
  /\ UNCHANGED <<registryVars, providerVars, seen, mempool>>

\* The provider's keys cannot be fetched: the run skips it, and neither attests
\* nor rotates any of its keys.
FetchFails(a) ==
  /\ Failing("fetch")
  /\ plan[a] = <<>>
  /\ UNCHANGED <<registryVars, providerVars, seen, plan, mempool>>

\* The call never leaves the keeper: an RPC error, a nonce error.
RpcFails(a, i) ==
  /\ Failing("rpc")
  /\ At(a, i)
  /\ plan[a][i].status = "new"
  /\ Mark(a, i, "failed")
  /\ UNCHANGED <<registryVars, providerVars, seen, mempool>>

\* The keeper stops waiting for the receipt; the transaction goes its way.
ReceiptLost(a, i) ==
  /\ Failing("receipt")
  /\ At(a, i)
  /\ plan[a][i].status = "sent"
  /\ Mark(a, i, "failed")
  /\ UNCHANGED <<registryVars, providerVars, seen, mempool>>

\* The process ends before it has written the state file.
Crash(a) ==
  /\ Failing("crash")
  /\ plan[a] # <<>>
  /\ plan' = [plan EXCEPT ![a] = <<>>]
  /\ UNCHANGED <<registryVars, providerVars, seen, mempool>>

-------------------------------------------------------------------------------
(* The chain *)

Mine(a) ==
  /\ mempool[a] # <<>>
  /\ mempool' = [mempool EXCEPT ![a] = Tail(@)]
  /\ LET tx == Head(mempool[a])
     IN  \/ tx.action = "attest" /\ Attest(a, tx.record)
         \/ tx.action = "attestRotated" /\ AttestRotated(a, tx.record)
         \/ ~WouldSucceed(tx) /\ UNCHANGED registryVars
  /\ UNCHANGED <<providerVars, seen, plan, faults>>

-------------------------------------------------------------------------------
(* Specification *)

KeeperInit ==
  /\ RegistryInit
  /\ live = [kid \in Kid |-> NoHash]
  /\ seen = [a \in Attestor |-> [kid \in Kid |-> NoHash]]
  /\ plan = [a \in Attestor |-> <<>>]
  /\ mempool = [a \in Attestor |-> <<>>]
  /\ keyChanges = 0
  /\ faults = 0
  /\ published = {}
  /\ dropped = {}

Progress(a) ==
  \/ Start(a)
  \/ \E i \in 1..Len(plan[a]) : Submit(a, i) \/ Rejected(a, i) \/ Receipt(a, i)
  \/ Save(a)

KeeperNext ==
  \/ \E kid \in Kid, hash \in Hash \cup {NoHash} : Serve(kid, hash)
  \/ \E a \in Attestor : Progress(a)
  \/ \E a \in Attestor : \E i \in 1..Len(plan[a]) : RpcFails(a, i) \/ ReceiptLost(a, i)
  \/ \E a \in Attestor : FetchFails(a) \/ Crash(a)
  \/ \E a \in Attestor : Mine(a)

KeeperSpec == KeeperInit /\ [][KeeperNext]_allVars

\* Keepers are run on a schedule, and the chain mines what it is sent.
KeeperFairness ==
  /\ \A a \in Attestor : WF_allVars(Progress(a))
  /\ \A a \in Attestor : WF_allVars(Mine(a))

FairKeeperSpec == KeeperSpec /\ KeeperFairness

-----------------------------------------------------------------------------
(***************************************************************************)
(* What keepers and the registry together must never do, and must          *)
(* eventually do.                                                          *)
(***************************************************************************)

\* The type of the state files, the plans, the mempool and the provider; a plan
\* is worked off in its order, one transaction at a time.
KeeperTypeOK ==
  /\ live \in [Kid -> Hash \cup {NoHash}]
  /\ seen \in [Attestor -> [Kid -> Hash \cup {NoHash}]]
  /\ \A a \in Attestor : \A i \in 1..Len(plan[a]) :
       /\ plan[a][i] \in Item
       /\ plan[a][i].status # "new" => \A j \in 1..(i - 1) : plan[a][j].status \in {"ok", "failed"}
  /\ \A a \in Attestor : \A i \in 1..Len(mempool[a]) :
       mempool[a][i] \in [ from : {a}, action : {"attest", "attestRotated"}, record : Record ]

\* keeper.mjs:176: "an item we never actually got on-chain must stay out of
\* `state`": what a state file says is attested is attested on chain, through
\* lost receipts, crashes, reruns and transactions that are mined late.
SeenIsOnChain ==
  \A a \in Attestor, kid \in Kid :
    seen[a][kid] # NoHash => <<<<kid, seen[a][kid]>>, a>> \in hasAttested

\* Keepers report the provider: they attest only keys it has served, and
\* rotate out, irrevocably, only keys it has ceased to serve.
KeepersReportTheProvider ==
  \A a \in Attestor, r \in Record :
    /\ <<r, a>> \in hasAttested => r \in published
    /\ <<r, a>> \in hasRotated => r \in dropped

\* What every state of the keepers, their files and the chain keeps: types, and
\* that files claim no more than the chain, and the chain no more than the
\* provider, through lost receipts, crashes and late transactions.
KeeperInv ==
  /\ KeeperTypeOK
  /\ SeenIsOnChain
  /\ KeepersReportTheProvider

\* A key the provider keeps serving is attested by every attestor in the end,
\* whatever was lost on the way.
LiveKeysGetAttested ==
  \A a \in Attestor, r \in FieldRecord :
    live[r[1]] = r[2] ~> (<<r, a>> \in hasAttested \/ live[r[1]] # r[2])

\* A key an attestor has attested, and the provider serves no longer, is
\* attested rotated by it in the end, or is rotated already, or something was
\* lost on the way.
DroppedKeysGetRotated ==
  \A a \in Attestor, r \in FieldRecord :
    (<<r, a>> \in hasAttested /\ live[r[1]] # r[2])
      ~> (<<r, a>> \in hasRotated \/ records[r].validUntil # 0 \/ live[r[1]] = r[2] \/ faults # 0)
===============================================================================
