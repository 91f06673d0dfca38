-------------------------- MODULE SendEngineProofs --------------------------
(***************************************************************************)
(* For any number of jobs, pages, wallets, accounts and reloads, whichever *)
(* writes fail or land after their page is gone, and whatever answers are  *)
(* lost: a page of its own store never hands out an intent nonce twice, a  *)
(* sponsored quote is executed once, what is said to be confirmed was      *)
(* executed, and a page whose keys are of one wallet implements Delivery.  *)
(***************************************************************************)
EXTENDS SendEngineSafety, TLAPS

(* Pages that share a store may hand out the same number: nonce.ts:40      *)
(* leaves the loser to the contract.                                       *)
OwnStores == \A p, q \in Pages : StoreOf[p] = StoreOf[q] => p = q

Allocating == {"load", "persist"}
Later == {"getCode", "getTransactionCount", "prepareSponsored", "txNonce", "sign", "send", "done"}

(* The types the allocator rests on.                                       *)
JobShapes ==
  /\ phase \in [Jobs -> {"idle", "next", "thrown"} \cup Allocating \cup Later]
  /\ page \in [Jobs -> Pages]
  /\ session \in [Pages -> Keys]
  /\ DOMAIN batch = Jobs /\ DOMAIN receipt = Jobs
  /\ \A j \in Jobs : /\ batch[j] = [wallet |-> batch[j].wallet, auth |-> batch[j].auth]
                     /\ batch[j].wallet \in Wallets

(* tail: the one allocation of a page.                                     *)
OneAllocation ==
  /\ \A j \in Jobs : phase[j] \in Allocating => tail[page[j]] = j
  /\ \A p \in Pages : tail[p] # NoJob => page[tail[p]] = p /\ phase[tail[p]] \in Allocating

(* Who took a number and did not throw, and where the number is kept.      *)
Holds(j) == current[j] # Unset /\ phase[j] # "thrown"
Counter(j) == counters[page[j]][batch[j].wallet]
Stored(j) == stored[StoreOf[page[j]]][batch[j].wallet]
Compete(i, j) == i # j /\ page[i] = page[j] /\ batch[i].wallet = batch[j].wallet

(* A number is below the next one of memory and, once handed out, of the   *)
(* store; the number of the running allocation is above all others.        *)
TakenInOrder ==
  /\ \A j \in Jobs : phase[j] \in {"idle", "next", "load"} => current[j] = Unset
  /\ \A j \in Jobs : phase[j] = "persist" => current[j] # Unset
  /\ \A j \in Jobs : Holds(j) /\ Counter(j) # Unset => current[j] < Counter(j)
  /\ \A j \in Jobs : HandedOut(j) => current[j] < Stored(j)
  /\ \A i, j \in Jobs : HandedOut(i) /\ phase[j] = "persist" /\ Compete(i, j) => current[i] < current[j]

ReceiptsAreOfTheDone == \A j \in Jobs : receipt[j] # "none" => phase[j] = "done"

INonces == AllocTypeOK /\ JobShapes /\ OneAllocation /\ TakenInOrder /\ ReceiptsAreOfTheDone
        /\ IntentNoncesDistinct

(* A step of a job that is not allocating, seen from the allocator.        *)
Elsewhere(j) ==
  \/ phase'[j] = phase[j] /\ batch'[j].wallet = batch[j].wallet /\ receipt'[j] = receipt[j]
  \/ phase'[j] = "thrown" /\ phase[j] \notin Allocating \cup {"done"} /\ receipt'[j] = receipt[j]
  \/ phase[j] \in Later /\ phase'[j] \in Later /\ batch'[j].wallet = batch[j].wallet
     /\ phase[j] # "done" /\ (receipt'[j] # "none" => phase'[j] = "done" \/ receipt'[j] = receipt[j])
  \/ phase[j] = "idle" /\ phase'[j] \in {"next"} \cup Later /\ receipt'[j] = receipt[j]
  \/ phase[j] = "done" /\ phase'[j] = "done" /\ batch'[j].wallet = batch[j].wallet

-----------------------------------------------------------------------------
LEMMA WalletsExist ==
  ASSUME JobShapes
  PROVE  /\ \A p \in Pages : WalletIn(p) \in Wallets
         /\ NoBatch.wallet \in Wallets
<1>1. \A k \in Keys : WalletOf[k] \in Wallets
  BY SendAssumption DEF Founding
<1>2. \A p \in Pages : WalletIn(p) \in Wallets
  BY <1>1 DEF JobShapes, WalletIn
<1>3. Wallets # {}
  BY <1>2, SendAssumption
<1> QED
  BY <1>2, <1>3 DEF NoBatch

LEMMA ElsewhereKeeps ==
  ASSUME INonces, JobShapes', UNCHANGED <<counters, stored, tail, current, page>>,
         \A j \in Jobs : Elsewhere(j)
  PROVE  INonces'
<1> USE DEF INonces
<1>1. AllocTypeOK'
  BY DEF AllocTypeOK
<1>2. OneAllocation'
  <2>1. \A j \in Jobs : phase'[j] \in Allocating <=> phase[j] \in Allocating
    BY DEF JobShapes, Elsewhere, Allocating, Later
  <2>2. \A p \in Pages : tail[p] # NoJob => tail[p] \in Jobs
    BY DEF AllocTypeOK
  <2> QED
    BY <2>1, <2>2 DEF OneAllocation, Allocating
<1>3. \A j \in Jobs : Holds(j)' => Holds(j) /\ batch'[j].wallet = batch[j].wallet
  BY DEF Holds, TakenInOrder, JobShapes, Elsewhere, Allocating, Later
<1>4. \A j \in Jobs : HandedOut(j)' => HandedOut(j) /\ batch'[j].wallet = batch[j].wallet
  BY DEF HandedOut, TakenInOrder, JobShapes, Elsewhere, Allocating, Later
<1>5. \A j \in Jobs : phase'[j] = "persist" => phase[j] = "persist" /\ batch'[j].wallet = batch[j].wallet
  BY DEF JobShapes, Elsewhere, Allocating, Later
<1>6. TakenInOrder'
  <2>1. \A j \in Jobs : phase'[j] \in {"idle", "next", "load"} => current'[j] = Unset
    BY DEF TakenInOrder, JobShapes, Elsewhere, Allocating, Later
  <2>2. \A j \in Jobs : Holds(j)' /\ Counter(j)' # Unset => current'[j] < Counter(j)'
    BY <1>3 DEF TakenInOrder, Counter
  <2>3. \A j \in Jobs : HandedOut(j)' => current'[j] < Stored(j)'
    BY <1>4 DEF TakenInOrder, Stored
  <2>4. \A i, j \in Jobs : HandedOut(i)' /\ phase'[j] = "persist" /\ Compete(i, j)' => current'[i] < current'[j]
    BY <1>4, <1>5 DEF TakenInOrder, Compete
  <2> QED
    BY <1>5, <2>1, <2>2, <2>3, <2>4 DEF TakenInOrder
<1>7. ReceiptsAreOfTheDone'
  BY DEF ReceiptsAreOfTheDone, JobShapes, Elsewhere, Allocating, Later
<1>8. IntentNoncesDistinct'
  BY <1>4 DEF IntentNoncesDistinct
<1> QED
  BY <1>1, <1>2, <1>6, <1>7, <1>8

AllPhases == {"idle", "next", "thrown"} \cup Allocating \cup Later

(* A job goes to another step, and may end with it.                        *)
LEMMA GoingOn ==
  ASSUME JobShapes, NEW j \in Jobs, NEW there \in AllPhases, Goto(j, there),
         UNCHANGED <<page, batch, session>>, DOMAIN receipt' = Jobs
  PROVE  /\ JobShapes' /\ phase'[j] = there
         /\ \A i \in Jobs \ {j} : phase'[i] = phase[i]
<1>1. phase' \in [Jobs -> AllPhases] /\ phase'[j] = there /\ \A i \in Jobs \ {j} : phase'[i] = phase[i]
  BY DEF JobShapes, Goto, AllPhases
<1> QED
  BY <1>1 DEF JobShapes, AllPhases

LEMMA Throwing ==
  ASSUME JobShapes, NEW j \in Jobs, Throws(j), UNCHANGED session
  PROVE  /\ JobShapes' /\ phase'[j] = "thrown" /\ UNCHANGED <<page, receipt>>
         /\ \A i \in Jobs \ {j} : phase'[i] = phase[i] /\ batch'[i] = batch[i]
<1>1. /\ phase' \in [Jobs -> AllPhases] /\ phase'[j] = "thrown"
      /\ \A i \in Jobs \ {j} : phase'[i] = phase[i]
  BY DEF JobShapes, Throws, Goto, AllPhases
<1>2. /\ DOMAIN batch' = Jobs /\ batch'[j] = NoBatch
      /\ \A i \in Jobs \ {j} : batch'[i] = batch[i]
  BY DEF JobShapes, Throws
<1>3. NoBatch.wallet \in Wallets /\ NoBatch = [wallet |-> NoBatch.wallet, auth |-> NoBatch.auth]
  BY WalletsExist DEF NoBatch
<1> QED
  BY <1>1, <1>2, <1>3 DEF JobShapes, Throws, plan, AllPhases

(* What throws while it is not allocating is over.                         *)
LEMMA ThrowStep ==
  ASSUME INonces, NEW j \in Jobs, phase[j] \notin Allocating \cup {"done"}, Throws(j),
         UNCHANGED <<allocVars, session>>
  PROVE  INonces'
<1>1. /\ JobShapes' /\ phase'[j] = "thrown" /\ UNCHANGED <<page, receipt>>
      /\ \A i \in Jobs \ {j} : phase'[i] = phase[i] /\ batch'[i] = batch[i]
  BY Throwing DEF INonces
<1>2. \A i \in Jobs : Elsewhere(i)
  BY <1>1 DEF Elsewhere
<1> QED
  BY <1>1, <1>2, ElsewhereKeeps DEF allocVars

(* What goes on behind an allocation.                                      *)
LEMMA GoOnStep ==
  ASSUME INonces, NEW j \in Jobs, NEW there \in Later, phase[j] \in Later \ {"done"}, Goto(j, there),
         UNCHANGED <<allocVars, session, page, batch, receipt>>
  PROVE  INonces'
<1>1. JobShapes' /\ phase'[j] = there /\ \A i \in Jobs \ {j} : phase'[i] = phase[i]
  BY GoingOn DEF INonces, JobShapes, AllPhases
<1>2. \A i \in Jobs : Elsewhere(i)
  BY <1>1 DEF Elsewhere
<1> QED
  BY <1>1, <1>2, ElsewhereKeeps DEF allocVars

LEMMA HandOffStep ==
  ASSUME INonces, NEW j \in Jobs, NEW status, phase[j] = "send", HandOff(j, status),
         UNCHANGED <<allocVars, session>>
  PROVE  INonces'
<1>1. UNCHANGED <<page, batch>> /\ DOMAIN receipt' = Jobs /\ Goto(j, "done")
      /\ \A i \in Jobs \ {j} : receipt'[i] = receipt[i]
  BY DEF HandOff, plan, INonces, JobShapes
<1>2. JobShapes' /\ phase'[j] = "done" /\ \A i \in Jobs \ {j} : phase'[i] = phase[i]
  BY <1>1, GoingOn DEF INonces, AllPhases, Later
<1>3. \A i \in Jobs : Elsewhere(i)
  BY <1>1, <1>2 DEF Elsewhere, Later
<1> QED
  BY <1>1, <1>2, <1>3, ElsewhereKeeps DEF allocVars

(* Nothing moves but the world around the jobs.                            *)
LEMMA WorldStep ==
  ASSUME INonces, UNCHANGED <<allocVars, phase, page, batch>>, session' \in [Pages -> Keys],
         DOMAIN receipt' = Jobs, \A j \in Jobs : receipt'[j] # receipt[j] => phase[j] = "done"
  PROVE  INonces'
<1>1. JobShapes'
  BY DEF INonces, JobShapes
<1>2. \A i \in Jobs : Elsewhere(i)
  BY DEF Elsewhere
<1> QED
  BY <1>1, <1>2, ElsewhereKeeps DEF allocVars

-----------------------------------------------------------------------------
(* The steps of a job that do not allocate.                                *)

LEMMA CallStep ==
  ASSUME INonces, NEW j \in Jobs, NEW r, Call(j, r)
  PROVE  INonces'
<1>1. PICK there \in {"next", "thrown"} : Goto(j, there)
  BY DEF Call
<1>2. /\ phase' \in [Jobs -> AllPhases] /\ phase'[j] = there
      /\ \A i \in Jobs \ {j} : phase'[i] = phase[i]
  BY <1>1 DEF INonces, JobShapes, Goto, AllPhases
<1>3. /\ DOMAIN batch' = Jobs /\ \A i \in Jobs \ {j} : batch'[i] = batch[i]
      /\ batch'[j] = [wallet |-> WalletIn(page[j]), auth |-> NoAuth]
  BY DEF Call, INonces, JobShapes
<1>4. WalletIn(page[j]) \in Wallets
  BY WalletsExist DEF INonces, JobShapes
<1>5. UNCHANGED <<allocVars, session, page, receipt>> /\ phase[j] = "idle"
  BY DEF Call, world
<1>6. JobShapes'
  BY <1>2, <1>3, <1>4, <1>5 DEF INonces, JobShapes, AllPhases
<1>7. \A i \in Jobs : Elsewhere(i)
  BY <1>2, <1>3, <1>5 DEF Elsewhere, Allocating
<1> QED
  BY <1>5, <1>6, <1>7, ElsewhereKeeps DEF allocVars

LEMMA ReuseStep ==
  ASSUME INonces, NEW j \in Jobs, NEW s \in Jobs, Reuse(j, s)
  PROVE  INonces'
<1>1. PICK there \in {"sign", "txNonce"} : Goto(j, there)
  BY DEF Reuse
<1>2. UNCHANGED <<allocVars, session, page, batch, receipt>> /\ phase[j] = "idle"
  BY DEF Reuse, world
<1>3. JobShapes' /\ phase'[j] = there /\ \A i \in Jobs \ {j} : phase'[i] = phase[i]
  BY <1>1, <1>2, GoingOn DEF INonces, JobShapes, AllPhases, Later
<1>4. \A i \in Jobs : Elsewhere(i)
  BY <1>2, <1>3 DEF Elsewhere, Later
<1> QED
  BY <1>2, <1>3, <1>4, ElsewhereKeeps DEF allocVars

LEMMA GetCodeStep ==
  ASSUME INonces, NEW j \in Jobs, GetCode(j)
  PROVE  INonces'
<1>1. PICK there \in Later : Goto(j, there)
  BY DEF GetCode, AfterResolve, Later
<1> QED
  BY <1>1, GoOnStep DEF GetCode, world, plan, Later

LEMMA TransactionCountStep ==
  ASSUME INonces, NEW j \in Jobs, GetTransactionCount(j)
  PROVE  INonces'
<1>1. PICK there \in Later : Goto(j, there)
  BY DEF GetTransactionCount, AfterResolve, Later
<1>2. UNCHANGED <<allocVars, session, page, receipt>> /\ phase[j] = "getTransactionCount"
  BY DEF GetTransactionCount, world, plan
<1>3. /\ phase' \in [Jobs -> AllPhases] /\ phase'[j] = there
      /\ \A i \in Jobs \ {j} : phase'[i] = phase[i]
  BY <1>1 DEF INonces, JobShapes, Goto, AllPhases
<1>4. /\ DOMAIN batch' = Jobs /\ \A i \in Jobs \ {j} : batch'[i] = batch[i]
      /\ batch'[j] = [wallet |-> batch[j].wallet, auth |-> count[batch[j].wallet]]
  BY DEF GetTransactionCount, INonces, JobShapes
<1>5. JobShapes'
  BY <1>2, <1>3, <1>4 DEF INonces, JobShapes, AllPhases
<1>6. \A i \in Jobs : Elsewhere(i)
  BY <1>2, <1>3, <1>4 DEF Elsewhere, Later
<1> QED
  BY <1>2, <1>5, <1>6, ElsewhereKeeps DEF allocVars

LEMMA PrepareStep ==
  ASSUME INonces, NEW j \in Jobs, PrepareSponsored(j) \/ TxNonce(j)
  PROVE  INonces'
<1>1. PICK there \in Later : Goto(j, there)
  BY DEF PrepareSponsored, TxNonce, Later
<1> QED
  BY <1>1, GoOnStep DEF PrepareSponsored, TxNonce, world, plan, Later

LEMMA FailStep ==
  ASSUME INonces, NEW j \in Jobs, Fail(j)
  PROVE  INonces'
BY ThrowStep DEF Fail, world, Resolving, Preparing, Allocating

LEMMA SignStep ==
  ASSUME INonces, NEW j \in Jobs, Sign(j)
  PROVE  INonces'
<1>1. CASE Throws(j) /\ UNCHANGED world
  BY <1>1, ThrowStep DEF Sign, world, Allocating
<1>2. CASE Goto(j, "send") /\ UNCHANGED <<world, plan, batch, endpoint, receipt>>
  BY <1>2, GoOnStep DEF Sign, world, plan, Later
<1> QED
  BY <1>1, <1>2 DEF Sign

LEMMA FailOverStep ==
  ASSUME INonces, NEW j \in Jobs, phase[j] = "send", FailOver(j), UNCHANGED <<allocVars, session>>
  PROVE  INonces'
<1>1. CASE Throws(j)
  BY <1>1, ThrowStep DEF Allocating
<1>2. CASE UNCHANGED <<phase, plan, batch, draft, receipt>>
  BY <1>2, WorldStep DEF plan, INonces, JobShapes
<1> QED
  BY <1>1, <1>2 DEF FailOver

LEMMA BroadcastStep ==
  ASSUME INonces, NEW j \in Jobs, SendRawTransaction(j) \/ SendUserOperation(j)
  PROVE  INonces'
<1>1. UNCHANGED <<allocVars, session>> /\ phase[j] = "send"
  BY DEF SendRawTransaction, SendUserOperation
<1>2. CASE Throws(j)
  BY <1>1, <1>2, ThrowStep DEF Allocating
<1>3. CASE FailOver(j)
  BY <1>1, <1>3, FailOverStep
<1>4. CASE HandOff(j, "submitted") \/ HandOff(j, "pending")
  BY <1>1, <1>4, HandOffStep
<1> QED
  BY <1>2, <1>3, <1>4 DEF SendRawTransaction, SendUserOperation

LEMMA WaitStep ==
  ASSUME INonces, NEW j \in Jobs, Wait(j)
  PROVE  INonces'
<1>1. /\ DOMAIN receipt' = Jobs /\ phase[j] = "done"
      /\ \A i \in Jobs : receipt'[i] # receipt[i] => i = j
  BY DEF Wait, INonces, JobShapes
<1> QED
  BY <1>1, WorldStep DEF Wait, world, plan, INonces, JobShapes

-----------------------------------------------------------------------------
(* The allocator.                                                          *)

(* A job that allocates is the one its page runs.                          *)
LEMMA AllocationStarts ==
  ASSUME OneAllocation, AllocTypeOK, JobShapes, NEW j \in Jobs, phase'[j] \in Allocating,
         \A i \in Jobs \ {j} : phase'[i] = phase[i],
         tail[page[j]] \in {j, NoJob}, tail' = [tail EXCEPT ![page[j]] = j], page' = page
  PROVE  OneAllocation'
<1>1. page[j] \in Pages /\ tail'[page[j]] = j /\ \A p \in Pages \ {page[j]} : tail'[p] = tail[p]
  BY DEF AllocTypeOK, JobShapes
<1>2. ASSUME NEW i \in Jobs, phase'[i] \in Allocating
      PROVE  tail'[page[i]] = i
  <2>1. CASE i = j
    BY <1>1, <2>1
  <2>2. CASE i # j
    <3>1. tail[page[i]] = i /\ page[i] \in Pages
      BY <1>2, <2>2 DEF OneAllocation, JobShapes
    <3>2. page[i] # page[j]
      BY <2>2, <3>1, SendAssumption
    <3> QED
      BY <1>1, <3>1, <3>2
  <2> QED
    BY <2>1, <2>2
<1>3. ASSUME NEW p \in Pages, tail'[p] # NoJob
      PROVE  page[tail'[p]] = p /\ phase'[tail'[p]] \in Allocating
  <2>1. CASE p = page[j]
    BY <1>1, <2>1
  <2>2. CASE p # page[j]
    <3>1. tail'[p] = tail[p] /\ tail[p] \in Jobs
      BY <1>1, <1>3, <2>2 DEF AllocTypeOK
    <3>2. page[tail[p]] = p /\ phase[tail[p]] \in Allocating
      BY <1>3, <3>1 DEF OneAllocation
    <3> QED
      BY <2>2, <3>1, <3>2
  <2> QED
    BY <2>1, <2>2
<1> QED
  BY <1>2, <1>3 DEF OneAllocation, Allocating

(* A job waits for its number: nothing is taken yet.                       *)
LEMMA FromStoreStep ==
  ASSUME INonces, NEW j \in Jobs, phase[j] = "next", NextFromStore(j, page[j], batch[j].wallet),
         Goto(j, "load"), UNCHANGED <<session, page, batch, receipt>>
  PROVE  INonces'
<1>1. JobShapes' /\ phase'[j] = "load" /\ \A i \in Jobs \ {j} : phase'[i] = phase[i]
  BY GoingOn DEF INonces, JobShapes, AllPhases, Allocating
<1>2. /\ tail[page[j]] = NoJob /\ tail' = [tail EXCEPT ![page[j]] = j]
      /\ UNCHANGED <<counters, stored, current>>
  BY DEF NextFromStore
<1>3. page[j] \in Pages
  BY DEF INonces, JobShapes
<1>4. AllocTypeOK'
  BY <1>2, <1>3 DEF INonces, AllocTypeOK
<1>5. OneAllocation'
  BY <1>1, <1>2, AllocationStarts DEF INonces, Allocating
<1>6. TakenInOrder' /\ IntentNoncesDistinct'
  <2>1. \A i \in Jobs : /\ Holds(i)' => Holds(i)
                        /\ HandedOut(i)' => HandedOut(i)
                        /\ phase'[i] = "persist" => phase[i] = "persist"
                        /\ phase'[i] \in {"idle", "next", "load"} => phase[i] \in {"idle", "next", "load"}
    BY <1>1, <1>2 DEF INonces, TakenInOrder, Holds, HandedOut
  <2>2. \A i \in Jobs : Counter(i)' = Counter(i) /\ Stored(i)' = Stored(i)
    BY <1>2 DEF Counter, Stored
  <2>3. current' = current /\ page' = page /\ batch' = batch
    BY <1>2
  <2>4. TakenInOrder'
    <3>1. \A i, k \in Jobs : Compete(i, k)' <=> Compete(i, k)
      BY <2>3 DEF Compete
    <3>2. \A i, k \in Jobs : HandedOut(i)' /\ phase'[k] = "persist" /\ Compete(i, k)' => current'[i] < current'[k]
      BY <2>1, <2>3, <3>1 DEF INonces, TakenInOrder, HandedOut, Compete
    <3>3. \A i \in Jobs : /\ Holds(i)' /\ Counter(i)' # Unset => current'[i] < Counter(i)'
                          /\ HandedOut(i)' => current'[i] < Stored(i)'
      BY <2>1, <2>2, <2>3 DEF INonces, TakenInOrder, HandedOut, Holds
    <3>4. \A i \in Jobs : /\ phase'[i] \in {"idle", "next", "load"} => current'[i] = Unset
                          /\ phase'[i] = "persist" => current'[i] # Unset
      BY <2>1, <2>3 DEF INonces, TakenInOrder
    <3> QED
      BY <3>2, <3>3, <3>4 DEF TakenInOrder, HandedOut, Holds, Compete
  <2>5. IntentNoncesDistinct'
    BY <2>1, <2>3 DEF INonces, IntentNoncesDistinct, HandedOut
  <2> QED
    BY <2>4, <2>5
<1>7. ReceiptsAreOfTheDone'
  BY <1>1 DEF INonces, ReceiptsAreOfTheDone
<1> QED
  BY <1>1, <1>4, <1>5, <1>6, <1>7 DEF INonces

(* The number is taken, from memory or from the store.                     *)
LEMMA TakeStep ==
  ASSUME INonces, NEW j \in Jobs, NEW n \in Nat, phase[j] \in {"next", "load"},
         Take(j, page[j], batch[j].wallet, n), Goto(j, "persist"),
         tail[page[j]] \in {j, NoJob}, tail' = [tail EXCEPT ![page[j]] = j],
         UNCHANGED <<session, page, batch, receipt, stored>>,
         \A i \in Jobs : HandedOut(i) /\ Compete(i, j) => current[i] < n
  PROVE  INonces'
<1>1. JobShapes' /\ phase'[j] = "persist" /\ \A i \in Jobs \ {j} : phase'[i] = phase[i]
  BY GoingOn DEF INonces, JobShapes, AllPhases, Allocating
<1>2. page[j] \in Pages /\ batch[j].wallet \in Wallets
  BY DEF INonces, JobShapes
<1>3. /\ current' = [current EXCEPT ![j] = n]
      /\ counters' = [counters EXCEPT ![page[j]] = [counters[page[j]] EXCEPT ![batch[j].wallet] = n + 1]]
  BY <1>2 DEF Take, INonces, AllocTypeOK
<1>4. current'[j] = n /\ \A i \in Jobs \ {j} : current'[i] = current[i]
  BY <1>3 DEF INonces, AllocTypeOK
<1>5. AllocTypeOK'
  <2>1. counters' \in [Pages -> [Wallets -> Nat \cup {Unset}]]
    BY <1>2, <1>3 DEF INonces, AllocTypeOK
  <2> QED
    BY <1>2, <1>3, <2>1 DEF INonces, AllocTypeOK
<1>6. OneAllocation'
  BY <1>1, AllocationStarts DEF INonces, Allocating
<1>7. \A i \in Jobs \ {j} : page[i] = page[j] => phase[i] \notin Allocating
  BY SendAssumption DEF INonces, OneAllocation
<1>8. \A i \in Jobs \ {j} : /\ Holds(i)' = Holds(i)
                            /\ HandedOut(i)' = HandedOut(i)
  BY <1>1, <1>4 DEF Holds, HandedOut
<1>9. ~HandedOut(j)'
  BY <1>1 DEF HandedOut
<1>10. \A i \in Jobs : HandedOut(i)' /\ Compete(i, j)' => current'[i] < n
  BY <1>4, <1>8, <1>9 DEF Compete
<1>11. \A i \in Jobs : Holds(i)' /\ Counter(i)' # Unset => current'[i] < Counter(i)'
  <2> SUFFICES ASSUME NEW i \in Jobs, Holds(i)', Counter(i)' # Unset
               PROVE  current'[i] < Counter(i)'
    OBVIOUS
  <2>1. page[i] \in Pages /\ batch[i].wallet \in Wallets
    BY DEF INonces, JobShapes
  <2>2. CASE page[i] = page[j] /\ batch[i].wallet = batch[j].wallet
    <3>1. Counter(i)' = n + 1
      BY <1>2, <1>3, <2>2 DEF Counter, INonces, AllocTypeOK
    <3>2. CASE i = j
      BY <1>4, <3>1, <3>2
    <3>3. CASE i # j
      <4>1. HandedOut(i)'
        BY <1>1, <1>7, <2>2, <3>3 DEF Holds, HandedOut, Allocating
      <4>2. current'[i] < n /\ current'[i] \in Nat
        BY <1>5, <1>10, <2>2, <3>3, <4>1 DEF Compete, AllocTypeOK, HandedOut
      <4> QED
        BY <3>1, <4>2
    <3> QED
      BY <3>2, <3>3
  <2>3. CASE ~(page[i] = page[j] /\ batch[i].wallet = batch[j].wallet)
    <3>1. Counter(i)' = Counter(i) /\ i # j
      BY <1>2, <1>3, <2>1, <2>3 DEF Counter, INonces, AllocTypeOK
    <3> QED
      BY <1>4, <1>8, <3>1 DEF INonces, TakenInOrder
  <2> QED
    BY <2>2, <2>3
<1>12. TakenInOrder'
  <2>1. \A i \in Jobs : phase'[i] \in {"idle", "next", "load"} => current'[i] = Unset
    BY <1>1, <1>4 DEF INonces, TakenInOrder
  <2>2. \A i \in Jobs : phase'[i] = "persist" => current'[i] # Unset
    BY <1>1, <1>4, SendAssumption DEF INonces, TakenInOrder
  <2>3. \A i \in Jobs : HandedOut(i)' => current'[i] < Stored(i)'
    BY <1>4, <1>8, <1>9 DEF INonces, TakenInOrder, Stored
  <2>4. ASSUME NEW i \in Jobs, NEW k \in Jobs, HandedOut(i)', phase'[k] = "persist", Compete(i, k)'
        PROVE  current'[i] < current'[k]
    <3>1. CASE k = j
      BY <1>4, <1>10, <2>4, <3>1
    <3>2. CASE k # j
      BY <1>1, <1>4, <1>8, <1>9, <2>4, <3>2 DEF INonces, TakenInOrder, Compete
    <3> QED
      BY <3>1, <3>2
  <2> QED
    BY <1>11, <2>1, <2>2, <2>3, <2>4 DEF TakenInOrder
<1>13. IntentNoncesDistinct'
  BY <1>4, <1>8, <1>9 DEF INonces, IntentNoncesDistinct
<1>14. ReceiptsAreOfTheDone'
  BY <1>1 DEF INonces, ReceiptsAreOfTheDone
<1> QED
  BY <1>1, <1>5, <1>6, <1>12, <1>13, <1>14 DEF INonces

LEMMA NextNonceStep ==
  ASSUME INonces, NEW j \in Jobs, NextNonce(j)
  PROVE  INonces'
<1> DEFINE w == batch[j].wallet  p == page[j]
<1>1. phase[j] = "next" /\ UNCHANGED <<session, page, batch, receipt>>
  BY DEF NextNonce, plan
<1>2. CASE NextFromMemory(j, p, w) /\ Goto(j, "persist")
  <2>1. counters[p][w] \in Nat
    BY <1>2 DEF NextFromMemory, INonces, AllocTypeOK, JobShapes
  <2>2. /\ tail[p] = NoJob /\ tail' = [tail EXCEPT ![p] = j] /\ UNCHANGED stored
        /\ Take(j, p, w, counters[p][w])
    BY <1>2 DEF NextFromMemory
  <2>3. \A i \in Jobs : HandedOut(i) /\ Compete(i, j) => current[i] < counters[p][w]
    BY <2>1, SendAssumption DEF INonces, TakenInOrder, HandedOut, Holds, Compete, Counter
  <2> QED
    BY <1>1, <1>2, <2>1, <2>2, <2>3, TakeStep
<1>3. CASE NextFromStore(j, p, w) /\ Goto(j, "load")
  BY <1>1, <1>3, FromStoreStep
<1> QED
  BY <1>2, <1>3 DEF NextNonce

LEMMA LoadStep ==
  ASSUME INonces, NEW j \in Jobs, Load(j)
  PROVE  INonces'
<1> DEFINE w == batch[j].wallet  p == page[j]  n == stored[StoreOf[p]][w]
<1>1. /\ phase[j] = "load" /\ Goto(j, "persist") /\ UNCHANGED <<session, page, batch, receipt, stored>>
      /\ tail[p] = j /\ Take(j, p, w, n) /\ tail' = tail
  BY DEF Load, Loaded, plan
<1>2. n \in Nat
  BY SendAssumption DEF INonces, AllocTypeOK, JobShapes
<1>3. tail' = [tail EXCEPT ![p] = j]
  BY <1>1 DEF INonces, AllocTypeOK
<1>4. \A i \in Jobs : HandedOut(i) /\ Compete(i, j) => current[i] < n
  BY DEF INonces, TakenInOrder, Compete, Stored
<1> QED
  BY <1>1, <1>2, <1>3, <1>4, TakeStep

(* An allocation ends.                                                     *)
LEMMA AllocationEnds ==
  ASSUME OneAllocation, AllocTypeOK, JobShapes, NEW j \in Jobs, tail[page[j]] = j, phase'[j] \notin Allocating,
         \A i \in Jobs \ {j} : phase'[i] = phase[i],
         tail' = [tail EXCEPT ![page[j]] = NoJob], page' = page
  PROVE  OneAllocation'
<1>1. page[j] \in Pages /\ tail'[page[j]] = NoJob /\ \A p \in Pages \ {page[j]} : tail'[p] = tail[p]
  BY DEF AllocTypeOK, JobShapes
<1>2. ASSUME NEW i \in Jobs, phase'[i] \in Allocating
      PROVE  tail'[page[i]] = i
  <2>1. i # j /\ tail[page[i]] = i /\ page[i] \in Pages
    BY <1>2 DEF OneAllocation, JobShapes
  <2>2. page[i] # page[j]
    BY <2>1
  <2> QED
    BY <1>1, <2>1, <2>2
<1>3. ASSUME NEW p \in Pages, tail'[p] # NoJob
      PROVE  page[tail'[p]] = p /\ phase'[tail'[p]] \in Allocating
  <2>1. p # page[j] /\ tail'[p] = tail[p] /\ tail[p] \in Jobs
    BY <1>1, <1>3 DEF AllocTypeOK
  <2>2. page[tail[p]] = p /\ phase[tail[p]] \in Allocating
    BY <1>3, <2>1 DEF OneAllocation
  <2> QED
    BY <2>1, <2>2
<1> QED
  BY <1>2, <1>3 DEF OneAllocation, Allocating

(* The write ends: the number is handed out, below what the store holds.   *)
LEMMA PersistedStep ==
  ASSUME INonces, OwnStores, NEW j \in Jobs, phase[j] = "persist", Persisted(j, page[j], batch[j].wallet),
         Goto(j, "getCode"), UNCHANGED <<session, page, batch, receipt>>
  PROVE  INonces'
<1> DEFINE w == batch[j].wallet  s == StoreOf[page[j]]
<1>1. JobShapes' /\ phase'[j] = "getCode" /\ \A i \in Jobs \ {j} : phase'[i] = phase[i]
  BY GoingOn DEF INonces, JobShapes, AllPhases, Later
<1>2. /\ tail[page[j]] = j /\ tail' = [tail EXCEPT ![page[j]] = NoJob]
      /\ UNCHANGED <<counters, current>>
      /\ stored' = [stored EXCEPT ![s] = [stored[s] EXCEPT ![w] = current[j] + 1]]
  BY DEF Persisted
<1>3. page[j] \in Pages /\ w \in Wallets /\ s \in Stores /\ current[j] \in Nat
  BY SendAssumption DEF INonces, JobShapes, TakenInOrder, AllocTypeOK
<1>4. AllocTypeOK'
  <2>1. stored' \in [Stores -> [Wallets -> Nat]]
    BY <1>2, <1>3 DEF INonces, AllocTypeOK
  <2> QED
    BY <1>2, <1>3, <2>1 DEF INonces, AllocTypeOK
<1>5. OneAllocation'
  BY <1>1, <1>2, AllocationEnds DEF INonces, Allocating
<1>6. \A i \in Jobs \ {j} : /\ HandedOut(i)' <=> HandedOut(i)
                            /\ Holds(i)' <=> Holds(i)
  BY <1>1, <1>2 DEF HandedOut, Holds
<1>7. Holds(j)
  BY <1>3, SendAssumption DEF Holds
<1>8. \A i \in Jobs \ {j} : page[i] = page[j] => phase[i] # "persist"
  BY <1>2 DEF INonces, OneAllocation, Allocating
<1>9. current' = current /\ page' = page /\ batch' = batch /\ counters' = counters
  BY <1>2
<1>10. TakenInOrder'
  <2>1. \A i \in Jobs : /\ phase'[i] \in {"idle", "next", "load"} => current'[i] = Unset
                        /\ phase'[i] = "persist" => current'[i] # Unset
    BY <1>1, <1>9 DEF INonces, TakenInOrder
  <2>2. \A i \in Jobs : Holds(i)' /\ Counter(i)' # Unset => current'[i] < Counter(i)'
    BY <1>6, <1>7, <1>9 DEF INonces, TakenInOrder, Counter
  <2>3. ASSUME NEW i \in Jobs, HandedOut(i)'
        PROVE  current'[i] < Stored(i)'
    <3>1. StoreOf[page[i]] \in Stores /\ batch[i].wallet \in Wallets /\ page[i] \in Pages
      BY SendAssumption DEF INonces, JobShapes
    <3>2. CASE page[i] = page[j] /\ batch[i].wallet = w
      <4>1. Stored(i)' = current[j] + 1
        BY <1>2, <1>3, <1>9, <3>2 DEF Stored, INonces, AllocTypeOK
      <4>2. CASE i = j
        BY <1>3, <1>9, <4>1, <4>2
      <4>3. CASE i # j
        <5>1. current[i] < current[j]
          BY <1>6, <2>3, <3>2, <4>3 DEF INonces, TakenInOrder, Compete
        <5>2. current[i] \in Nat
          BY <1>6, <2>3, <4>3 DEF HandedOut, INonces, AllocTypeOK
        <5> QED
          BY <1>3, <1>9, <4>1, <5>1, <5>2
      <4> QED
        BY <4>2, <4>3
    <3>3. CASE ~(page[i] = page[j] /\ batch[i].wallet = w)
      <4>1. i # j
        BY <3>3
      <4>2. StoreOf[page[i]] # s \/ batch[i].wallet # w
        BY <1>3, <3>1, <3>3 DEF OwnStores
      <4>3. Stored(i)' = Stored(i)
        BY <1>2, <1>3, <1>9, <3>1, <4>2 DEF Stored, INonces, AllocTypeOK
      <4> QED
        BY <1>6, <1>9, <2>3, <4>1, <4>3 DEF INonces, TakenInOrder
    <3> QED
      BY <3>2, <3>3
  <2>4. ASSUME NEW i \in Jobs, NEW k \in Jobs, HandedOut(i)', phase'[k] = "persist", Compete(i, k)'
        PROVE  current'[i] < current'[k]
    <3>1. k # j /\ phase[k] = "persist" /\ Compete(i, k)
      BY <1>1, <1>9, <2>4 DEF Compete
    <3>2. i # j
      BY <1>8, <3>1 DEF Compete
    <3> QED
      BY <1>6, <1>9, <2>4, <3>1, <3>2 DEF INonces, TakenInOrder
  <2> QED
    BY <2>1, <2>2, <2>3, <2>4 DEF TakenInOrder
<1>11. IntentNoncesDistinct'
  <2> SUFFICES ASSUME NEW i \in Jobs, NEW k \in Jobs, i # k, HandedOut(i)', HandedOut(k)',
                      page[i] = page[k], batch[i].wallet = batch[k].wallet
               PROVE  current[i] # current[k]
    BY <1>9 DEF IntentNoncesDistinct
  <2>1. CASE i # j /\ k # j
    BY <1>6, <2>1 DEF INonces, IntentNoncesDistinct
  <2>2. CASE i = j
    <3>1. current[k] < current[j] /\ current[k] \in Nat
      BY <1>6, <2>2 DEF INonces, TakenInOrder, Compete, HandedOut, AllocTypeOK
    <3> QED
      BY <1>3, <2>2, <3>1
  <2>3. CASE k = j
    <3>1. current[i] < current[j] /\ current[i] \in Nat
      BY <1>6, <2>3 DEF INonces, TakenInOrder, Compete, HandedOut, AllocTypeOK
    <3> QED
      BY <1>3, <2>3, <3>1
  <2> QED
    BY <2>1, <2>2, <2>3
<1>12. ReceiptsAreOfTheDone'
  BY <1>1 DEF INonces, ReceiptsAreOfTheDone
<1> QED
  BY <1>1, <1>4, <1>5, <1>10, <1>11, <1>12 DEF INonces

(* The write fails: the number is skipped.                                 *)
LEMMA PersistFailedStep ==
  ASSUME INonces, NEW j \in Jobs, phase[j] = "persist", PersistFailed(j, page[j]), Throws(j),
         UNCHANGED session
  PROVE  INonces'
<1>1. /\ JobShapes' /\ phase'[j] = "thrown" /\ UNCHANGED <<page, receipt>>
      /\ \A i \in Jobs \ {j} : phase'[i] = phase[i] /\ batch'[i] = batch[i]
  BY Throwing DEF INonces
<1>2. /\ tail[page[j]] = j /\ tail' = [tail EXCEPT ![page[j]] = NoJob]
      /\ UNCHANGED <<counters, stored, current>>
  BY DEF PersistFailed
<1>3. page' = page /\ current' = current /\ counters' = counters /\ stored' = stored /\ receipt' = receipt
  BY <1>1, <1>2
<1>4. AllocTypeOK'
  <2>1. page[j] \in Pages
    BY DEF INonces, JobShapes
  <2> QED
    BY <1>2, <2>1 DEF INonces, AllocTypeOK
<1>5. OneAllocation'
  BY <1>1, <1>2, AllocationEnds DEF INonces, Allocating
<1>6. \A i \in Jobs : Holds(i)' => Holds(i) /\ i # j
  BY <1>1, <1>3 DEF Holds
<1>7. \A i \in Jobs : HandedOut(i)' => HandedOut(i) /\ i # j
  BY <1>1, <1>3 DEF HandedOut
<1>8. \A i \in Jobs : phase'[i] \in {"idle", "next", "load", "persist"} => i # j
  BY <1>1
<1>9. TakenInOrder'
  <2>1. \A i \in Jobs : /\ phase'[i] \in {"idle", "next", "load"} => current'[i] = Unset
                        /\ phase'[i] = "persist" => current'[i] # Unset
    BY <1>1, <1>3, <1>8 DEF INonces, TakenInOrder
  <2>2. \A i \in Jobs : Holds(i)' /\ Counter(i)' # Unset => current'[i] < Counter(i)'
    BY <1>1, <1>3, <1>6 DEF INonces, TakenInOrder, Counter
  <2>3. \A i \in Jobs : HandedOut(i)' => current'[i] < Stored(i)'
    BY <1>1, <1>3, <1>7 DEF INonces, TakenInOrder, Stored
  <2>4. \A i, k \in Jobs : HandedOut(i)' /\ phase'[k] = "persist" /\ Compete(i, k)' => current'[i] < current'[k]
    BY <1>1, <1>3, <1>7, <1>8 DEF INonces, TakenInOrder, Compete
  <2> QED
    BY <2>1, <2>2, <2>3, <2>4 DEF TakenInOrder
<1>10. IntentNoncesDistinct'
  BY <1>1, <1>3, <1>7 DEF INonces, IntentNoncesDistinct
<1>11. ReceiptsAreOfTheDone'
  BY <1>1, <1>3 DEF INonces, ReceiptsAreOfTheDone
<1> QED
  BY <1>1, <1>4, <1>5, <1>9, <1>10, <1>11 DEF INonces

LEMMA PersistStep ==
  ASSUME INonces, OwnStores, NEW j \in Jobs, Persist(j)
  PROVE  INonces'
<1>1. CASE Persisted(j, page[j], batch[j].wallet) /\ Goto(j, "getCode")
           /\ UNCHANGED <<plan, batch, draft, endpoint, receipt>>
  BY <1>1, PersistedStep DEF Persist, plan
<1>2. CASE PersistFailed(j, page[j]) /\ Throws(j)
  BY <1>2, PersistFailedStep DEF Persist
<1> QED
  BY <1>1, <1>2 DEF Persist

-----------------------------------------------------------------------------
(* Pages are switched and reloaded.                                        *)

LEMMA SwitchStep ==
  ASSUME INonces, NEW p \in Pages, Switch(p)
  PROVE  INonces'
<1>1. PICK k \in KeysOn[p] : session' = [session EXCEPT ![p] = k]
  BY DEF Switch
<1>2. k \in Keys
  BY SendAssumption
<1>3. session' \in [Pages -> Keys]
  BY <1>1, <1>2 DEF INonces, JobShapes
<1>4. UNCHANGED <<allocVars, phase, page, batch, receipt>>
  BY DEF Switch, jobVars, plan
<1> QED
  BY <1>3, <1>4, WorldStep DEF INonces, JobShapes

(* A page that is gone forgets its numbers; what it handed out is in the   *)
(* store, and a write that lands after it only raises the store.           *)
LEMMA ReloadStep ==
  ASSUME INonces, OwnStores, NEW p \in Pages, Reload(p)
  PROVE  INonces'
<1> DEFINE ended == {j \in Jobs : page[j] = p /\ phase[j] # "idle" /\ receipt[j] = "none"}
           t == tail[p]
<1>1. /\ phase' = [j \in Jobs |-> IF j \in ended THEN "thrown" ELSE phase[j]]
      /\ batch' = [j \in Jobs |-> IF j \in ended THEN NoBatch ELSE batch[j]]
      /\ page' = page /\ receipt' = receipt /\ session' = session
  BY DEF Reload, plan
<1>2. /\ counters' = [counters EXCEPT ![p] = [w \in Wallets |-> Unset]]
      /\ tail' = [tail EXCEPT ![p] = NoJob] /\ current' = current
  BY DEF Reload, AllocReload
<1>3. \/ stored' = stored
      \/ /\ t \in Jobs /\ current[t] # Unset
         /\ stored' = [stored EXCEPT ![StoreOf[p]][batch[t].wallet] = current[t] + 1]
  BY DEF Reload, AllocReload, INonces, AllocTypeOK
<1> HIDE DEF ended
<1>4. \A j \in Jobs : page[j] # p => j \notin ended
  BY DEF ended
<1>5. \A j \in Jobs \ ended : phase'[j] = phase[j] /\ batch'[j] = batch[j]
  BY <1>1
<1>6. \A j \in ended : phase'[j] = "thrown" /\ batch'[j] = NoBatch
  BY <1>1 DEF ended
<1>7. \A j \in Jobs \ ended : page[j] = p => phase[j] \in {"idle", "done"}
  BY DEF ended, INonces, ReceiptsAreOfTheDone
<1>8. JobShapes'
  <2>1. NoBatch.wallet \in Wallets /\ NoBatch = [wallet |-> NoBatch.wallet, auth |-> NoBatch.auth]
    BY WalletsExist DEF NoBatch, INonces
  <2>2. \A j \in Jobs : /\ batch'[j] = [wallet |-> batch'[j].wallet, auth |-> batch'[j].auth]
                        /\ batch'[j].wallet \in Wallets
    BY <1>5, <1>6, <2>1 DEF INonces, JobShapes
  <2>3. phase' \in [Jobs -> AllPhases]
    BY <1>1 DEF INonces, JobShapes, AllPhases
  <2>4. DOMAIN batch' = Jobs
    BY <1>1
  <2> QED
    BY <1>1, <2>2, <2>3, <2>4 DEF INonces, JobShapes, AllPhases
<1>9. t \in Jobs => page[t] = p /\ phase[t] \in Allocating
  BY SendAssumption DEF INonces, OneAllocation
<1>10. (t \in Jobs /\ current[t] # Unset) => phase[t] = "persist" /\ current[t] \in Nat
  BY <1>9 DEF INonces, TakenInOrder, Allocating, AllocTypeOK
<1>11. AllocTypeOK'
  <2>1. counters' \in [Pages -> [Wallets -> Nat \cup {Unset}]]
    BY <1>2 DEF INonces, AllocTypeOK
  <2>2. stored' \in [Stores -> [Wallets -> Nat]]
    <3>1. CASE stored' = stored
      BY <3>1 DEF INonces, AllocTypeOK
    <3>2. CASE stored' # stored
      <4>1. StoreOf[p] \in Stores /\ batch[t].wallet \in Wallets /\ current[t] + 1 \in Nat
        BY <1>3, <1>10, <3>2, SendAssumption DEF INonces, JobShapes
      <4>2. stored[StoreOf[p]] \in [Wallets -> Nat]
        BY <4>1 DEF INonces, AllocTypeOK
      <4>3. stored' = [stored EXCEPT ![StoreOf[p]] =
                         [stored[StoreOf[p]] EXCEPT ![batch[t].wallet] = current[t] + 1]]
        BY <1>3, <3>2, <4>1 DEF INonces, AllocTypeOK
      <4> QED
        BY <4>1, <4>2, <4>3 DEF INonces, AllocTypeOK
    <3> QED
      BY <3>1, <3>2
  <2> QED
    BY <1>2, <2>1, <2>2 DEF INonces, AllocTypeOK
<1>12. OneAllocation'
  <2>1. tail'[p] = NoJob /\ \A q \in Pages \ {p} : tail'[q] = tail[q]
    BY <1>2 DEF INonces, AllocTypeOK
  <2>2. ASSUME NEW j \in Jobs, phase'[j] \in Allocating
        PROVE  tail'[page[j]] = j
    <3>1. j \notin ended /\ phase[j] \in Allocating
      BY <1>5, <1>6, <2>2 DEF Allocating
    <3>2. page[j] # p /\ page[j] \in Pages
      BY <1>7, <3>1 DEF Allocating, INonces, JobShapes
    <3> QED
      BY <2>1, <3>1, <3>2 DEF INonces, OneAllocation
  <2>3. ASSUME NEW q \in Pages, tail'[q] # NoJob
        PROVE  page[tail'[q]] = q /\ phase'[tail'[q]] \in Allocating
    <3>1. q # p /\ tail'[q] = tail[q] /\ tail[q] \in Jobs
      BY <2>1, <2>3 DEF INonces, AllocTypeOK
    <3>2. page[tail[q]] = q /\ phase[tail[q]] \in Allocating
      BY <2>3, <3>1 DEF INonces, OneAllocation
    <3> QED
      BY <1>4, <1>5, <3>1, <3>2
  <2> QED
    BY <1>1, <2>2, <2>3 DEF OneAllocation
<1>13. \A j \in Jobs : Holds(j)' => Holds(j) /\ j \notin ended
  BY <1>2, <1>5, <1>6 DEF Holds
<1>14. \A j \in Jobs : HandedOut(j)' => HandedOut(j) /\ j \notin ended
  BY <1>2, <1>5, <1>6 DEF HandedOut
<1>15. TakenInOrder'
  <2>1. \A i \in Jobs : /\ phase'[i] \in {"idle", "next", "load"} => current'[i] = Unset
                        /\ phase'[i] = "persist" => current'[i] # Unset
    BY <1>2, <1>5, <1>6 DEF INonces, TakenInOrder
  <2>2. ASSUME NEW i \in Jobs, Holds(i)', Counter(i)' # Unset
        PROVE  current'[i] < Counter(i)'
    <3>1. i \notin ended /\ Holds(i) /\ page[i] \in Pages /\ batch[i].wallet \in Wallets /\ batch'[i] = batch[i]
      BY <1>5, <1>13, <2>2 DEF INonces, JobShapes
    <3>2. CASE page[i] = p
      <4>1. Counter(i)' = Unset
        BY <1>1, <1>2, <3>1, <3>2 DEF Counter, INonces, AllocTypeOK
      <4> QED
        BY <2>2, <4>1
    <3>3. CASE page[i] # p
      <4>1. Counter(i)' = Counter(i)
        BY <1>1, <1>2, <3>1, <3>3 DEF Counter, INonces, AllocTypeOK
      <4> QED
        BY <1>2, <2>2, <3>1, <4>1 DEF INonces, TakenInOrder
    <3> QED
      BY <3>2, <3>3
  <2>3. ASSUME NEW i \in Jobs, HandedOut(i)'
        PROVE  current'[i] < Stored(i)'
    <3>1. HandedOut(i) /\ page[i] \in Pages /\ batch[i].wallet \in Wallets /\ batch'[i] = batch[i]
          /\ StoreOf[page[i]] \in Stores
      BY <1>5, <1>14, <2>3, SendAssumption DEF INonces, JobShapes
    <3>2. current[i] < Stored(i) /\ current[i] \in Nat
      BY <3>1 DEF INonces, TakenInOrder, AllocTypeOK, HandedOut
    <3>3. CASE stored' = stored
      BY <1>1, <1>2, <3>1, <3>2, <3>3 DEF Stored
    <3>4. CASE stored' # stored
      <4>1. /\ t \in Jobs /\ current[t] \in Nat /\ phase[t] = "persist" /\ page[t] = p
            /\ stored' = [stored EXCEPT ![StoreOf[p]][batch[t].wallet] = current[t] + 1]
        BY <1>3, <1>9, <1>10, <3>4
      <4>2. CASE page[i] = p /\ batch[i].wallet = batch[t].wallet
        <5>1. Stored(i)' = current[t] + 1
          BY <1>1, <3>1, <4>1, <4>2 DEF Stored, INonces, AllocTypeOK
        <5>2. i # t
          BY <3>1, <4>1 DEF HandedOut
        <5>3. current[i] < current[t]
          BY <3>1, <4>1, <4>2, <5>2 DEF INonces, TakenInOrder, Compete
        <5> QED
          BY <1>2, <3>2, <4>1, <5>1, <5>3
      <4>3. CASE ~(page[i] = p /\ batch[i].wallet = batch[t].wallet)
        <5>1. StoreOf[page[i]] # StoreOf[p] \/ batch[i].wallet # batch[t].wallet
          BY <3>1, <4>3 DEF OwnStores
        <5>2. Stored(i)' = Stored(i)
          BY <1>1, <3>1, <4>1, <5>1 DEF Stored, INonces, AllocTypeOK
        <5> QED
          BY <1>2, <3>2, <5>2
      <4> QED
        BY <4>2, <4>3
    <3> QED
      BY <3>3, <3>4
  <2>4. ASSUME NEW i \in Jobs, NEW k \in Jobs, HandedOut(i)', phase'[k] = "persist", Compete(i, k)'
        PROVE  current'[i] < current'[k]
    <3>1. k \notin ended /\ i \notin ended /\ HandedOut(i) /\ phase[k] = "persist"
      BY <1>5, <1>6, <1>14, <2>4
    <3>2. Compete(i, k)
      BY <1>1, <1>5, <2>4, <3>1 DEF Compete
    <3> QED
      BY <1>2, <3>1, <3>2 DEF INonces, TakenInOrder
  <2> QED
    BY <2>1, <2>2, <2>3, <2>4 DEF TakenInOrder
<1>16. IntentNoncesDistinct'
  BY <1>1, <1>2, <1>5, <1>14 DEF INonces, IntentNoncesDistinct
<1>17. ReceiptsAreOfTheDone'
  BY <1>1, <1>5 DEF ended, INonces, ReceiptsAreOfTheDone
<1> QED
  BY <1>8, <1>11, <1>12, <1>15, <1>16, <1>17 DEF INonces

-----------------------------------------------------------------------------
LEMMA NoncesInit ==
  ASSUME Init
  PROVE  INonces
<1>1. session \in [Pages -> Keys] /\ page \in [Jobs -> Pages]
  BY DEF Init, InitialJobs
<1>2. \A k \in Keys : WalletOf[k] \in Wallets
  BY SendAssumption DEF Founding
<1>3. Wallets # {}
  BY <1>1, <1>2, SendAssumption
<1>4. NoBatch.wallet \in Wallets /\ NoBatch = [wallet |-> NoBatch.wallet, auth |-> NoBatch.auth]
  BY <1>3 DEF NoBatch
<1>5. JobShapes
  BY <1>1, <1>4 DEF Init, InitialJobs, JobShapes
<1>6. AllocTypeOK
  BY DEF Init, AllocInit, AllocTypeOK
<1>7. OneAllocation /\ ReceiptsAreOfTheDone
  BY DEF Init, AllocInit, InitialJobs, OneAllocation, Allocating, ReceiptsAreOfTheDone
<1>8. TakenInOrder /\ IntentNoncesDistinct
  BY DEF Init, AllocInit, InitialJobs, TakenInOrder, IntentNoncesDistinct, Holds, HandedOut
<1> QED
  BY <1>5, <1>6, <1>7, <1>8 DEF INonces

LEMMA JobNoncesStep ==
  ASSUME INonces, OwnStores, NEW j \in Jobs, JobStep(j)
  PROVE  INonces'
<1>1. CASE Asked(j)
  BY <1>1, CallStep, ReuseStep DEF Asked
<1>2. CASE NextNonce(j) \/ Load(j) \/ Persist(j)
  BY <1>2, NextNonceStep, LoadStep, PersistStep
<1>3. CASE GetCode(j) \/ GetTransactionCount(j) \/ PrepareSponsored(j) \/ TxNonce(j)
  BY <1>3, GetCodeStep, TransactionCountStep, PrepareStep
<1>4. CASE Fail(j) \/ Sign(j) \/ SendRawTransaction(j) \/ SendUserOperation(j) \/ Wait(j)
  BY <1>4, FailStep, SignStep, BroadcastStep, WaitStep
<1> QED
  BY <1>1, <1>2, <1>3, <1>4 DEF JobStep

LEMMA NoncesStep ==
  ASSUME INonces, OwnStores, [Next]_vars
  PROVE  INonces'
<1>1. CASE \E j \in Jobs : JobStep(j)
  BY <1>1, JobNoncesStep
<1>2. CASE \E p \in Pages : Switch(p) \/ Reload(p)
  BY <1>2, SwitchStep, ReloadStep
<1>3. CASE UNCHANGED <<allocVars, session, jobVars, reloads>>
  BY <1>3, WorldStep DEF jobVars, plan, INonces, JobShapes
<1>4. CASE UNCHANGED vars
  BY <1>4, <1>3 DEF vars, world
<1> QED
  BY <1>1, <1>2, <1>3, <1>4 DEF Next

(* The allocator of nonce.ts hands a number out once, for any number of    *)
(* jobs, pages and wallets: through failing writes, accounts switched in   *)
(* the page, and reloads at any point between the read of the counter and  *)
(* the end of the write.                                                   *)
THEOREM NoncesAreHandedOutOnce == OwnStores /\ Spec => []IntentNoncesDistinct
<1> DEFINE I == INonces /\ OwnStores
<1>1. OwnStores /\ Init => I
  BY NoncesInit
<1>2. I /\ [Next]_vars => I'
  BY NoncesStep DEF OwnStores
<1>3. I => IntentNoncesDistinct
  BY DEF INonces
<1> HIDE DEF I
<1> QED
  BY <1>1, <1>2, <1>3, PTL DEF Spec

-----------------------------------------------------------------------------
(***************************************************************************)
(* That a quote runs once: everything that was signed for it has the       *)
(* EntryPoint nonce of its wallet that was read when it was made.          *)
(***************************************************************************)

Early == {"idle", "next", "load", "persist", "getCode", "getTransactionCount", "prepareSponsored"}
Sending == {"txNonce", "sign", "send"}

QuoteShapes ==
  /\ JobShapes
  /\ rail \in [Jobs -> {"sponsored", "native-gas"}]
  /\ source \in [Jobs -> Jobs]
  /\ DOMAIN draft = Jobs
  /\ opCount \in [Wallets -> Nat]
  /\ ReceiptsAreOfTheDone

(* A job that reuses a simulation does so in its page and on its rail, and *)
(* is over when the simulation is gone.                                    *)
Reused(j) ==
  /\ source[j] \in Simulations /\ j \notin Simulations
  /\ page[source[j]] = page[j] /\ rail[source[j]] = rail[j]
  /\ phase[source[j]] \in {"done", "thrown"}
  /\ phase[j] \in Sending => phase[source[j]] = "done"

JobFacts(j) ==
  /\ phase[j] \in Early => source[j] = j
  /\ phase[j] \in Sending => j \notin Simulations
  /\ phase[j] = "send" => draft[j].source = source[j]
  /\ phase[j] = "txNonce" => rail[j] = "native-gas"
  /\ source[j] # j => Reused(j)

SourceFacts == \A j \in Jobs : JobFacts(j)

(* What is under way, or mined, was made by a job that got far enough.     *)
Sent(x) == x.source \in Jobs /\ phase[x.source] \notin Early

PoolFacts ==
  /\ \A t \in pool : Sent(t) /\ rail[t.source] = "native-gas"
  /\ \A o \in opPool : Sent(o) /\ rail[o.source] = "sponsored"
  /\ \A m \in mined : Sent(m.what)

(* The EntryPoint includes one operation for each nonce.                   *)
Sponsored(m) == rail[m.what.source] = "sponsored"

MinedOnce ==
  /\ \A m \in mined : Sponsored(m) =>
       m.what.sender \in Wallets /\ m.what.nonce \in Nat /\ m.what.nonce < opCount[m.what.sender]
  /\ \A m, n \in mined :
       Sponsored(m) /\ Sponsored(n) /\ m.what.sender = n.what.sender /\ m.what.nonce = n.what.nonce
         => m = n

(* All that is prepared, signed, under way or mined from the batch of s    *)
(* spends nonce n of wallet w.                                             *)
Quote(s, w, n) ==
  /\ \A o \in opPool : o.source = s => o.sender = w /\ o.nonce = n
  /\ \A m \in mined : m.what.source = s => m.what.sender = w /\ m.what.nonce = n
  /\ \A j \in Jobs : source[j] = s =>
       /\ phase[j] = "sign" \/ (phase[j] = "done" /\ j \in Simulations) =>
            batch[s].wallet = w /\ draft[j].nonce = n
       /\ phase[j] = "send" => draft[j].sender = w /\ draft[j].nonce = n

OneQuote ==
  \A s \in Jobs : rail[s] = "sponsored" /\ phase[s] \notin Early =>
    \E w \in Wallets, n \in Nat : Quote(s, w, n)

IQuotes == QuoteShapes /\ SourceFacts /\ PoolFacts /\ MinedOnce /\ OneQuote

(* How a step may treat a job of the sponsored rail.                       *)
Prepares(j) == phase[j] = "prepareSponsored" /\ source'[j] = j /\ draft'[j].nonce \in Nat
Stays(j) == phase'[j] = phase[j] /\ source'[j] = source[j] /\ draft'[j] = draft[j]
Quotes(j, s) == s # j /\ s \in Simulations /\ phase[s] = "done" /\ draft'[j] = draft[s]
Signs(j, s) == phase[j] = "sign" /\ s = source[j] /\ draft'[j].sender = batch[s].wallet /\ draft'[j].nonce = draft[j].nonce

Moves(j) ==
  rail'[source'[j]] = "sponsored" =>
    /\ phase'[j] = "sign" =>
         \/ Stays(j) /\ batch'[source[j]] = batch[source[j]]
         \/ Prepares(j)
         \/ Quotes(j, source'[j]) /\ batch'[source'[j]] = batch[source'[j]]
    /\ phase'[j] = "done" /\ j \in Simulations =>
         \/ Stays(j) /\ batch'[source[j]] = batch[source[j]]
         \/ Prepares(j)
    /\ phase'[j] = "send" => Stays(j) \/ Signs(j, source'[j])

(* What the pools gain is what a job sends.                                *)
PoolsGain ==
  /\ \A t \in pool' : t \in pool \/ \E j \in Jobs : phase[j] = "send" /\ rail[j] = "native-gas" /\ t = draft[j]
  /\ \A o \in opPool' : o \in opPool \/ \E j \in Jobs : phase[j] = "send" /\ rail[j] = "sponsored" /\ o = draft[j]

Ages(j) == phase[j] \notin Early => phase'[j] \notin Early /\ rail'[j] = rail[j]

LEMMA QuotesKept ==
  ASSUME IQuotes, QuoteShapes', SourceFacts', UNCHANGED <<mined, opCount>>, PoolsGain,
         \A j \in Jobs : Ages(j) /\ Moves(j)
  PROVE  IQuotes'
<1>1. \A j \in Jobs : phase[j] = "send" =>
        draft[j].source = source[j] /\ source[j] \in Jobs /\ phase[source[j]] \notin Early
        /\ rail[source[j]] = rail[j]
  BY DEF IQuotes, QuoteShapes, SourceFacts, JobFacts, Reused, Early
<1>2. \A x : Sent(x) => Sent(x)' /\ rail'[x.source] = rail[x.source]
  BY DEF Sent, Ages
<1>3. PoolFacts'
  <2>1. ASSUME NEW t \in pool'
        PROVE  Sent(t)' /\ rail'[t.source] = "native-gas"
    <3>1. Sent(t) /\ rail[t.source] = "native-gas"
      BY <1>1, <2>1 DEF PoolsGain, IQuotes, PoolFacts, Sent
    <3> QED
      BY <1>2, <3>1
  <2>2. ASSUME NEW o \in opPool'
        PROVE  Sent(o)' /\ rail'[o.source] = "sponsored"
    <3>1. Sent(o) /\ rail[o.source] = "sponsored"
      BY <1>1, <2>2 DEF PoolsGain, IQuotes, PoolFacts, Sent
    <3> QED
      BY <1>2, <3>1
  <2>3. \A m \in mined' : Sent(m.what)'
    BY <1>2 DEF IQuotes, PoolFacts
  <2> QED
    BY <2>1, <2>2, <2>3 DEF PoolFacts
<1>4. \A m \in mined : Sponsored(m)' <=> Sponsored(m)
  BY <1>2 DEF IQuotes, PoolFacts, Sponsored
<1>5. MinedOnce'
  BY <1>4 DEF IQuotes, MinedOnce
<1>6. ASSUME NEW s \in Jobs, rail'[s] = "sponsored", phase'[s] \notin Early, phase[s] \notin Early
      PROVE  \E w \in Wallets, n \in Nat : Quote(s, w, n)'
  <2>1. PICK w \in Wallets, n \in Nat : Quote(s, w, n)
    BY <1>6 DEF IQuotes, OneQuote, Ages
  <2>2. \A o \in opPool' : o.source = s => o.sender = w /\ o.nonce = n
    BY <1>1, <2>1 DEF PoolsGain, Quote
  <2>3. \A m \in mined' : m.what.source = s => m.what.sender = w /\ m.what.nonce = n
    BY <2>1 DEF Quote
  <2>4. ASSUME NEW j \in Jobs, source'[j] = s, phase'[j] = "sign" \/ (phase'[j] = "done" /\ j \in Simulations)
        PROVE  batch'[s].wallet = w /\ draft'[j].nonce = n
    <3>1. CASE Stays(j) /\ batch'[source[j]] = batch[source[j]]
      BY <2>1, <2>4, <3>1 DEF Stays, Quote
    <3>2. ~Prepares(j)
      BY <1>6, <2>4 DEF Prepares, Early
    <3>3. CASE Quotes(j, s) /\ batch'[s] = batch[s]
      <4>1. source[s] = s
        BY <3>3 DEF Quotes, IQuotes, SourceFacts, JobFacts, Reused
      <4> QED
        BY <2>1, <3>3, <4>1 DEF Quotes, Quote
    <3> QED
      BY <1>6, <2>4, <3>1, <3>2, <3>3 DEF Moves
  <2>5. ASSUME NEW j \in Jobs, source'[j] = s, phase'[j] = "send"
        PROVE  draft'[j].sender = w /\ draft'[j].nonce = n
    <3>1. CASE Stays(j)
      BY <2>1, <2>5, <3>1 DEF Stays, Quote
    <3>2. CASE Signs(j, s)
      BY <2>1, <2>5, <3>2 DEF Signs, Quote
    <3> QED
      BY <1>6, <2>5, <3>1, <3>2 DEF Moves
  <2>6. Quote(s, w, n)'
    BY <2>2, <2>3, <2>4, <2>5 DEF Quote
  <2> QED
    BY <2>6
<1>7. ASSUME NEW s \in Jobs, rail'[s] = "sponsored", phase'[s] \notin Early, phase[s] \in Early
      PROVE  \E w \in Wallets, n \in Nat : Quote(s, w, n)'
  <2>1. PICK w \in Wallets : w = batch'[s].wallet
    BY DEF QuoteShapes, JobShapes
  <2>0. PICK n \in Nat : draft'[s].nonce \in Nat => n = draft'[s].nonce
    OBVIOUS
  <2>2. \A o \in opPool' : o.source # s
    BY <1>1, <1>7 DEF PoolsGain, IQuotes, PoolFacts, Sent
  <2>3. \A m \in mined' : m.what.source # s
    BY <1>7 DEF IQuotes, PoolFacts, Sent
  <2>4. \A j \in Jobs : phase[j] \notin Early => source[j] # s
    BY <1>7 DEF IQuotes, SourceFacts, JobFacts, Reused, Early
  <2>5. ASSUME NEW j \in Jobs, source'[j] = s, phase'[j] = "sign" \/ (phase'[j] = "done" /\ j \in Simulations)
        PROVE  batch'[s].wallet = w /\ draft'[j].nonce = n
    <3>1. ~Stays(j)
      BY <2>4, <2>5 DEF Stays, Early
    <3>2. ~Quotes(j, s)
      BY <1>7 DEF Quotes, Early
    <3>3. Prepares(j)
      BY <1>7, <2>5, <3>1, <3>2 DEF Moves
    <3> QED
      BY <2>0, <2>1, <2>5, <3>3 DEF Prepares
  <2>6. ASSUME NEW j \in Jobs, source'[j] = s, phase'[j] = "send"
        PROVE  FALSE
    <3>1. Stays(j) \/ Signs(j, s)
      BY <1>7, <2>6 DEF Moves
    <3> QED
      BY <2>4, <2>6, <3>1 DEF Stays, Signs, Early
  <2>7. Quote(s, w, n)'
    BY <2>2, <2>3, <2>5, <2>6 DEF Quote
  <2> QED
    BY <2>7
<1>8. OneQuote'
  <2>1. ASSUME NEW s \in Jobs, rail'[s] = "sponsored", phase'[s] \notin Early
        PROVE  \E w \in Wallets, n \in Nat : Quote(s, w, n)'
    BY <1>6, <1>7, <2>1
  <2> QED
    BY <2>1 DEF OneQuote
<1> QED
  BY <1>3, <1>5, <1>8 DEF IQuotes

(* A step of one job leaves the others, and those who reuse it, alone.     *)
OnlyMoves(j) ==
  /\ rail' \in [Jobs -> {"sponsored", "native-gas"}] /\ source' \in [Jobs -> Jobs]
  /\ DOMAIN draft' = Jobs /\ page' = page
  /\ \A i \in Jobs \ {j} : /\ phase'[i] = phase[i] /\ source'[i] = source[i] /\ rail'[i] = rail[i]
                           /\ draft'[i] = draft[i] /\ batch'[i] = batch[i] /\ receipt'[i] = receipt[i]
  /\ phase[j] \in {"done", "thrown"} => phase'[j] = phase[j] /\ batch'[j] = batch[j]
  /\ phase[j] # "idle" => rail'[j] = rail[j]
  /\ phase[j] \notin Early => phase'[j] \notin Early
  /\ receipt'[j] # "none" => phase'[j] = "done"

LEMMA OneJobMoves ==
  ASSUME IQuotes, NEW j \in Jobs, JobShapes', OnlyMoves(j), JobFacts(j)', Moves(j), PoolsGain,
         UNCHANGED <<mined, opCount>>
  PROVE  IQuotes'
<1>1. QuoteShapes'
  <2>1. ReceiptsAreOfTheDone'
    BY DEF OnlyMoves, IQuotes, QuoteShapes, ReceiptsAreOfTheDone
  <2> QED
    BY <2>1 DEF OnlyMoves, IQuotes, QuoteShapes
<1>2. ASSUME NEW i \in Jobs \ {j}
      PROVE  /\ JobFacts(i)' /\ Ages(i) /\ Moves(i)
  <2>1. source[i] \in Jobs /\ (source[i] # i => Reused(i)) /\ JobFacts(i)
    BY <1>2 DEF IQuotes, QuoteShapes, SourceFacts, JobFacts
  <2>2. source[i] # i => phase'[source[i]] = phase[source[i]] /\ rail'[source[i]] = rail[source[i]]
                         /\ batch'[source[i]] = batch[source[i]]
    BY <2>1 DEF OnlyMoves, Reused
  <2>3. batch'[source[i]] = batch[source[i]]
    BY <1>2, <2>1, <2>2 DEF OnlyMoves
  <2>4. source[i] # i => Reused(i)'
    BY <1>2, <2>1, <2>2 DEF OnlyMoves, Reused
  <2>5. JobFacts(i)'
    BY <1>2, <2>1, <2>4 DEF OnlyMoves, JobFacts
  <2>6. Moves(i)
    BY <1>2, <2>3 DEF OnlyMoves, Moves, Stays
  <2>7. Ages(i)
    BY <1>2 DEF OnlyMoves, Ages
  <2> QED
    BY <2>5, <2>6, <2>7
<1>3. Ages(j)
  BY DEF OnlyMoves, Ages, Early
<1>4. SourceFacts'
  <2>1. \A i \in Jobs : JobFacts(i)'
    BY <1>2
  <2> QED
    BY <2>1 DEF SourceFacts
<1> QED
  BY <1>1, <1>2, <1>3, <1>4, QuotesKept

(* A job that was asked for goes on, on its rail and from its source.      *)
LEMMA JobGoes ==
  ASSUME IQuotes, NEW j \in Jobs, NEW there \in AllPhases, Goto(j, there), JobShapes',
         UNCHANGED <<plan, mined, opCount>>, DOMAIN draft' = Jobs,
         \A i \in Jobs \ {j} : draft'[i] = draft[i] /\ batch'[i] = batch[i] /\ receipt'[i] = receipt[i],
         receipt'[j] # "none" => there = "done",
         phase[j] \notin {"done", "thrown"}, phase[j] \notin Early => there \notin Early,
         there \in Sending => phase[j] \in Sending \/ (phase[j] \in Early /\ j \notin Simulations),
         there = "txNonce" => rail[j] = "native-gas",
         there = "send" => draft'[j].source = source[j],
         Moves(j), PoolsGain
  PROVE  IQuotes'
<1>1. phase'[j] = there /\ \A i \in Jobs \ {j} : phase'[i] = phase[i]
  BY DEF Goto, IQuotes, QuoteShapes, JobShapes
<1>2. page' = page /\ rail' = rail /\ source' = source
  BY DEF plan
<1>3. OnlyMoves(j)
  BY <1>1, <1>2 DEF OnlyMoves, IQuotes, QuoteShapes
<1>4. JobFacts(j)'
  <2>1. JobFacts(j) /\ source[j] \in Jobs
    BY DEF IQuotes, QuoteShapes, SourceFacts
  <2>2. source[j] # j => Reused(j) /\ phase[j] \notin Early
    BY <2>1 DEF JobFacts
  <2>3. source[j] # j => Reused(j)'
    BY <1>1, <1>2, <2>1, <2>2 DEF Reused
  <2>4. there \in Sending => j \notin Simulations
    BY <2>1 DEF JobFacts
  <2>5. there \in Early => source[j] = j
    BY <2>2
  <2> QED
    BY <1>1, <1>2, <2>3, <2>4, <2>5 DEF JobFacts
<1> QED
  BY <1>3, <1>4, OneJobMoves

LEMMA QuoteThrows ==
  ASSUME IQuotes, NEW j \in Jobs, phase[j] \notin {"done", "thrown"}, Throws(j), PoolsGain,
         UNCHANGED <<session, mined, opCount>>
  PROVE  IQuotes'
<1>1. /\ JobShapes' /\ phase'[j] = "thrown" /\ UNCHANGED <<page, receipt>>
      /\ \A i \in Jobs \ {j} : phase'[i] = phase[i] /\ batch'[i] = batch[i]
  BY Throwing DEF IQuotes, QuoteShapes
<1>2. DOMAIN draft' = Jobs /\ \A i \in Jobs \ {j} : draft'[i] = draft[i]
  BY DEF Throws, IQuotes, QuoteShapes
<1>3. receipt'[j] = "none" /\ \A i \in Jobs : receipt'[i] = receipt[i]
  BY <1>1 DEF IQuotes, QuoteShapes, ReceiptsAreOfTheDone
<1>4. Moves(j)
  BY <1>1 DEF Moves
<1>5. Goto(j, "thrown") /\ UNCHANGED plan /\ "thrown" \in AllPhases /\ "thrown" \notin Early \cup Sending
  BY DEF Throws, AllPhases, Early, Sending
<1> QED
  BY <1>1, <1>2, <1>3, <1>4, <1>5, JobGoes

(* Until it is prepared, a job of the sponsored rail spends nothing.       *)
LEMMA QuoteResolves ==
  ASSUME IQuotes, NEW j \in Jobs, NEW there \in AllPhases, phase[j] \in Early, Goto(j, there), JobShapes',
         there \in {"sign", "send"} => FALSE,
         there = "done" \/ there = "txNonce" => rail[j] = "native-gas",
         there = "txNonce" => j \notin Simulations,
         \A i \in Jobs \ {j} : batch'[i] = batch[i],
         UNCHANGED <<plan, draft, receipt, mined, opCount, pool, opPool>>
  PROVE  IQuotes'
<1>1. phase'[j] = there /\ source'[j] = j /\ rail'[j] = rail[j]
  BY DEF Goto, plan, IQuotes, QuoteShapes, JobShapes, SourceFacts, JobFacts
<1>2. Moves(j)
  BY <1>1 DEF Moves
<1>3. PoolsGain
  BY DEF PoolsGain
<1>4. receipt[j] = "none"
  BY DEF IQuotes, QuoteShapes, ReceiptsAreOfTheDone, Early
<1>5. DOMAIN draft' = Jobs /\ there \notin {"sign", "send"} /\ phase[j] \notin {"done", "thrown"}
  BY DEF IQuotes, QuoteShapes, Early
<1>6. there \in Sending => j \notin Simulations
  BY <1>5 DEF Sending
<1>7. receipt' = receipt /\ draft' = draft
  OBVIOUS
<1> QED
  BY <1>2, <1>3, <1>4, <1>5, <1>6, <1>7, JobGoes

(* Nothing moves but receipts, endpoints, accounts and pools.              *)
LEMMA QuoteRests ==
  ASSUME IQuotes, UNCHANGED <<phase, plan, batch, draft, mined, opCount>>, session' \in [Pages -> Keys],
         ReceiptsAreOfTheDone', DOMAIN receipt' = Jobs, PoolsGain
  PROVE  IQuotes'
<1>1. page' = page /\ rail' = rail /\ source' = source
  BY DEF plan
<1>2. JobShapes'
  BY <1>1 DEF IQuotes, QuoteShapes, JobShapes
<1>3. QuoteShapes'
  BY <1>1, <1>2 DEF IQuotes, QuoteShapes
<1>4. SourceFacts'
  BY <1>1 DEF IQuotes, SourceFacts, JobFacts, Reused
<1>5. \A j \in Jobs : Ages(j) /\ Moves(j)
  BY <1>1 DEF Ages, Moves, Stays
<1> QED
  BY <1>3, <1>4, <1>5, QuotesKept

LEMMA CallQuote ==
  ASSUME IQuotes, NEW j \in Jobs, NEW r \in {"sponsored", "native-gas"}, Call(j, r)
  PROVE  IQuotes'
<1>1. PICK there \in {"next", "thrown"} : Goto(j, there)
  BY DEF Call
<1>2. /\ phase' \in [Jobs -> AllPhases] /\ phase'[j] = there
      /\ \A i \in Jobs \ {j} : phase'[i] = phase[i]
  BY <1>1 DEF IQuotes, QuoteShapes, JobShapes, Goto, AllPhases
<1>3. /\ DOMAIN batch' = Jobs /\ \A i \in Jobs \ {j} : batch'[i] = batch[i]
      /\ batch'[j] = [wallet |-> WalletIn(page[j]), auth |-> NoAuth]
  BY DEF Call, IQuotes, QuoteShapes, JobShapes
<1>4. WalletIn(page[j]) \in Wallets
  BY WalletsExist DEF IQuotes, QuoteShapes, JobShapes
<1>5. UNCHANGED <<session, page, source, draft, receipt, mined, opCount, pool, opPool>> /\ phase[j] = "idle"
  BY DEF Call, world, chainVars
<1>6. JobShapes'
  <2>1. JobShapes /\ page' = page /\ session' = session /\ receipt' = receipt
    BY <1>5 DEF IQuotes, QuoteShapes
  <2> QED
    BY <1>2, <1>3, <1>4, <2>1 DEF JobShapes, AllPhases
<1>7. source'[j] = j /\ receipt'[j] = "none"
  BY <1>5 DEF IQuotes, QuoteShapes, ReceiptsAreOfTheDone, SourceFacts, JobFacts, Early
<1>8. rail' \in [Jobs -> {"sponsored", "native-gas"}] /\ \A i \in Jobs \ {j} : rail'[i] = rail[i]
  BY DEF Call, IQuotes, QuoteShapes
<1>9. source' = source /\ draft' = draft /\ receipt' = receipt /\ page' = page
  BY <1>5
<1>10. OnlyMoves(j)
  BY <1>2, <1>3, <1>5, <1>7, <1>8, <1>9 DEF OnlyMoves, Early, IQuotes, QuoteShapes
<1>11. JobFacts(j)' /\ Moves(j) /\ PoolsGain
  BY <1>2, <1>5, <1>7 DEF JobFacts, Moves, PoolsGain, Sending
<1> QED
  BY <1>5, <1>6, <1>10, <1>11, OneJobMoves

LEMMA ReuseQuote ==
  ASSUME IQuotes, NEW j \in Jobs, NEW s \in Jobs, Reuse(j, s)
  PROVE  IQuotes'
<1>1. PICK there \in {"sign", "txNonce"} : Goto(j, there) /\ (there = "txNonce" <=> rail[s] # "sponsored")
  BY DEF Reuse
<1>2. /\ phase[j] = "idle" /\ j \notin Simulations /\ s \in Simulations /\ phase[s] = "done" /\ page[s] = page[j]
      /\ UNCHANGED <<session, page, batch, receipt, mined, opCount, pool, opPool>>
  BY DEF Reuse, world, chainVars
<1>3. JobShapes' /\ phase'[j] = there /\ \A i \in Jobs \ {j} : phase'[i] = phase[i]
  BY <1>1, <1>2, GoingOn DEF IQuotes, QuoteShapes, JobShapes, AllPhases, Later
<1>4. /\ rail' \in [Jobs -> {"sponsored", "native-gas"}] /\ rail'[j] = rail[s]
      /\ source' \in [Jobs -> Jobs] /\ source'[j] = s
      /\ DOMAIN draft' = Jobs /\ draft'[j] = draft[s]
      /\ \A i \in Jobs \ {j} : rail'[i] = rail[i] /\ source'[i] = source[i] /\ draft'[i] = draft[i]
  BY DEF Reuse, IQuotes, QuoteShapes
<1>5. receipt'[j] = "none"
  BY <1>2 DEF IQuotes, QuoteShapes, ReceiptsAreOfTheDone
<1>6. page' = page /\ batch' = batch /\ receipt' = receipt
  BY <1>2
<1>7. OnlyMoves(j)
  BY <1>2, <1>3, <1>4, <1>5, <1>6 DEF OnlyMoves, Early
<1>8. rail[s] \in {"sponsored", "native-gas"} /\ s # j
  BY <1>2 DEF IQuotes, QuoteShapes
<1>9. Reused(j)'
  BY <1>2, <1>3, <1>4, <1>6, <1>8 DEF Reused
<1>10. JobFacts(j)'
  BY <1>1, <1>2, <1>3, <1>4, <1>8, <1>9 DEF JobFacts, Early
<1>11. Moves(j)
  BY <1>1, <1>2, <1>3, <1>4, <1>6, <1>8 DEF Moves, Quotes
<1>12. PoolsGain
  BY <1>2 DEF PoolsGain
<1> QED
  BY <1>2, <1>3, <1>7, <1>10, <1>11, <1>12, OneJobMoves

LEMMA ResolveQuote ==
  ASSUME IQuotes, NEW j \in Jobs, NextNonce(j) \/ Load(j) \/ GetCode(j) \/ GetTransactionCount(j) \/ Persist(j)
  PROVE  IQuotes'
<1>1. CASE /\ Persist(j) /\ PersistFailed(j, page[j]) /\ Throws(j)
  <2>1. UNCHANGED <<session, mined, opCount, pool, opPool>> /\ phase[j] = "persist"
    BY <1>1 DEF Persist, chainVars
  <2>2. PoolsGain
    BY <2>1 DEF PoolsGain
  <2> QED
    BY <1>1, <2>1, <2>2, QuoteThrows
<1>2. CASE GetTransactionCount(j)
  <2>1. phase[j] = "getTransactionCount" /\ Goto(j, AfterResolve(j))
        /\ UNCHANGED <<session, plan, draft, receipt, mined, opCount, pool, opPool>>
    BY <1>2 DEF GetTransactionCount, world, chainVars
  <2>2. AfterResolve(j) \in {"prepareSponsored", "done", "txNonce"}
        /\ (AfterResolve(j) # "prepareSponsored" => rail[j] = "native-gas")
        /\ (AfterResolve(j) = "txNonce" => j \notin Simulations)
    BY DEF AfterResolve, IQuotes, QuoteShapes
  <2>3. /\ phase' \in [Jobs -> AllPhases] /\ phase'[j] = AfterResolve(j)
        /\ \A i \in Jobs \ {j} : phase'[i] = phase[i]
    BY <2>1, <2>2 DEF IQuotes, QuoteShapes, JobShapes, Goto, AllPhases, Later
  <2>4. /\ DOMAIN batch' = Jobs /\ \A i \in Jobs \ {j} : batch'[i] = batch[i]
        /\ batch'[j] = [wallet |-> batch[j].wallet, auth |-> count[batch[j].wallet]]
    BY <1>2 DEF GetTransactionCount, IQuotes, QuoteShapes, JobShapes
  <2>5. JobShapes'
    BY <2>1, <2>3, <2>4 DEF plan, IQuotes, QuoteShapes, JobShapes, AllPhases
  <2>6. AfterResolve(j) \in AllPhases /\ phase[j] \in Early
    BY <2>1, <2>2 DEF AllPhases, Later, Early
  <2> QED
    BY <2>1, <2>2, <2>4, <2>5, <2>6, QuoteResolves
<1>3. ASSUME NEW there \in AllPhases \ {"sign", "send"}, Goto(j, there), phase[j] \in Early,
             there \in {"done", "txNonce"} => rail[j] = "native-gas", there = "txNonce" => j \notin Simulations,
             UNCHANGED <<session, plan, batch, draft, receipt, mined, opCount, pool, opPool>>
      PROVE  IQuotes'
  <2>1. JobShapes'
    BY <1>3, GoingOn DEF plan, IQuotes, QuoteShapes, JobShapes
  <2> QED
    BY <1>3, <2>1, QuoteResolves
<1>4. CASE NextNonce(j)
  <2>1. phase[j] \in Early /\ UNCHANGED <<session, plan, batch, draft, receipt, mined, opCount, pool, opPool>>
    BY <1>4 DEF NextNonce, chainVars, Early
  <2>2. Goto(j, "persist") \/ Goto(j, "load")
    BY <1>4 DEF NextNonce
  <2> QED
    BY <1>3, <2>1, <2>2 DEF AllPhases, Allocating
<1>5. CASE Load(j)
  BY <1>3, <1>5 DEF Load, chainVars, Early, AllPhases, Allocating
<1>6. CASE Persist(j) /\ Goto(j, "getCode") /\ UNCHANGED <<plan, batch, draft, endpoint, receipt>>
  BY <1>3, <1>6 DEF Persist, chainVars, Early, AllPhases, Later
<1>7. CASE GetCode(j)
  <2>1. phase[j] \in Early /\ UNCHANGED <<session, plan, batch, draft, receipt, mined, opCount, pool, opPool>>
    BY <1>7 DEF GetCode, world, chainVars, Early
  <2>2. PICK there \in {"getTransactionCount", "prepareSponsored", "done", "txNonce"} :
          /\ Goto(j, there)
          /\ there \in {"done", "txNonce"} => rail[j] = "native-gas"
          /\ there = "txNonce" => j \notin Simulations
    BY <1>7 DEF GetCode, AfterResolve, IQuotes, QuoteShapes
  <2> QED
    BY <1>3, <2>1, <2>2 DEF AllPhases, Later
<1> QED
  BY <1>1, <1>2, <1>4, <1>5, <1>6, <1>7 DEF Persist

LEMMA PrepareQuote ==
  ASSUME IQuotes, NEW j \in Jobs, PrepareSponsored(j)
  PROVE  IQuotes'
<1>1. PICK there \in {"done", "sign"} : Goto(j, there) /\ (there = "sign" => j \notin Simulations)
  BY DEF PrepareSponsored
<1>2. /\ phase[j] = "prepareSponsored" /\ UNCHANGED <<session, plan, batch, receipt, mined, opCount, pool, opPool>>
      /\ draft' = [draft EXCEPT ![j] = [nonce |-> opCount[BatchOf(j).wallet], auth |-> BatchOf(j).auth]]
  BY DEF PrepareSponsored, world, chainVars
<1>3. source[j] = j /\ batch[j].wallet \in Wallets
  BY <1>2 DEF IQuotes, QuoteShapes, JobShapes, SourceFacts, JobFacts, Early
<1>4. DOMAIN draft' = Jobs /\ draft'[j].nonce \in Nat /\ \A i \in Jobs \ {j} : draft'[i] = draft[i]
  BY <1>2, <1>3 DEF BatchOf, IQuotes, QuoteShapes
<1>5. JobShapes'
  BY <1>1, <1>2, GoingOn DEF plan, IQuotes, QuoteShapes, JobShapes, AllPhases, Later
<1>6. source' = source /\ batch' = batch /\ receipt' = receipt
  BY <1>2 DEF plan
<1>7. phase'[j] = there
  BY <1>1 DEF Goto, IQuotes, QuoteShapes, JobShapes
<1>8. Moves(j)
  BY <1>1, <1>2, <1>3, <1>4, <1>6, <1>7 DEF Moves, Prepares
<1>9. PoolsGain /\ receipt'[j] = "none"
  BY <1>2, <1>6 DEF PoolsGain, IQuotes, QuoteShapes, ReceiptsAreOfTheDone
<1> QED
  BY <1>1, <1>2, <1>4, <1>5, <1>6, <1>8, <1>9, JobGoes DEF AllPhases, Later, Early, Sending

LEMMA TxNonceQuote ==
  ASSUME IQuotes, NEW j \in Jobs, TxNonce(j)
  PROVE  IQuotes'
<1>1. /\ phase[j] = "txNonce" /\ Goto(j, "sign")
      /\ UNCHANGED <<session, plan, batch, receipt, mined, opCount, pool, opPool>>
      /\ DOMAIN draft' = Jobs /\ \A i \in Jobs \ {j} : draft'[i] = draft[i]
  BY DEF TxNonce, world, chainVars, IQuotes, QuoteShapes
<1>2. rail[source[j]] = "native-gas"
  BY <1>1 DEF IQuotes, QuoteShapes, SourceFacts, JobFacts, Reused
<1>3. Moves(j)
  BY <1>1, <1>2 DEF plan, Moves
<1>4. JobShapes'
  BY <1>1, GoingOn DEF plan, IQuotes, QuoteShapes, JobShapes, AllPhases, Later
<1>5. PoolsGain /\ receipt'[j] = "none" /\ receipt' = receipt /\ batch' = batch
  BY <1>1 DEF PoolsGain, IQuotes, QuoteShapes, ReceiptsAreOfTheDone
<1> QED
  BY <1>1, <1>3, <1>4, <1>5, JobGoes DEF AllPhases, Later, Early, Sending

LEMMA SignQuote ==
  ASSUME IQuotes, NEW j \in Jobs, Sign(j)
  PROVE  IQuotes'
<1>1. phase[j] = "sign" /\ UNCHANGED <<session, mined, opCount, pool, opPool>>
  BY DEF Sign, world, chainVars
<1>2. PoolsGain
  BY <1>1 DEF PoolsGain
<1>3. CASE Throws(j)
  BY <1>1, <1>2, <1>3, QuoteThrows
<1>4. CASE /\ draft' = [draft EXCEPT ![j] = Signed(j)] /\ Goto(j, "send")
           /\ UNCHANGED <<world, plan, batch, endpoint, receipt>>
  <2>1. DOMAIN draft' = Jobs /\ draft'[j] = Signed(j) /\ \A i \in Jobs \ {j} : draft'[i] = draft[i]
    BY <1>4 DEF IQuotes, QuoteShapes
  <2>2. draft'[j].source = source[j] /\ draft'[j].nonce = draft[j].nonce
        /\ (rail[j] = "sponsored" => draft'[j].sender = batch[source[j]].wallet)
    BY <2>1 DEF Signed, BatchOf
  <2>3. rail[source[j]] = rail[j]
    BY DEF IQuotes, QuoteShapes, SourceFacts, JobFacts, Reused
  <2>4. rail' = rail /\ source' = source /\ batch' = batch /\ receipt' = receipt
    BY <1>4 DEF plan
  <2>5. JobShapes' /\ phase'[j] = "send"
    BY <1>1, <1>4, GoingOn DEF plan, IQuotes, QuoteShapes, JobShapes, AllPhases, Later
  <2>6. Moves(j)
    BY <1>1, <2>2, <2>3, <2>4, <2>5 DEF Moves, Signs
  <2>7. receipt'[j] = "none"
    BY <1>1, <2>4 DEF IQuotes, QuoteShapes, ReceiptsAreOfTheDone
  <2> QED
    BY <1>1, <1>2, <1>4, <2>1, <2>2, <2>4, <2>5, <2>6, <2>7, JobGoes DEF AllPhases, Later, Early, Sending
<1> QED
  BY <1>3, <1>4 DEF Sign

LEMMA BroadcastQuote ==
  ASSUME IQuotes, NEW j \in Jobs, SendRawTransaction(j) \/ SendUserOperation(j)
  PROVE  IQuotes'
<1>1. phase[j] = "send" /\ UNCHANGED <<session, mined, opCount>>
  BY DEF SendRawTransaction, SendUserOperation
<1>2. PoolsGain
  <2>1. CASE SendRawTransaction(j)
    BY <2>1 DEF SendRawTransaction, Admit, PoolsGain
  <2>2. CASE SendUserOperation(j)
    BY <2>2 DEF SendUserOperation, PoolsGain
  <2> QED
    BY <2>1, <2>2
<1>3. CASE Throws(j)
  BY <1>1, <1>2, <1>3, QuoteThrows
<1>4. ASSUME NEW status, HandOff(j, status)
      PROVE  IQuotes'
  <2>1. /\ Goto(j, "done") /\ UNCHANGED <<plan, batch, draft>>
        /\ DOMAIN receipt' = Jobs /\ \A i \in Jobs \ {j} : receipt'[i] = receipt[i]
    BY <1>4 DEF HandOff, IQuotes, QuoteShapes, JobShapes
  <2>2. j \notin Simulations
    BY <1>1 DEF IQuotes, SourceFacts, JobFacts, Sending
  <2>3. JobShapes' /\ phase'[j] = "done"
    BY <1>1, <2>1, GoingOn DEF plan, IQuotes, QuoteShapes, JobShapes, AllPhases, Later
  <2>4. Moves(j)
    BY <2>2, <2>3 DEF Moves
  <2>5. draft' = draft /\ batch' = batch /\ DOMAIN draft' = Jobs
    BY <2>1 DEF IQuotes, QuoteShapes
  <2> QED
    BY <1>1, <1>2, <2>1, <2>3, <2>4, <2>5, JobGoes DEF AllPhases, Later, Early, Sending
<1>5. CASE FailOver(j) /\ ~Throws(j)
  <2>1. UNCHANGED <<phase, plan, batch, draft, receipt>>
    BY <1>5 DEF FailOver
  <2>2. phase' = phase /\ receipt' = receipt
    BY <2>1
  <2>3. ReceiptsAreOfTheDone' /\ DOMAIN receipt' = Jobs /\ session' \in [Pages -> Keys]
    BY <1>1, <2>2 DEF IQuotes, QuoteShapes, JobShapes, ReceiptsAreOfTheDone
  <2> QED
    BY <1>1, <1>2, <2>1, <2>3, QuoteRests
<1> QED
  BY <1>3, <1>4, <1>5 DEF SendRawTransaction, SendUserOperation

LEMMA WaitQuote ==
  ASSUME IQuotes, NEW j \in Jobs, Wait(j)
  PROVE  IQuotes'
<1>1. /\ phase[j] = "done" /\ UNCHANGED <<session, phase, plan, batch, draft, mined, opCount, pool, opPool>>
      /\ receipt' = [receipt EXCEPT ![j] = Settled(FateOf(draft[j]))]
  BY DEF Wait, world, chainVars
<1>2. ReceiptsAreOfTheDone' /\ DOMAIN receipt' = Jobs /\ session' \in [Pages -> Keys]
  BY <1>1 DEF IQuotes, QuoteShapes, JobShapes, ReceiptsAreOfTheDone
<1>3. PoolsGain
  BY <1>1 DEF PoolsGain
<1> QED
  BY <1>1, <1>2, <1>3, QuoteRests

LEMMA SwitchQuote ==
  ASSUME IQuotes, NEW p \in Pages, Switch(p)
  PROVE  IQuotes'
<1>1. PICK k \in KeysOn[p] : session' = [session EXCEPT ![p] = k]
  BY DEF Switch
<1>2. k \in Keys
  BY SendAssumption
<1>3. session' \in [Pages -> Keys]
  BY <1>1, <1>2 DEF IQuotes, QuoteShapes, JobShapes
<1>4. UNCHANGED <<phase, plan, batch, draft, receipt, mined, opCount, pool, opPool>>
  BY DEF Switch, jobVars, chainVars
<1>5. ReceiptsAreOfTheDone' /\ DOMAIN receipt' = Jobs /\ PoolsGain
  BY <1>4 DEF IQuotes, QuoteShapes, JobShapes, ReceiptsAreOfTheDone, PoolsGain
<1> QED
  BY <1>3, <1>4, <1>5, QuoteRests

(* A simulation whose page is gone takes those who use it along.           *)
LEMMA ReloadQuote ==
  ASSUME IQuotes, NEW p \in Pages, Reload(p)
  PROVE  IQuotes'
<1> DEFINE ended == {j \in Jobs : page[j] = p /\ phase[j] # "idle" /\ receipt[j] = "none"}
<1>1. /\ phase' = [j \in Jobs |-> IF j \in ended THEN "thrown" ELSE phase[j]]
      /\ batch' = [j \in Jobs |-> IF j \in ended THEN NoBatch ELSE batch[j]]
      /\ draft' = [j \in Jobs |-> IF j \in ended THEN NoDraft ELSE draft[j]]
      /\ page' = page /\ rail' = rail /\ source' = source /\ receipt' = receipt /\ session' = session
      /\ UNCHANGED <<mined, opCount, pool, opPool>>
  BY DEF Reload, plan, chainVars
<1>2. \A j \in ended : phase[j] # "idle" /\ receipt[j] = "none"
  OBVIOUS
<1>3. \A j \in Jobs : source[j] \in ended /\ Reused(j) /\ phase[j] # "idle" /\ receipt[j] = "none" => j \in ended
  BY DEF Reused
<1> HIDE DEF ended
<1>4. ended \subseteq Jobs
  BY DEF ended
<1>5. \A j \in Jobs \ ended : phase'[j] = phase[j] /\ batch'[j] = batch[j] /\ draft'[j] = draft[j]
  BY <1>1
<1>6. \A j \in ended : phase'[j] = "thrown" /\ batch'[j] = NoBatch
  BY <1>1, <1>4
<1>7. QuoteShapes'
  <2>1. NoBatch.wallet \in Wallets /\ NoBatch = [wallet |-> NoBatch.wallet, auth |-> NoBatch.auth]
    BY WalletsExist DEF NoBatch, IQuotes, QuoteShapes
  <2>2. \A j \in Jobs : /\ batch'[j] = [wallet |-> batch'[j].wallet, auth |-> batch'[j].auth]
                        /\ batch'[j].wallet \in Wallets
    BY <1>5, <1>6, <2>1 DEF IQuotes, QuoteShapes, JobShapes
  <2>3. phase' \in [Jobs -> AllPhases] /\ DOMAIN batch' = Jobs /\ DOMAIN draft' = Jobs
    BY <1>1 DEF IQuotes, QuoteShapes, JobShapes, AllPhases
  <2>4. ReceiptsAreOfTheDone'
    BY <1>1, <1>2, <1>5, <1>6 DEF IQuotes, QuoteShapes, ReceiptsAreOfTheDone
  <2> QED
    BY <1>1, <2>2, <2>3, <2>4 DEF IQuotes, QuoteShapes, JobShapes, AllPhases
<1>8. ASSUME NEW j \in Jobs
      PROVE  JobFacts(j)' /\ Ages(j) /\ Moves(j)
  <2>1. JobFacts(j) /\ source[j] \in Jobs /\ (phase[j] \in Sending => receipt[j] = "none")
        /\ (source[j] # j => Reused(j) /\ phase[j] # "idle")
    BY DEF IQuotes, QuoteShapes, SourceFacts, JobFacts, ReceiptsAreOfTheDone, Sending, Early
  <2>2. phase[j] \in Sending /\ j \notin ended => source[j] \notin ended
    BY <1>3, <2>1 DEF Sending
  <2>3. source[j] # j => Reused(j)'
    <3>1. CASE source[j] # j
      <4>1. phase'[source[j]] \in {"done", "thrown"}
        BY <1>5, <1>6, <2>1, <3>1 DEF Reused
      <4>2. phase'[j] \in Sending => phase'[source[j]] = "done"
        BY <1>5, <1>6, <2>1, <2>2, <3>1 DEF Reused, Sending
      <4> QED
        BY <1>1, <2>1, <3>1, <4>1, <4>2 DEF Reused
    <3> QED
      BY <3>1
  <2>4. JobFacts(j)'
    BY <1>1, <1>5, <1>6, <2>1, <2>3 DEF JobFacts, Early, Sending
  <2>5. Ages(j)
    BY <1>1, <1>5, <1>6 DEF Ages, Early
  <2>6. j \in Simulations => source[j] = j
    BY <2>1 DEF Reused
  <2>7. Moves(j)
    BY <1>1, <1>5, <1>6, <2>1, <2>2, <2>6 DEF Moves, Stays, Sending
  <2> QED
    BY <2>4, <2>5, <2>7
<1>9. SourceFacts' /\ PoolsGain
  <2>1. \A j \in Jobs : JobFacts(j)'
    BY <1>8
  <2> QED
    BY <1>1, <2>1 DEF SourceFacts, PoolsGain
<1> QED
  BY <1>1, <1>7, <1>8, <1>9, QuotesKept

-----------------------------------------------------------------------------
(* The chain takes what it was sent.                                       *)
LEMMA ChainQuote ==
  ASSUME IQuotes, ChainStep, UNCHANGED <<session, jobVars>>
  PROVE  IQuotes'
<1>1. UNCHANGED <<phase, page, rail, source, batch, draft, receipt, session>>
  BY DEF jobVars, plan
<1>2. JobShapes' /\ SourceFacts' /\ ReceiptsAreOfTheDone'
  BY <1>1 DEF IQuotes, QuoteShapes, JobShapes, SourceFacts, JobFacts, Reused, ReceiptsAreOfTheDone
<1>3. \A x : Sent(x)' <=> Sent(x)
  BY <1>1 DEF Sent
<1>4. \A m : Sponsored(m)' <=> Sponsored(m)
  BY <1>1 DEF Sponsored
<1>5. ASSUME opPool' \subseteq opPool, pool' \subseteq pool, UNCHANGED <<mined, opCount>>
      PROVE  IQuotes'
  <2>1. PoolsGain
    BY <1>5 DEF PoolsGain
  <2> QED
    BY <1>1, <1>2, <1>5, <2>1, QuoteRests DEF plan, IQuotes, QuoteShapes, JobShapes
<1>6. ASSUME NEW o \in opPool, Drop(o)
      PROVE  IQuotes'
  BY <1>5, <1>6 DEF Drop
<1>7. ASSUME NEW t \in pool, Mine(t)
      PROVE  IQuotes'
  <2>1. PICK fate : mined' = mined \cup {[what |-> t, fate |-> fate]}
    BY <1>7 DEF Mine
  <2>2. pool' \subseteq pool /\ opPool' = opPool /\ opCount' = opCount
    BY <1>7 DEF Mine
  <2>3. Sent(t) /\ rail[t.source] = "native-gas"
    BY DEF IQuotes, PoolFacts
  <2>4. QuoteShapes'
    BY <1>1, <1>2, <2>2 DEF IQuotes, QuoteShapes
  <2>5. PoolFacts'
    BY <1>1, <1>3, <2>1, <2>2, <2>3 DEF IQuotes, PoolFacts
  <2>6. \A m \in mined' : Sponsored(m) => m \in mined
    BY <2>1, <2>3 DEF Sponsored
  <2>7. MinedOnce'
    BY <1>4, <2>2, <2>6 DEF IQuotes, MinedOnce
  <2>8. ASSUME NEW s \in Jobs, rail'[s] = "sponsored", phase'[s] \notin Early
        PROVE  \E w \in Wallets, n \in Nat : Quote(s, w, n)'
    <3>1. PICK w \in Wallets, n \in Nat : Quote(s, w, n)
      BY <1>1, <2>8 DEF IQuotes, OneQuote
    <3>2. \A m \in mined' : m.what.source = s => m \in mined
      BY <1>1, <2>1, <2>3, <2>8
    <3>3. Quote(s, w, n)'
      BY <1>1, <2>2, <3>1, <3>2 DEF Quote
    <3> QED
      BY <3>3
  <2>9. OneQuote'
    BY <2>8 DEF OneQuote
  <2> QED
    BY <1>2, <2>4, <2>5, <2>7, <2>9 DEF IQuotes
<1>8. ASSUME NEW o \in opPool, Include(o)
      PROVE  IQuotes'
  <2>1. PICK fate : mined' = mined \cup {[what |-> o, fate |-> fate]}
    BY <1>8 DEF Include
  <2>2. /\ opPool' \subseteq opPool /\ pool' \subseteq pool
        /\ opCount' = [opCount EXCEPT ![o.sender] = @ + 1] /\ o.nonce = opCount[o.sender]
    BY <1>8 DEF Include, OpValid
  <2>3. Sent(o) /\ rail[o.source] = "sponsored"
    BY DEF IQuotes, PoolFacts
  <2>4. PICK v \in Wallets, k \in Nat : Quote(o.source, v, k)
    BY <2>3 DEF Sent, IQuotes, OneQuote
  <2>5. o.sender \in Wallets /\ o.nonce \in Nat
    BY <2>4 DEF Quote
  <2>6. /\ opCount' \in [Wallets -> Nat] /\ opCount'[o.sender] = o.nonce + 1
        /\ \A w \in Wallets \ {o.sender} : opCount'[w] = opCount[w]
    BY <2>2, <2>5 DEF IQuotes, QuoteShapes
  <2>7. QuoteShapes'
    BY <1>1, <1>2, <2>6 DEF IQuotes, QuoteShapes
  <2>8. PoolFacts'
    BY <1>1, <1>3, <2>1, <2>2, <2>3 DEF IQuotes, PoolFacts
  <2>9. \A m \in mined' : m \in mined \/ (m.what = o /\ m = [what |-> o, fate |-> fate])
    BY <2>1
  <2>10. \A m \in mined : Sponsored(m) => /\ m.what.sender \in Wallets /\ m.what.nonce \in Nat
                                          /\ m.what.nonce < opCount[m.what.sender]
                                          /\ opCount[m.what.sender] \in Nat
    BY DEF IQuotes, MinedOnce, QuoteShapes
  <2>11. \A m \in mined : Sponsored(m) => m.what.nonce < opCount'[m.what.sender]
    <3>1. ASSUME NEW m \in mined, Sponsored(m)
          PROVE  m.what.nonce < opCount'[m.what.sender]
      <4>1. CASE m.what.sender = o.sender
        BY <2>2, <2>5, <2>6, <2>10, <3>1, <4>1
      <4>2. CASE m.what.sender # o.sender
        BY <2>6, <2>10, <3>1, <4>2
      <4> QED
        BY <4>1, <4>2
    <3> QED
      BY <3>1
  <2>12. \A m \in mined : Sponsored(m) /\ m.what.sender = o.sender => m.what.nonce # o.nonce
    BY <2>2, <2>5, <2>10
  <2>13. MinedOnce'
    <3>1. ASSUME NEW m \in mined', Sponsored(m)
          PROVE  m.what.sender \in Wallets /\ m.what.nonce \in Nat /\ m.what.nonce < opCount'[m.what.sender]
      <4>1. CASE m \in mined
        BY <2>10, <2>11, <3>1, <4>1
      <4>2. CASE m.what = o
        BY <2>5, <2>6, <4>2
      <4> QED
        BY <2>9, <4>1, <4>2
    <3>2. ASSUME NEW m \in mined', NEW n \in mined', Sponsored(m), Sponsored(n),
                 m.what.sender = n.what.sender, m.what.nonce = n.what.nonce
          PROVE  m = n
      <4>1. CASE m \in mined /\ n \in mined
        BY <3>2, <4>1 DEF IQuotes, MinedOnce
      <4>2. CASE m \in mined /\ n.what = o
        BY <2>12, <3>2, <4>2
      <4>3. CASE n \in mined /\ m.what = o
        BY <2>12, <3>2, <4>3
      <4> QED
        BY <2>9, <4>1, <4>2, <4>3
    <3> QED
      BY <1>4, <3>1, <3>2 DEF MinedOnce
  <2>14. ASSUME NEW s \in Jobs, rail'[s] = "sponsored", phase'[s] \notin Early
         PROVE  \E w \in Wallets, n \in Nat : Quote(s, w, n)'
    <3>1. PICK w \in Wallets, n \in Nat : Quote(s, w, n)
      BY <1>1, <2>14 DEF IQuotes, OneQuote
    <3>2. \A m \in mined' : m.what.source = s => m.what.sender = w /\ m.what.nonce = n
      BY <2>9, <3>1 DEF Quote
    <3>3. Quote(s, w, n)'
      BY <1>1, <2>2, <3>1, <3>2 DEF Quote
    <3> QED
      BY <3>3
  <2>15. OneQuote'
    BY <2>14 DEF OneQuote
  <2> QED
    BY <1>2, <2>7, <2>8, <2>13, <2>15 DEF IQuotes
<1> QED
  BY <1>6, <1>7, <1>8 DEF ChainStep

LEMMA QuotesInit ==
  ASSUME Init
  PROVE  IQuotes
<1>1. INonces
  BY NoncesInit
<1>2. QuoteShapes
  BY <1>1, SendAssumption DEF Init, InitialJobs, ChainInit, QuoteShapes, INonces
<1>3. SourceFacts
  BY DEF Init, InitialJobs, SourceFacts, JobFacts, Sending
<1>4. PoolFacts /\ MinedOnce /\ OneQuote
  BY DEF Init, InitialJobs, ChainInit, PoolFacts, MinedOnce, OneQuote, Early
<1> QED
  BY <1>2, <1>3, <1>4 DEF IQuotes

LEMMA QuotesStep ==
  ASSUME IQuotes, [Next]_vars
  PROVE  IQuotes'
<1>1. ASSUME NEW j \in Jobs, JobStep(j)
      PROVE  IQuotes'
  <2>1. CASE Asked(j)
    BY <2>1, CallQuote, ReuseQuote DEF Asked
  <2>2. CASE NextNonce(j) \/ Load(j) \/ Persist(j) \/ GetCode(j) \/ GetTransactionCount(j)
    BY <2>2, ResolveQuote
  <2>3. CASE Fail(j)
    <3>1. UNCHANGED <<session, mined, opCount, pool, opPool>> /\ Throws(j) /\ phase[j] \notin {"done", "thrown"}
      BY <2>3 DEF Fail, world, chainVars, Resolving, Preparing
    <3>2. PoolsGain
      BY <3>1 DEF PoolsGain
    <3> QED
      BY <3>1, <3>2, QuoteThrows
  <2>4. CASE PrepareSponsored(j) \/ TxNonce(j) \/ Sign(j)
    BY <2>4, PrepareQuote, TxNonceQuote, SignQuote
  <2>5. CASE SendRawTransaction(j) \/ SendUserOperation(j) \/ Wait(j)
    BY <2>5, BroadcastQuote, WaitQuote
  <2> QED
    BY <1>1, <2>1, <2>2, <2>3, <2>4, <2>5 DEF JobStep
<1>2. CASE \E p \in Pages : Switch(p) \/ Reload(p)
  BY <1>2, SwitchQuote, ReloadQuote
<1>3. CASE ChainStep /\ UNCHANGED <<allocVars, session, jobVars, reloads>>
  BY <1>3, ChainQuote
<1>4. CASE UNCHANGED vars
  <2>1. UNCHANGED <<phase, plan, batch, draft, receipt, session, mined, opCount, pool, opPool>>
    BY <1>4 DEF vars, world, jobVars, chainVars
  <2>2. ReceiptsAreOfTheDone' /\ DOMAIN receipt' = Jobs /\ session' \in [Pages -> Keys] /\ PoolsGain
    BY <2>1 DEF IQuotes, QuoteShapes, JobShapes, ReceiptsAreOfTheDone, PoolsGain
  <2> QED
    BY <2>1, <2>2, QuoteRests
<1> QED
  BY <1>1, <1>2, <1>3, <1>4 DEF Next

LEMMA OneExecution ==
  ASSUME IQuotes
  PROVE  OneQuoteOneExecution
<1> SUFFICES ASSUME NEW s \in Jobs, rail[s] = "sponsored", NEW m \in ExecutionsOf(s), NEW n \in ExecutionsOf(s)
             PROVE  m = n
  BY DEF OneQuoteOneExecution
<1>1. m \in mined /\ n \in mined /\ m.what.source = s /\ n.what.source = s
  BY DEF ExecutionsOf
<1>2. phase[s] \notin Early /\ Sponsored(m) /\ Sponsored(n)
  BY <1>1 DEF IQuotes, PoolFacts, Sent, Sponsored
<1>3. m.what.sender = n.what.sender /\ m.what.nonce = n.what.nonce
  BY <1>1, <1>2 DEF IQuotes, OneQuote, Quote
<1> QED
  BY <1>1, <1>2, <1>3 DEF IQuotes, MinedOnce

(* However often a sponsored simulation is sent - from one page, by two    *)
(* clicks, with another key after a switch of account, after its answer    *)
(* was lost, around a reload - what the user was quoted is executed once   *)
(* (client/evm.ts keeps the prepared operation with the simulation).       *)
THEOREM QuotesRunOnce == Spec => []OneQuoteOneExecution
<1>1. Init => IQuotes
  BY QuotesInit
<1>2. IQuotes /\ [Next]_vars => IQuotes'
  BY QuotesStep
<1>3. IQuotes => OneQuoteOneExecution
  BY OneExecution
<1> QED
  BY <1>1, <1>2, <1>3, PTL DEF Spec

-----------------------------------------------------------------------------
(***************************************************************************)
(* That confirmed means executed, where a key of the wallet signed.        *)
(***************************************************************************)

(* A transaction with an authorization is one of a founding key, over the  *)
(* account nonce the transaction itself leaves; one without calls a wallet *)
(* that has code.                                                          *)
Founded(t) ==
  /\ t.auth # NoAuth => WalletOf[t.from] = t.from /\ t.auth = t.nonce + 1
  /\ t.auth = NoAuth => t.to \in delegated

Prepared == [nonce : Nat, auth : Auths]
Fated == {"executed", "reverted", "nothing"}

(* What was mined used up its nonce, and met no account without code but   *)
(* as a call to somebody else's wallet.                                    *)
MinedOk(m) ==
  /\ m \in [what : Transactions \cup Operations, fate : Fated]
  /\ m.what \in Transactions =>
       /\ m.what.nonce < count[m.what.from]
       /\ m.fate = "nothing" => WalletOf[m.what.from] # m.what.to
  /\ m.what \in Operations => m.what.nonce < opCount[m.what.sender] /\ m.fate # "nothing"

ChainOk ==
  /\ count \in [Keys -> Nat] /\ delegated \subseteq Wallets
  /\ \A t \in pool : t \in Transactions /\ Founded(t)
  /\ opPool \subseteq Operations
  /\ \A m \in mined : MinedOk(m)
  /\ \A m, n \in mined : m.what = n.what => m = n

JobValues ==
  /\ batch \in [Jobs -> [wallet : Wallets, auth : Auths]]
  /\ draft \in [Jobs -> Prepared \cup Transactions \cup Operations]
  /\ endpoint \in [Jobs -> 1 .. Endpoints]
  /\ receipt \in [Jobs -> {"none", "submitted", "pending", "confirmed", "failed"}]

HasSigned(j) == phase[j] = "send" \/ (phase[j] = "done" /\ j \notin Simulations)
Resolved == {"prepareSponsored", "txNonce", "sign", "send", "done"}

(* What a job has prepared or signed ...                                   *)
DraftOk(j) ==
  /\ HasSigned(j) /\ rail[j] = "sponsored" => draft[j] \in Operations
  /\ HasSigned(j) /\ rail[j] = "native-gas" => draft[j] \in Transactions /\ Founded(draft[j])
  /\ ~HasSigned(j) => draft[j] \in Prepared
  /\ phase[j] = "prepareSponsored" => rail[j] = "sponsored"
  /\ phase[j] = "sign" /\ rail[j] = "native-gas" =>
       /\ draft[j].auth = NoAuth => batch[source[j]].auth = NoAuth
       /\ draft[j].auth # NoAuth => draft[j].auth = draft[j].nonce + 1

(* ... what it knows of its wallet ...                                     *)
BatchOk(j) ==
  source[j] = j /\ phase[j] \in Resolved /\ batch[j].auth = NoAuth => batch[j].wallet \in delegated

(* ... and what it reports: a receipt is of a send, and settled by what    *)
(* was mined.                                                              *)
ReceiptOk(j) ==
  /\ receipt[j] # "none" => j \notin Simulations
  /\ receipt[j] = "confirmed" => \E m \in mined : m.what = draft[j] /\ m.fate # "reverted"
  /\ receipt[j] = "failed" => \E m \in mined : m.what = draft[j] /\ m.fate = "reverted"

JobOk(j) == DraftOk(j) /\ BatchOk(j) /\ ReceiptOk(j)

AllocOk == AllocTypeOK /\ \A j \in Jobs : phase[j] = "persist" => current[j] # Unset

ISend ==
  /\ IQuotes /\ AllocOk /\ ChainOk /\ JobValues
  /\ reloads \in Nat
  /\ \A j \in Jobs : JobOk(j)

LEMMA OperationsAreNoTransactions ==
  ASSUME NEW t \in Transactions
  PROVE  t \notin Operations
<1>1. DOMAIN t = {"source", "to", "from", "nonce", "auth"}
  BY DEF Transactions
<1>2. ASSUME NEW o \in Operations
      PROVE  DOMAIN o = {"source", "sender", "signer", "nonce", "auth"}
  BY DEF Operations
<1> QED
  BY <1>1, <1>2

(* The chain only gains, and what a reused batch says is not written over. *)
LEMMA JobStays ==
  ASSUME NEW i \in Jobs, JobOk(i), source[i] \in Jobs,
         phase'[i] = phase[i], rail'[i] = rail[i], source'[i] = source[i], batch'[i] = batch[i],
         draft'[i] = draft[i], receipt'[i] = receipt[i],
         phase[i] = "sign" => batch'[source[i]] = batch[source[i]],
         delegated \subseteq delegated', mined \subseteq mined'
  PROVE  JobOk(i)'
<1>1. DraftOk(i)'
  BY DEF JobOk, DraftOk, HasSigned, Founded
<1>2. BatchOk(i)'
  BY DEF JobOk, BatchOk
<1>3. ReceiptOk(i)'
  BY DEF JobOk, ReceiptOk
<1> QED
  BY <1>1, <1>2, <1>3 DEF JobOk

LEMMA SendJobMoves ==
  ASSUME ISend, NEW j \in Jobs, IQuotes', AllocOk', ChainOk', JobValues', JobOk(j)',
         reloads' = reloads, delegated \subseteq delegated', mined \subseteq mined',
         \A i \in Jobs \ {j} : /\ phase'[i] = phase[i] /\ rail'[i] = rail[i] /\ source'[i] = source[i]
                                /\ batch'[i] = batch[i] /\ draft'[i] = draft[i] /\ receipt'[i] = receipt[i],
         phase[j] = "done" => batch'[j] = batch[j]
  PROVE  ISend'
<1>1. ASSUME NEW i \in Jobs \ {j}
      PROVE  JobOk(i)'
  <2>1. source[i] \in Jobs /\ JobOk(i)
    BY DEF ISend, IQuotes, QuoteShapes
  <2>2. phase[i] = "sign" => source[i] = i \/ phase[source[i]] = "done"
    BY DEF ISend, IQuotes, SourceFacts, JobFacts, Reused, Sending
  <2>3. phase[i] = "sign" => batch'[source[i]] = batch[source[i]]
    BY <2>1, <2>2
  <2> QED
    BY <2>1, <2>3, JobStays
<1> QED
  BY <1>1 DEF ISend

LEMMA ChainRests ==
  ASSUME ChainOk, UNCHANGED chainVars
  PROVE  ChainOk'
BY DEF ChainOk, MinedOk, Founded, chainVars

LEMMA AllocRests ==
  ASSUME AllocOk, UNCHANGED allocVars, \A i \in Jobs : phase'[i] = "persist" => phase[i] = "persist"
  PROVE  AllocOk'
BY DEF AllocOk, AllocTypeOK, allocVars

LEMMA SendInit ==
  ASSUME Init
  PROVE  ISend
<1>1. IQuotes
  BY QuotesInit
<1>2. Endpoints >= 1 /\ Endpoints \in Nat
  BY SendAssumption
<1>3. NoBatch \in [wallet : Wallets, auth : Auths] /\ NoDraft \in Prepared
  <2>1. NoBatch.wallet \in Wallets
    BY <1>1, WalletsExist DEF IQuotes, QuoteShapes
  <2> QED
    BY <2>1 DEF NoBatch, NoDraft, Prepared, Auths
<1>4. JobValues
  BY <1>2, <1>3 DEF Init, InitialJobs, JobValues
<1>5. AllocOk
  <2>1. \A p \in Pages, w \in Wallets : counters[p][w] = Unset
    BY DEF Init, AllocInit
  <2> QED
    BY DEF Init, AllocInit, InitialJobs, AllocOk, AllocTypeOK
<1>6. ChainOk
  BY SendAssumption DEF Init, ChainInit, ChainOk
<1>7. ASSUME NEW j \in Jobs
      PROVE  JobOk(j)
  BY <1>3 DEF Init, InitialJobs, JobOk, DraftOk, BatchOk, ReceiptOk, HasSigned, Resolved
<1> QED
  BY <1>1, <1>4, <1>5, <1>6, <1>7 DEF ISend, Init

(* Where a job is after it went on.                                        *)
LEMMA Gone ==
  ASSUME ISend, NEW j \in Jobs, NEW there, Goto(j, there)
  PROVE  phase'[j] = there /\ \A i \in Jobs \ {j} : phase'[i] = phase[i]
BY DEF Goto, ISend, IQuotes, QuoteShapes, JobShapes

LEMMA NoReceiptYet ==
  ASSUME ISend, NEW j \in Jobs, phase[j] # "done"
  PROVE  receipt[j] = "none"
BY DEF ISend, IQuotes, QuoteShapes, ReceiptsAreOfTheDone

LEMMA SendThrows ==
  ASSUME ISend, NEW j \in Jobs, phase[j] # "done", Throws(j), IQuotes', AllocOk', ChainOk',
         UNCHANGED <<mined, delegated, reloads>>
  PROVE  ISend'
<1>1. phase'[j] = "thrown" /\ \A i \in Jobs \ {j} : phase'[i] = phase[i]
  BY Gone DEF Throws
<1>2. NoBatch \in [wallet : Wallets, auth : Auths] /\ NoDraft \in Prepared
  <2>1. NoBatch.wallet \in Wallets
    BY WalletsExist DEF ISend, IQuotes, QuoteShapes
  <2> QED
    BY <2>1 DEF NoBatch, NoDraft, Prepared, Auths
<1>3. 1 \in 1 .. Endpoints
  BY SendAssumption
<1>4. JobValues' /\ draft'[j] = NoDraft
      /\ \A i \in Jobs \ {j} : batch'[i] = batch[i] /\ draft'[i] = draft[i]
  BY <1>2, <1>3 DEF ISend, JobValues, Throws
<1>5. JobOk(j)'
  <2>1. receipt'[j] = "none"
    BY NoReceiptYet DEF Throws
  <2>2. DraftOk(j)'
    BY <1>1, <1>2, <1>4 DEF DraftOk, HasSigned
  <2>3. BatchOk(j)' /\ ReceiptOk(j)'
    BY <1>1, <2>1 DEF BatchOk, ReceiptOk, Resolved
  <2> QED
    BY <2>2, <2>3 DEF JobOk
<1>6. UNCHANGED <<rail, source, receipt>>
  BY DEF Throws, plan
<1> QED
  BY <1>1, <1>4, <1>5, <1>6, SendJobMoves

(* A job that is not over goes on, with a batch and a draft that fit.      *)
LEMMA SendGoes ==
  ASSUME ISend, NEW j \in Jobs, phase[j] # "done", NEW there, Goto(j, there),
         UNCHANGED <<plan, receipt, endpoint, chainVars, reloads>>, IQuotes', AllocOk',
         batch' \in [Jobs -> [wallet : Wallets, auth : Auths]],
         draft' \in [Jobs -> Prepared \cup Transactions \cup Operations],
         \A i \in Jobs \ {j} : batch'[i] = batch[i] /\ draft'[i] = draft[i],
         phase'[j] = there => DraftOk(j)' /\ BatchOk(j)'
  PROVE  ISend'
<1>1. phase'[j] = there /\ \A i \in Jobs \ {j} : phase'[i] = phase[i]
  BY Gone
<1>2. JobValues'
  BY DEF ISend, JobValues
<1>3. ReceiptOk(j)'
  BY NoReceiptYet DEF ReceiptOk
<1>4. JobOk(j)'
  BY <1>1, <1>3 DEF JobOk
<1>5. ChainOk' /\ UNCHANGED <<rail, source, mined, delegated>>
  BY ChainRests DEF ISend, plan, chainVars
<1> QED
  BY <1>1, <1>2, <1>4, <1>5, SendJobMoves

-----------------------------------------------------------------------------
LEMMA CallSend ==
  ASSUME ISend, NEW j \in Jobs, NEW r, Call(j, r), IQuotes'
  PROVE  ISend'
<1>1. PICK there \in {"next", "thrown"} : Goto(j, there)
  BY DEF Call
<1>2. phase'[j] = there /\ \A i \in Jobs \ {j} : phase'[i] = phase[i]
  BY <1>1, Gone
<1>3. UNCHANGED <<allocVars, chainVars, reloads, source, draft, endpoint, receipt>> /\ phase[j] = "idle"
  BY DEF Call, world
<1>4. AllocOk' /\ ChainOk'
  BY <1>2, <1>3, AllocRests, ChainRests DEF ISend
<1>5. [wallet |-> WalletIn(page[j]), auth |-> NoAuth] \in [wallet : Wallets, auth : Auths]
  BY WalletsExist DEF ISend, IQuotes, QuoteShapes, JobShapes, Auths
<1>6. JobValues' /\ \A i \in Jobs \ {j} : batch'[i] = batch[i]
  BY <1>3, <1>5 DEF ISend, JobValues, Call
<1>7. \A i \in Jobs \ {j} : rail'[i] = rail[i]
  BY DEF Call, ISend, IQuotes, QuoteShapes
<1>8. JobOk(j)'
  <2>1. draft[j] \in Prepared /\ receipt[j] = "none"
    BY <1>3, NoReceiptYet DEF ISend, JobOk, DraftOk, HasSigned
  <2> QED
    BY <1>2, <1>3, <2>1 DEF JobOk, DraftOk, BatchOk, ReceiptOk, HasSigned, Resolved
<1>9. UNCHANGED <<mined, delegated>>
  BY <1>3 DEF chainVars
<1> QED
  BY <1>2, <1>3, <1>4, <1>6, <1>7, <1>8, <1>9, SendJobMoves

LEMMA ReuseSend ==
  ASSUME ISend, NEW j \in Jobs, NEW s \in Jobs, Reuse(j, s), IQuotes'
  PROVE  ISend'
<1>1. PICK there \in {"sign", "txNonce"} : Goto(j, there) /\ (there = "sign" => rail[s] = "sponsored")
  BY DEF Reuse
<1>2. phase'[j] = there /\ \A i \in Jobs \ {j} : phase'[i] = phase[i]
  BY <1>1, Gone
<1>3. UNCHANGED <<allocVars, chainVars, reloads, batch, endpoint, receipt>> /\ phase[j] = "idle"
  BY DEF Reuse, world
<1>4. AllocOk' /\ ChainOk'
  BY <1>2, <1>3, AllocRests, ChainRests DEF ISend
<1>5. /\ rail'[j] = rail[s] /\ source'[j] = s /\ j # s
      /\ \A i \in Jobs \ {j} : rail'[i] = rail[i] /\ source'[i] = source[i]
  BY DEF Reuse, ISend, IQuotes, QuoteShapes
<1>6. draft[s] \in Prepared
  BY DEF Reuse, ISend, JobOk, DraftOk, HasSigned
<1>7. JobValues' /\ draft'[j] = draft[s] /\ \A i \in Jobs \ {j} : draft'[i] = draft[i]
  BY <1>3, <1>6 DEF ISend, JobValues, Reuse
<1>8. JobOk(j)'
  <2>1. receipt[j] = "none"
    BY <1>3, NoReceiptYet
  <2>2. DraftOk(j)'
    BY <1>1, <1>2, <1>5, <1>6, <1>7 DEF DraftOk, HasSigned
  <2>3. BatchOk(j)' /\ ReceiptOk(j)'
    BY <1>3, <1>5, <2>1 DEF BatchOk, ReceiptOk
  <2> QED
    BY <2>2, <2>3 DEF JobOk
<1>9. UNCHANGED <<mined, delegated>>
  BY <1>3 DEF chainVars
<1> QED
  BY <1>2, <1>3, <1>4, <1>5, <1>7, <1>8, <1>9, SendJobMoves

(* A job that has not prepared anything goes on.                           *)
LEMMA SendResolves ==
  ASSUME ISend, NEW j \in Jobs, NEW there, phase[j] \notin {"done", "sign", "send"}, Goto(j, there),
         there \notin {"sign", "send"}, there = "done" => j \in Simulations,
         there = "prepareSponsored" => rail[j] = "sponsored",
         UNCHANGED <<plan, draft, receipt, endpoint, chainVars, reloads>>, IQuotes', AllocOk',
         batch' \in [Jobs -> [wallet : Wallets, auth : Auths]],
         \A i \in Jobs \ {j} : batch'[i] = batch[i],
         there \in Resolved /\ batch'[j].auth = NoAuth => batch'[j].wallet \in delegated
  PROVE  ISend'
<1>1. draft[j] \in Prepared
  BY DEF ISend, JobOk, DraftOk, HasSigned
<1>2. ASSUME phase'[j] = there
      PROVE  DraftOk(j)' /\ BatchOk(j)'
  <2>1. DraftOk(j)'
    BY <1>1, <1>2 DEF DraftOk, HasSigned, plan
  <2>2. BatchOk(j)'
    BY <1>2 DEF BatchOk, chainVars
  <2> QED
    BY <2>1, <2>2
<1>3. draft' \in [Jobs -> Prepared \cup Transactions \cup Operations]
  BY DEF ISend, JobValues
<1>4. \A i \in Jobs \ {j} : draft'[i] = draft[i]
  OBVIOUS
<1> QED
  BY <1>2, <1>3, <1>4, SendGoes

-----------------------------------------------------------------------------
(* The allocation of an intent nonce.                                      *)
LEMMA TakesNumber ==
  ASSUME AllocOk, NEW j \in Jobs, NEW p \in Pages, NEW w \in Wallets, NEW n \in Nat, Take(j, p, w, n),
         tail' \in [Pages -> Jobs \cup {NoJob}], stored' = stored,
         \A i \in Jobs \ {j} : phase'[i] = phase[i]
  PROVE  AllocOk'
<1>1. n + 1 \in Nat \cup {Unset} /\ n \in Nat \cup {Unset} /\ n # Unset
  BY SendAssumption
<1>2. /\ current' \in [Jobs -> Nat \cup {Unset}] /\ current'[j] = n
      /\ \A i \in Jobs \ {j} : current'[i] = current[i]
  BY <1>1 DEF Take, AllocOk, AllocTypeOK
<1>3. counters' \in [Pages -> [Wallets -> Nat \cup {Unset}]]
  BY <1>1 DEF Take, AllocOk, AllocTypeOK
<1> QED
  BY <1>1, <1>2, <1>3 DEF AllocOk, AllocTypeOK

LEMMA NextNonceSend ==
  ASSUME ISend, NEW j \in Jobs, NextNonce(j), IQuotes'
  PROVE  ISend'
<1>1. page[j] \in Pages /\ batch[j].wallet \in Wallets
  BY DEF ISend, IQuotes, QuoteShapes, JobShapes
<1>2. UNCHANGED <<plan, batch, draft, receipt, endpoint, chainVars, reloads>> /\ phase[j] = "next"
  BY DEF NextNonce
<1>3. PICK there \in {"persist", "load"} : Goto(j, there)
  BY DEF NextNonce
<1>4. phase'[j] = there /\ \A i \in Jobs \ {j} : phase'[i] = phase[i]
  BY <1>3, Gone
<1>5. AllocOk'
  <2>1. CASE NextFromMemory(j, page[j], batch[j].wallet)
    <3>1. PICK n \in Nat : n = counters[page[j]][batch[j].wallet]
      BY <1>1, <2>1 DEF NextFromMemory, ISend, AllocOk, AllocTypeOK
    <3>2. tail' \in [Pages -> Jobs \cup {NoJob}] /\ stored' = stored /\ Take(j, page[j], batch[j].wallet, n)
      BY <2>1, <3>1 DEF NextFromMemory, ISend, AllocOk, AllocTypeOK
    <3> QED
      BY <1>1, <1>4, <3>2, TakesNumber DEF ISend
  <2>2. CASE NextFromStore(j, page[j], batch[j].wallet) /\ Goto(j, "load")
    <3>1. phase'[j] = "load"
      BY <2>2, Gone
    <3> QED
      BY <1>4, <2>2, <3>1 DEF NextFromStore, ISend, AllocOk, AllocTypeOK
  <2> QED
    BY <2>1, <2>2 DEF NextNonce
<1>6. batch' \in [Jobs -> [wallet : Wallets, auth : Auths]] /\ \A i \in Jobs \ {j} : batch'[i] = batch[i]
  BY <1>2 DEF ISend, JobValues
<1> QED
  BY <1>2, <1>3, <1>5, <1>6, SendResolves DEF Resolved

LEMMA LoadSend ==
  ASSUME ISend, NEW j \in Jobs, Load(j), IQuotes'
  PROVE  ISend'
<1>1. page[j] \in Pages /\ batch[j].wallet \in Wallets
  BY DEF ISend, IQuotes, QuoteShapes, JobShapes
<1>2. UNCHANGED <<plan, batch, draft, receipt, endpoint, chainVars, reloads>> /\ phase[j] = "load"
      /\ Goto(j, "persist")
  BY DEF Load
<1>3. \A i \in Jobs \ {j} : phase'[i] = phase[i]
  BY <1>2, Gone
<1>4. AllocOk'
  <2>1. PICK n \in Nat : n = stored[StoreOf[page[j]]][batch[j].wallet]
    BY <1>1, SendAssumption DEF ISend, AllocOk, AllocTypeOK
  <2>2. tail' \in [Pages -> Jobs \cup {NoJob}] /\ stored' = stored /\ Take(j, page[j], batch[j].wallet, n)
    BY <2>1 DEF Load, Loaded, ISend, AllocOk, AllocTypeOK
  <2> QED
    BY <1>1, <1>3, <2>2, TakesNumber DEF ISend
<1>5. batch' \in [Jobs -> [wallet : Wallets, auth : Auths]] /\ \A i \in Jobs \ {j} : batch'[i] = batch[i]
  BY <1>2 DEF ISend, JobValues
<1> QED
  BY <1>2, <1>4, <1>5, SendResolves DEF Resolved

LEMMA PersistSend ==
  ASSUME ISend, NEW j \in Jobs, Persist(j), IQuotes'
  PROVE  ISend'
<1>1. page[j] \in Pages /\ batch[j].wallet \in Wallets
  BY DEF ISend, IQuotes, QuoteShapes, JobShapes
<1>2. UNCHANGED <<chainVars, reloads, current, counters>> /\ phase[j] = "persist"
  BY DEF Persist, Persisted, PersistFailed
<1>3. PICK n \in Nat : n = current[j]
  BY <1>2 DEF ISend, AllocOk, AllocTypeOK
<1>4. tail' \in [Pages -> Jobs \cup {NoJob}]
  BY DEF Persist, Persisted, PersistFailed, ISend, AllocOk, AllocTypeOK
<1>5. PICK there \in {"getCode", "thrown"} : Goto(j, there)
  BY DEF Persist, Throws
<1>6. phase'[j] = there /\ \A i \in Jobs \ {j} : phase'[i] = phase[i]
  BY <1>5, Gone
<1>7. CASE Persisted(j, page[j], batch[j].wallet) /\ Goto(j, "getCode")
           /\ UNCHANGED <<plan, batch, draft, endpoint, receipt>>
  <2>1. stored' = [stored EXCEPT ![StoreOf[page[j]]][batch[j].wallet] = n + 1] /\ n + 1 \in Nat
    BY <1>3, <1>7 DEF Persisted
  <2>2. stored' \in [Stores -> [Wallets -> Nat]]
    BY <2>1 DEF ISend, AllocOk, AllocTypeOK
  <2>3. AllocOk'
    BY <1>2, <1>4, <1>6, <2>2 DEF ISend, AllocOk, AllocTypeOK
  <2>4. batch' \in [Jobs -> [wallet : Wallets, auth : Auths]] /\ \A i \in Jobs \ {j} : batch'[i] = batch[i]
    BY <1>7 DEF ISend, JobValues
  <2> QED
    BY <1>2, <1>7, <2>3, <2>4, SendResolves DEF Resolved
<1>8. CASE PersistFailed(j, page[j]) /\ Throws(j)
  <2>1. AllocOk'
    BY <1>2, <1>4, <1>6, <1>8 DEF PersistFailed, ISend, AllocOk, AllocTypeOK
  <2>2. ChainOk' /\ UNCHANGED <<mined, delegated>>
    BY <1>2, ChainRests DEF ISend, chainVars
  <2> QED
    BY <1>2, <1>8, <2>1, <2>2, SendThrows
<1> QED
  BY <1>7, <1>8 DEF Persist

-----------------------------------------------------------------------------
(* What the wallet is: with code, or with an authorization to come.        *)
LEMMA GetCodeSend ==
  ASSUME ISend, NEW j \in Jobs, GetCode(j), IQuotes'
  PROVE  ISend'
<1>1. UNCHANGED <<allocVars, plan, batch, draft, receipt, endpoint, chainVars, reloads>> /\ phase[j] = "getCode"
  BY DEF GetCode, world
<1>2. PICK there : /\ Goto(j, there) /\ there \in {"prepareSponsored", "done", "txNonce", "getTransactionCount"}
                   /\ there = "done" => j \in Simulations
                   /\ there = "prepareSponsored" => rail[j] = "sponsored"
                   /\ there # "getTransactionCount" => batch[j].wallet \in delegated
  BY DEF GetCode, AfterResolve
<1>3. phase'[j] = there /\ \A i \in Jobs \ {j} : phase'[i] = phase[i]
  BY <1>2, Gone
<1>4. AllocOk'
  BY <1>1, <1>2, <1>3, AllocRests DEF ISend
<1>5. batch' \in [Jobs -> [wallet : Wallets, auth : Auths]] /\ batch'[j] = batch[j]
      /\ \A i \in Jobs \ {j} : batch'[i] = batch[i]
  BY <1>1 DEF ISend, JobValues
<1> QED
  BY <1>1, <1>2, <1>4, <1>5, SendResolves DEF Resolved

LEMMA TransactionCountSend ==
  ASSUME ISend, NEW j \in Jobs, GetTransactionCount(j), IQuotes'
  PROVE  ISend'
<1>1. UNCHANGED <<allocVars, plan, draft, receipt, endpoint, chainVars, reloads>>
      /\ phase[j] = "getTransactionCount"
  BY DEF GetTransactionCount, world
<1>2. PICK there : /\ Goto(j, there) /\ there \in {"prepareSponsored", "done", "txNonce"}
                   /\ there = "done" => j \in Simulations
                   /\ there = "prepareSponsored" => rail[j] = "sponsored"
  BY DEF GetTransactionCount, AfterResolve
<1>3. phase'[j] = there /\ \A i \in Jobs \ {j} : phase'[i] = phase[i]
  BY <1>2, Gone
<1>4. AllocOk'
  BY <1>1, <1>2, <1>3, AllocRests DEF ISend
<1>5. PICK n \in Nat : n = count[batch[j].wallet]
  <2>1. batch[j].wallet \in Keys
    BY SendAssumption DEF ISend, JobValues, Founding
  <2> QED
    BY <2>1 DEF ISend, ChainOk
<1>6. batch' \in [Jobs -> [wallet : Wallets, auth : Auths]] /\ batch'[j].auth = n
      /\ \A i \in Jobs \ {j} : batch'[i] = batch[i]
  <2>1. n \in Auths
    BY DEF Auths
  <2>2. batch' = [batch EXCEPT ![j].auth = n]
    BY <1>5 DEF GetTransactionCount
  <2>3. batch'[j] = [batch[j] EXCEPT !.auth = n] /\ batch[j] \in [wallet : Wallets, auth : Auths]
    BY <2>2 DEF ISend, JobValues
  <2>4. batch'[j] \in [wallet : Wallets, auth : Auths] /\ batch'[j].auth = n
    BY <2>1, <2>3
  <2> QED
    BY <2>2, <2>4 DEF ISend, JobValues
<1>7. n # NoAuth
  BY SendAssumption
<1> QED
  BY <1>1, <1>2, <1>4, <1>6, <1>7, SendResolves

-----------------------------------------------------------------------------
(* What a job prepares and signs.                                          *)
LEMMA PrepareSend ==
  ASSUME ISend, NEW j \in Jobs, PrepareSponsored(j), IQuotes'
  PROVE  ISend'
<1>1. UNCHANGED <<allocVars, plan, batch, receipt, endpoint, chainVars, reloads>>
      /\ phase[j] = "prepareSponsored"
  BY DEF PrepareSponsored, world
<1>2. PICK there : Goto(j, there) /\ there = IF j \in Simulations THEN "done" ELSE "sign"
  BY DEF PrepareSponsored
<1>3. phase'[j] = there /\ \A i \in Jobs \ {j} : phase'[i] = phase[i]
  BY <1>2, Gone
<1>4. AllocOk'
  BY <1>1, <1>2, <1>3, AllocRests DEF ISend
<1>5. PICK n \in Nat, auth \in Auths : n = opCount[BatchOf(j).wallet] /\ auth = BatchOf(j).auth
  BY DEF BatchOf, ISend, JobValues, IQuotes, QuoteShapes
<1>6. [nonce |-> n, auth |-> auth] \in Prepared /\ draft' = [draft EXCEPT ![j] = [nonce |-> n, auth |-> auth]]
  BY <1>5 DEF Prepared, PrepareSponsored
<1>7. /\ draft' \in [Jobs -> Prepared \cup Transactions \cup Operations] /\ draft'[j] \in Prepared
      /\ \A i \in Jobs \ {j} : draft'[i] = draft[i]
  BY <1>6 DEF ISend, JobValues
<1>8. rail[j] = "sponsored" /\ BatchOk(j)
  BY <1>1 DEF ISend, JobOk, DraftOk
<1>9. DraftOk(j)' /\ BatchOk(j)'
  <2>1. DraftOk(j)'
    BY <1>1, <1>2, <1>3, <1>7, <1>8 DEF DraftOk, HasSigned, plan
  <2>2. BatchOk(j)'
    BY <1>1, <1>8 DEF BatchOk, Resolved, chainVars, plan
  <2> QED
    BY <2>1, <2>2
<1>10. batch' \in [Jobs -> [wallet : Wallets, auth : Auths]] /\ \A i \in Jobs \ {j} : batch'[i] = batch[i]
  BY <1>1 DEF ISend, JobValues
<1> QED
  BY <1>1, <1>2, <1>4, <1>7, <1>9, <1>10, SendGoes

LEMMA TxNonceSend ==
  ASSUME ISend, NEW j \in Jobs, TxNonce(j), IQuotes'
  PROVE  ISend'
<1>1. UNCHANGED <<allocVars, plan, batch, receipt, endpoint, chainVars, reloads>>
      /\ phase[j] = "txNonce" /\ Goto(j, "sign")
  BY DEF TxNonce, world
<1>2. phase'[j] = "sign" /\ \A i \in Jobs \ {j} : phase'[i] = phase[i]
  BY <1>1, Gone
<1>3. AllocOk'
  BY <1>1, <1>2, AllocRests DEF ISend
<1>4. PICK n \in Nat : n = count[session[page[j]]]
  BY DEF ISend, ChainOk, IQuotes, QuoteShapes, JobShapes
<1>5. PICK auth \in Auths : /\ auth = AuthorizationOver(j, n)
                            /\ auth = NoAuth => batch[source[j]].auth = NoAuth
                            /\ auth # NoAuth => auth = n + 1
  BY SendAssumption DEF AuthorizationOver, BatchOf, Auths
<1>6. [nonce |-> n, auth |-> auth] \in Prepared /\ draft' = [draft EXCEPT ![j] = [nonce |-> n, auth |-> auth]]
  BY <1>4, <1>5 DEF Prepared, TxNonce
<1>7. /\ draft' \in [Jobs -> Prepared \cup Transactions \cup Operations]
      /\ draft'[j] = [nonce |-> n, auth |-> auth]
      /\ \A i \in Jobs \ {j} : draft'[i] = draft[i]
  BY <1>6 DEF ISend, JobValues
<1>8. DraftOk(j)'
  <2>1. draft'[j] \in Prepared /\ draft'[j].auth = auth /\ draft'[j].nonce = n
    BY <1>6, <1>7
  <2> QED
    BY <1>1, <1>2, <1>5, <2>1 DEF DraftOk, HasSigned, plan
<1>9. BatchOk(j)'
  <2>1. BatchOk(j)
    BY DEF ISend, JobOk
  <2> QED
    BY <1>1, <2>1 DEF BatchOk, Resolved, chainVars, plan
<1>10. batch' \in [Jobs -> [wallet : Wallets, auth : Auths]] /\ \A i \in Jobs \ {j} : batch'[i] = batch[i]
  BY <1>1 DEF ISend, JobValues
<1> QED
  BY <1>1, <1>3, <1>7, <1>8, <1>9, <1>10, SendGoes

LEMMA FailSend ==
  ASSUME ISend, NEW j \in Jobs, Fail(j), IQuotes'
  PROVE  ISend'
<1>1. UNCHANGED <<allocVars, chainVars, reloads>> /\ Throws(j) /\ phase[j] # "done"
  BY DEF Fail, world, Resolving, Preparing
<1>2. phase'[j] = "thrown" /\ \A i \in Jobs \ {j} : phase'[i] = phase[i]
  BY <1>1, Gone DEF Throws
<1>3. AllocOk' /\ ChainOk' /\ UNCHANGED <<mined, delegated>>
  BY <1>1, <1>2, AllocRests, ChainRests DEF ISend, chainVars
<1> QED
  BY <1>1, <1>3, SendThrows

(* What is signed without an authorization calls a wallet that has code.   *)
LEMMA SignedFits ==
  ASSUME ISend, NEW j \in Jobs, phase[j] = "sign", MaySign(session[page[j]], draft[j].auth)
  PROVE  /\ rail[j] = "sponsored" => Signed(j) \in Operations
         /\ rail[j] = "native-gas" => Signed(j) \in Transactions /\ Founded(Signed(j))
<1>1. PICK s \in Jobs : s = source[j]
  BY DEF ISend, IQuotes, QuoteShapes
<1>2. PICK w \in Wallets, a \in Auths : w = BatchOf(j).wallet /\ a = BatchOf(j).auth /\ batch[s].wallet = w /\ batch[s].auth = a
  BY <1>1 DEF BatchOf, ISend, JobValues
<1>3. PICK n \in Nat, auth \in Auths : draft[j].nonce = n /\ draft[j].auth = auth
  BY DEF ISend, JobOk, DraftOk, HasSigned, Prepared
<1>4. PICK key \in Keys : key = session[page[j]]
  BY DEF ISend, IQuotes, QuoteShapes, JobShapes
<1>5. ASSUME rail[j] = "sponsored"
      PROVE  Signed(j) \in Operations
  <2>1. Signed(j) = [source |-> s, sender |-> w, signer |-> key, nonce |-> n, auth |-> auth]
    BY <1>1, <1>2, <1>3, <1>4, <1>5 DEF Signed
  <2> QED
    BY <2>1 DEF Operations
<1>6. ASSUME rail[j] = "native-gas"
      PROVE  Signed(j) \in Transactions /\ Founded(Signed(j))
  <2>1. Signed(j) = [source |-> s, to |-> w, from |-> key, nonce |-> n, auth |-> auth]
    BY <1>1, <1>2, <1>3, <1>4, <1>6 DEF Signed
  <2>2. Signed(j) \in Transactions /\ Signed(j).from = key /\ Signed(j).auth = auth /\ Signed(j).nonce = n
        /\ Signed(j).to = w
    BY <2>1 DEF Transactions
  <2>3. auth # NoAuth => WalletOf[key] = key /\ auth = n + 1
    BY <1>3, <1>4, <1>6 DEF MaySign, ISend, JobOk, DraftOk
  <2>4. auth = NoAuth => a = NoAuth
    BY <1>1, <1>2, <1>3, <1>6 DEF ISend, JobOk, DraftOk
  <2>5. source[s] = s /\ phase[s] \in Resolved
    BY <1>1 DEF ISend, IQuotes, SourceFacts, JobFacts, Reused, Sending, Resolved
  <2>6. auth = NoAuth => w \in delegated
    BY <1>2, <2>4, <2>5 DEF ISend, JobOk, BatchOk
  <2> QED
    BY <2>2, <2>3, <2>6 DEF Founded
<1> QED
  BY <1>5, <1>6

LEMMA SignSend ==
  ASSUME ISend, NEW j \in Jobs, Sign(j), IQuotes'
  PROVE  ISend'
<1>1. UNCHANGED <<allocVars, chainVars, reloads>> /\ phase[j] = "sign"
  BY DEF Sign, world
<1>2. CASE MaySign(session[page[j]], draft[j].auth)
  <2>1. draft' = [draft EXCEPT ![j] = Signed(j)] /\ Goto(j, "send")
        /\ UNCHANGED <<plan, batch, receipt, endpoint>>
    BY <1>2 DEF Sign
  <2>2. phase'[j] = "send" /\ \A i \in Jobs \ {j} : phase'[i] = phase[i]
    BY <2>1, Gone
  <2>3. AllocOk'
    BY <1>1, <2>2, AllocRests DEF ISend
  <2>4. /\ rail[j] = "sponsored" => Signed(j) \in Operations
        /\ rail[j] = "native-gas" => Signed(j) \in Transactions /\ Founded(Signed(j))
        /\ rail[j] \in {"sponsored", "native-gas"}
    BY <1>1, <1>2, SignedFits DEF ISend, IQuotes, QuoteShapes
  <2>5. /\ draft' \in [Jobs -> Prepared \cup Transactions \cup Operations] /\ draft'[j] = Signed(j)
        /\ \A i \in Jobs \ {j} : draft'[i] = draft[i]
    BY <2>1, <2>4 DEF ISend, JobValues
  <2>6. DraftOk(j)'
    <3>1. delegated' = delegated /\ rail' = rail
      BY <1>1, <2>1 DEF chainVars, plan
    <3>2. rail[j] = "native-gas" => Founded(draft[j])'
      BY <2>4, <2>5, <3>1 DEF Founded
    <3> QED
      BY <2>2, <2>4, <2>5, <3>1, <3>2 DEF DraftOk, HasSigned
  <2>7. BatchOk(j)'
    <3>1. BatchOk(j)
      BY DEF ISend, JobOk
    <3> QED
      BY <1>1, <2>1, <3>1 DEF BatchOk, Resolved, chainVars, plan
  <2>8. batch' \in [Jobs -> [wallet : Wallets, auth : Auths]] /\ \A i \in Jobs \ {j} : batch'[i] = batch[i]
    BY <2>1 DEF ISend, JobValues
  <2> QED
    BY <1>1, <2>1, <2>3, <2>5, <2>6, <2>7, <2>8, SendGoes
<1>3. CASE ~MaySign(session[page[j]], draft[j].auth)
  <2>1. Throws(j)
    BY <1>3 DEF Sign
  <2>2. phase'[j] = "thrown" /\ \A i \in Jobs \ {j} : phase'[i] = phase[i]
    BY <2>1, Gone DEF Throws
  <2>3. AllocOk' /\ ChainOk' /\ UNCHANGED <<mined, delegated>>
    BY <1>1, <2>2, AllocRests, ChainRests DEF ISend, chainVars
  <2> QED
    BY <1>1, <2>1, <2>3, SendThrows
<1> QED
  BY <1>2, <1>3

-----------------------------------------------------------------------------
(* What a job broadcasts, and what it is answered.                         *)
LEMMA PoolsTake ==
  ASSUME ISend, NEW j \in Jobs, phase[j] = "send",
         pool' \subseteq pool \/ (rail[j] = "native-gas" /\ pool' \subseteq pool \cup {draft[j]}),
         opPool' \subseteq opPool \/ (rail[j] = "sponsored" /\ opPool' \subseteq opPool \cup {draft[j]}),
         UNCHANGED <<count, opCount, delegated, mined>>
  PROVE  ChainOk'
<1>1. /\ rail[j] = "sponsored" => draft[j] \in Operations
      /\ rail[j] = "native-gas" => draft[j] \in Transactions /\ Founded(draft[j])
  BY DEF ISend, JobOk, DraftOk, HasSigned
<1>2. \A t \in pool' : t \in Transactions /\ Founded(t)
  BY <1>1 DEF ISend, ChainOk
<1>3. opPool' \subseteq Operations
  BY <1>1 DEF ISend, ChainOk
<1> QED
  BY <1>2, <1>3 DEF ISend, ChainOk, MinedOk, Founded

LEMMA HandOffSend ==
  ASSUME ISend, NEW j \in Jobs, NEW status \in {"submitted", "pending"}, phase[j] = "send", HandOff(j, status),
         UNCHANGED <<mined, delegated, reloads>>, IQuotes', AllocOk', ChainOk'
  PROVE  ISend'
<1>1. phase'[j] = "done" /\ \A i \in Jobs \ {j} : phase'[i] = phase[i]
  BY Gone DEF HandOff
<1>2. UNCHANGED <<page, rail, source, batch, draft>>
  BY DEF HandOff, plan
<1>3. 1 \in 1 .. Endpoints
  BY SendAssumption
<1>4. JobValues' /\ receipt'[j] = status /\ \A i \in Jobs \ {j} : receipt'[i] = receipt[i]
  BY <1>2, <1>3 DEF HandOff, ISend, JobValues
<1>5. j \notin Simulations
  BY DEF ISend, IQuotes, SourceFacts, JobFacts, Sending
<1>6. JobOk(j)'
  <2>1. DraftOk(j) /\ BatchOk(j) /\ HasSigned(j)
    BY DEF ISend, JobOk, HasSigned
  <2>2. HasSigned(j)'
    BY <1>1, <1>5 DEF HasSigned
  <2>3. Founded(draft[j]) => Founded(draft[j])'
    BY <1>2 DEF Founded
  <2>4. DraftOk(j)'
    BY <1>1, <1>2, <2>1, <2>2, <2>3 DEF DraftOk
  <2>5. BatchOk(j)'
    BY <1>2, <2>1 DEF BatchOk, Resolved
  <2>6. ReceiptOk(j)'
    BY <1>4, <1>5 DEF ReceiptOk
  <2> QED
    BY <2>4, <2>5, <2>6 DEF JobOk
<1> QED
  BY <1>1, <1>2, <1>4, <1>6, SendJobMoves

LEMMA FailOverSend ==
  ASSUME ISend, NEW j \in Jobs, phase[j] = "send", FailOver(j), UNCHANGED <<mined, delegated, reloads>>,
         IQuotes', AllocOk', ChainOk'
  PROVE  ISend'
<1>1. CASE endpoint[j] < Endpoints
  <2>1. endpoint' = [endpoint EXCEPT ![j] = @ + 1] /\ UNCHANGED <<phase, plan, batch, draft, receipt>>
    BY <1>1 DEF FailOver
  <2>2. endpoint[j] + 1 \in 1 .. Endpoints
    BY <1>1, SendAssumption DEF ISend, JobValues
  <2>3. JobValues'
    BY <2>1, <2>2 DEF ISend, JobValues
  <2>4. UNCHANGED <<rail, source>>
    BY <2>1 DEF plan
  <2>5. \A i \in Jobs : JobOk(i)'
    <3>1. ASSUME NEW i \in Jobs
          PROVE  JobOk(i)'
      <4>1. JobOk(i) /\ source[i] \in Jobs
        BY DEF ISend, IQuotes, QuoteShapes
      <4> QED
        BY <2>1, <2>4, <4>1, JobStays
    <3> QED
      BY <3>1
  <2> QED
    BY <2>3, <2>5 DEF ISend
<1>2. CASE ~(endpoint[j] < Endpoints)
  <2>1. Throws(j)
    BY <1>2 DEF FailOver
  <2> QED
    BY <2>1, SendThrows
<1> QED
  BY <1>1, <1>2

LEMMA BroadcastSend ==
  ASSUME ISend, NEW j \in Jobs, SendRawTransaction(j) \/ SendUserOperation(j), IQuotes'
  PROVE  ISend'
<1>1. phase[j] = "send" /\ UNCHANGED <<allocVars, reloads, count, opCount, delegated, mined>>
  BY DEF SendRawTransaction, SendUserOperation
<1>2. \/ \E status \in {"submitted", "pending"} : HandOff(j, status)
      \/ FailOver(j)
      \/ Throws(j)
  BY DEF SendRawTransaction, SendUserOperation
<1>3. \A i \in Jobs : phase'[i] = "persist" => phase[i] = "persist"
  BY <1>1, <1>2, Gone DEF HandOff, FailOver, Throws
<1>4. AllocOk'
  BY <1>1, <1>3, AllocRests DEF ISend
<1>5. pool' \subseteq pool \/ (rail[j] = "native-gas" /\ pool' \subseteq pool \cup {draft[j]})
  BY DEF SendRawTransaction, SendUserOperation, Admit
<1>6. opPool' \subseteq opPool \/ (rail[j] = "sponsored" /\ opPool' \subseteq opPool \cup {draft[j]})
  BY DEF SendRawTransaction, SendUserOperation
<1>7. ChainOk'
  BY <1>1, <1>5, <1>6, PoolsTake
<1> QED
  BY <1>1, <1>2, <1>4, <1>7, HandOffSend, FailOverSend, SendThrows

(* A receipt that settles tells what was mined.                            *)
LEMMA WaitSend ==
  ASSUME ISend, NEW j \in Jobs, Wait(j), IQuotes'
  PROVE  ISend'
<1>1. UNCHANGED <<allocVars, chainVars, reloads, phase, plan, batch, draft, endpoint>>
      /\ phase[j] = "done" /\ receipt[j] # "none"
  BY DEF Wait, world
<1>2. AllocOk' /\ ChainOk' /\ UNCHANGED <<mined, delegated, rail, source>>
  BY <1>1, AllocRests, ChainRests DEF ISend, chainVars, plan
<1>3. PICK status \in {"confirmed", "failed"} :
        /\ receipt' = [receipt EXCEPT ![j] = status]
        /\ status = "confirmed" <=> FateOf(draft[j]) \subseteq {"executed", "nothing"}
  BY DEF Wait, Settled
<1>4. JobValues' /\ receipt'[j] = status /\ \A i \in Jobs \ {j} : receipt'[i] = receipt[i]
  BY <1>1, <1>3 DEF ISend, JobValues
<1>5. status = "confirmed" => \E m \in mined : m.what = draft[j] /\ m.fate # "reverted"
  BY <1>3 DEF Wait, FateOf
<1>6. status = "failed" => \E m \in mined : m.what = draft[j] /\ m.fate = "reverted"
  BY <1>3 DEF FateOf, Fated, ISend, ChainOk, MinedOk
<1>7. JobOk(j)'
  <2>1. DraftOk(j) /\ BatchOk(j) /\ ReceiptOk(j)
    BY DEF ISend, JobOk
  <2>2. ReceiptOk(j)'
    BY <1>1, <1>2, <1>4, <1>5, <1>6, <2>1 DEF ReceiptOk
  <2>3. Founded(draft[j]) => Founded(draft[j])'
    BY <1>1, <1>2 DEF Founded
  <2>4. DraftOk(j)' /\ BatchOk(j)'
    BY <1>1, <1>2, <2>1, <2>3 DEF DraftOk, BatchOk, HasSigned
  <2> QED
    BY <2>2, <2>4 DEF JobOk
<1> QED
  BY <1>1, <1>2, <1>4, <1>7, SendJobMoves

-----------------------------------------------------------------------------
(* Pages and the chain.                                                    *)
LEMMA AllJobsStay ==
  ASSUME ISend, UNCHANGED jobVars, delegated \subseteq delegated', mined \subseteq mined',
         IQuotes', AllocOk', ChainOk', reloads' = reloads
  PROVE  ISend'
<1>1. UNCHANGED <<phase, rail, source, batch, draft, endpoint, receipt>>
  BY DEF jobVars, plan
<1>2. ASSUME NEW i \in Jobs
      PROVE  JobOk(i)'
  <2>1. JobOk(i) /\ source[i] \in Jobs
    BY DEF ISend, IQuotes, QuoteShapes
  <2> QED
    BY <1>1, <2>1, JobStays
<1>3. JobValues'
  BY <1>1 DEF ISend, JobValues
<1> QED
  BY <1>2, <1>3 DEF ISend

LEMMA SwitchSend ==
  ASSUME ISend, NEW p \in Pages, Switch(p), IQuotes'
  PROVE  ISend'
<1>1. UNCHANGED <<allocVars, chainVars, jobVars, reloads>>
  BY DEF Switch
<1>2. AllocOk' /\ ChainOk' /\ UNCHANGED <<mined, delegated>>
  BY <1>1, AllocRests, ChainRests DEF ISend, jobVars, chainVars
<1> QED
  BY <1>1, <1>2, AllJobsStay

LEMMA ReloadSend ==
  ASSUME ISend, NEW p \in Pages, Reload(p), IQuotes'
  PROVE  ISend'
<1> DEFINE ended == {j \in Jobs : page[j] = p /\ phase[j] # "idle" /\ receipt[j] = "none"}
<1>1. /\ phase' = [j \in Jobs |-> IF j \in ended THEN "thrown" ELSE phase[j]]
      /\ batch' = [j \in Jobs |-> IF j \in ended THEN NoBatch ELSE batch[j]]
      /\ draft' = [j \in Jobs |-> IF j \in ended THEN NoDraft ELSE draft[j]]
      /\ endpoint' = [j \in Jobs |-> IF j \in ended THEN 1 ELSE endpoint[j]]
      /\ UNCHANGED <<chainVars, plan, receipt>> /\ reloads' = reloads + 1
      /\ AllocReload(p, [j \in Jobs |-> batch[j].wallet])
  BY DEF Reload
<1>2. \A j \in ended : receipt[j] = "none"
  OBVIOUS
<1>3. \A j \in Jobs \ ended : phase[j] # "sign" \/ page[j] # p
  BY NoReceiptYet
<1>4. \A j \in Jobs : j \in ended => page[j] = p
  OBVIOUS
<1> HIDE DEF ended
<1>5. NoBatch \in [wallet : Wallets, auth : Auths] /\ NoDraft \in Prepared
  <2>1. NoBatch.wallet \in Wallets
    BY WalletsExist DEF ISend, IQuotes, QuoteShapes
  <2> QED
    BY <2>1 DEF NoBatch, NoDraft, Prepared, Auths
<1>6. 1 \in 1 .. Endpoints
  BY SendAssumption
<1>7. JobValues'
  BY <1>1, <1>5, <1>6 DEF ISend, JobValues
<1>8. AllocOk'
  <2>1. counters' \in [Pages -> [Wallets -> Nat \cup {Unset}]]
    BY <1>1 DEF AllocReload, ISend, AllocOk, AllocTypeOK
  <2>2. tail' \in [Pages -> Jobs \cup {NoJob}] /\ current' = current
    BY <1>1 DEF AllocReload, ISend, AllocOk, AllocTypeOK
  <2>3. stored' \in [Stores -> [Wallets -> Nat]]
    <3>1. CASE UNCHANGED stored
      BY <3>1 DEF ISend, AllocOk, AllocTypeOK
    <3>2. CASE tail[p] # NoJob /\ current[tail[p]] # Unset /\ ~UNCHANGED stored
      <4>1. PICK j \in Jobs : j = tail[p]
        BY <3>2 DEF ISend, AllocOk, AllocTypeOK
      <4>2. PICK n \in Nat : n = current[j]
        BY <3>2, <4>1 DEF ISend, AllocOk, AllocTypeOK
      <4>3. stored' = [stored EXCEPT ![StoreOf[p]][batch[j].wallet] = n + 1] /\ n + 1 \in Nat
        BY <1>1, <3>2, <4>1, <4>2 DEF AllocReload
      <4> QED
        BY <4>3 DEF ISend, AllocOk, AllocTypeOK
    <3> QED
      BY <1>1, <3>1, <3>2 DEF AllocReload
  <2>4. \A j \in Jobs : phase'[j] = "persist" => phase[j] = "persist"
    BY <1>1
  <2> QED
    BY <2>1, <2>2, <2>3, <2>4 DEF ISend, AllocOk, AllocTypeOK
<1>9. ChainOk' /\ UNCHANGED <<delegated, mined, rail, source>>
  BY <1>1, ChainRests DEF ISend, chainVars, plan
<1>10. ASSUME NEW j \in ended, j \in Jobs
       PROVE  JobOk(j)'
  <2>1. phase'[j] = "thrown" /\ draft'[j] = NoDraft /\ receipt'[j] = "none"
    BY <1>1, <1>2, <1>10
  <2> QED
    BY <1>5, <2>1 DEF JobOk, DraftOk, BatchOk, ReceiptOk, HasSigned, Resolved
<1>11. ASSUME NEW j \in Jobs \ ended
       PROVE  JobOk(j)'
  <2>1. phase'[j] = phase[j] /\ batch'[j] = batch[j] /\ draft'[j] = draft[j] /\ receipt'[j] = receipt[j]
    BY <1>1
  <2>2. JobOk(j) /\ source[j] \in Jobs
    BY DEF ISend, IQuotes, QuoteShapes
  <2>3. page[source[j]] = page[j]
    BY DEF ISend, IQuotes, SourceFacts, JobFacts, Reused
  <2>4. phase[j] = "sign" => source[j] \notin ended
    BY <1>3, <1>4, <2>2, <2>3
  <2>5. phase[j] = "sign" => batch'[source[j]] = batch[source[j]]
    BY <1>1, <2>2, <2>4
  <2> QED
    BY <1>9, <2>1, <2>2, <2>5, JobStays
<1>12. \A j \in Jobs : JobOk(j)'
  BY <1>10, <1>11
<1>13. reloads' \in Nat
  BY <1>1 DEF ISend
<1> QED
  BY <1>7, <1>8, <1>9, <1>12, <1>13 DEF ISend

(* A transaction that is mined is mined for the first time, and meets code *)
(* where its own key brings it or its engine found it.                     *)
LEMMA MineKeeps ==
  ASSUME ChainOk, opCount \in [Wallets -> Nat], NEW t \in pool, Mine(t)
  PROVE  ChainOk' /\ delegated \subseteq delegated' /\ mined \subseteq mined'
<1>1. t \in Transactions /\ Founded(t) /\ t \notin Operations
  BY OperationsAreNoTransactions DEF ChainOk
<1>2. PICK k \in Keys : k = t.from
  BY <1>1 DEF Transactions
<1>3. PICK n \in Nat : n = count[k] /\ t.nonce = n
  BY <1>2 DEF ChainOk, Mine
<1>4. PICK bumped : /\ bumped = [count EXCEPT ![k] = @ + 1]
                    /\ bumped \in [Keys -> Nat] /\ bumped[k] = n + 1
                    /\ \A i \in Keys : bumped[i] >= count[i]
  <2>1. PICK bumped : bumped = [count EXCEPT ![k] = @ + 1]
    OBVIOUS
  <2>2. bumped = [count EXCEPT ![k] = n + 1] /\ count \in [Keys -> Nat]
    BY <1>3, <2>1 DEF ChainOk
  <2>3. bumped \in [Keys -> Nat] /\ bumped[k] = n + 1
    BY <2>2
  <2>4. ASSUME NEW i \in Keys
        PROVE  bumped[i] >= count[i]
    BY <1>3, <2>2
  <2> QED
    BY <2>1, <2>3, <2>4
<1>5. PICK applies \in BOOLEAN : applies <=> (t.auth # NoAuth /\ t.auth = n + 1)
  OBVIOUS
<1>6. PICK accounts : accounts = IF applies THEN delegated \cup {k} ELSE delegated
  OBVIOUS
<1>7. Applies(t.from, t.auth, bumped[t.from]) <=> applies
  BY <1>2, <1>4, <1>5 DEF Applies
<1>8. /\ count' = IF applies THEN [bumped EXCEPT ![k] = @ + 1] ELSE bumped
      /\ delegated' = accounts
      /\ \E fate \in Fates(t.to, k, accounts) : mined' = mined \cup {[what |-> t, fate |-> fate]}
      /\ pool' \subseteq pool /\ opPool' = opPool /\ opCount' = opCount
  BY <1>2, <1>4, <1>6, <1>7 DEF Mine
<1>9. applies => WalletOf[k] = k /\ k \in Wallets
  BY <1>1, <1>2, <1>5, SendAssumption DEF Founded, Founding
<1>10. /\ count' \in [Keys -> Nat] /\ \A i \in Keys : count'[i] >= count[i]
       /\ count'[k] > n
  <2>1. CASE applies
    <3>1. count' = [bumped EXCEPT ![k] = n + 2]
      BY <1>4, <1>8, <2>1
    <3> QED
      BY <1>3, <1>4, <3>1 DEF ChainOk
  <2>2. CASE ~applies
    BY <1>4, <1>8, <2>2
  <2> QED
    BY <2>1, <2>2
<1>11. delegated \subseteq delegated' /\ delegated' \subseteq Wallets
  BY <1>6, <1>8, <1>9 DEF ChainOk
<1>12. PICK fate \in Fates(t.to, k, accounts) : mined' = mined \cup {[what |-> t, fate |-> fate]}
  BY <1>8
<1>13. fate \in Fated /\ (fate = "nothing" => t.to \notin accounts)
  BY <1>12 DEF Fates, Fated
<1>14. fate = "nothing" => WalletOf[k] # t.to
  <2>1. CASE t.auth = NoAuth
    BY <1>1, <1>6, <1>13, <2>1 DEF Founded
  <2>2. CASE t.auth # NoAuth
    <3>1. applies /\ WalletOf[k] = k
      BY <1>1, <1>2, <1>3, <1>5, <2>2 DEF Founded
    <3> QED
      BY <1>6, <1>13, <3>1
  <2> QED
    BY <2>1, <2>2
<1>15. \A m \in mined : m.what # t
  <2>1. ASSUME NEW m \in mined, m.what = t
        PROVE  FALSE
    <3>1. t.nonce < count[t.from]
      BY <1>1, <2>1 DEF ChainOk, MinedOk
    <3> QED
      BY <1>2, <1>3, <3>1
  <2> QED
    BY <2>1
<1>16. ASSUME NEW m \in mined
       PROVE  MinedOk(m)'
  <2>1. MinedOk(m)
    BY DEF ChainOk
  <2>2. m.what \in Transactions => m.what.from \in Keys /\ m.what.nonce \in Nat
    BY DEF Transactions
  <2>3. m.what \in Transactions => m.what.nonce < count'[m.what.from]
    BY <1>10, <2>1, <2>2 DEF MinedOk, ChainOk
  <2> QED
    BY <1>8, <2>1, <2>3 DEF MinedOk
<1>17. ASSUME NEW m, m = [what |-> t, fate |-> fate]
       PROVE  MinedOk(m)'
  <2>1. m.what = t /\ m.fate = fate /\ m \in [what : Transactions \cup Operations, fate : Fated]
    BY <1>1, <1>13, <1>17
  <2> QED
    BY <1>1, <1>2, <1>3, <1>10, <1>14, <2>1 DEF MinedOk
<1>18. \A m \in mined' : MinedOk(m)'
  BY <1>12, <1>16, <1>17
<1>19. \A m, p \in mined' : m.what = p.what => m = p
  <2>1. ASSUME NEW m \in mined', NEW p \in mined', m.what = p.what
        PROVE  m = p
    <3>1. CASE m \in mined /\ p \in mined
      BY <2>1, <3>1 DEF ChainOk
    <3>2. CASE m = [what |-> t, fate |-> fate] \/ p = [what |-> t, fate |-> fate]
      BY <1>12, <1>15, <2>1, <3>2
    <3> QED
      BY <1>12, <3>1, <3>2
  <2> QED
    BY <2>1
<1>20. \A u \in pool' : u \in Transactions /\ Founded(u)'
  BY <1>8, <1>11 DEF ChainOk, Founded
<1> QED
  BY <1>8, <1>10, <1>11, <1>12, <1>18, <1>19, <1>20 DEF ChainOk

LEMMA IncludeKeeps ==
  ASSUME ChainOk, opCount \in [Wallets -> Nat], NEW o \in opPool, Include(o)
  PROVE  ChainOk' /\ delegated \subseteq delegated' /\ mined \subseteq mined'
<1>1. o \in Operations /\ o \notin Transactions
  BY OperationsAreNoTransactions DEF ChainOk
<1>2. PICK w \in Wallets : w = o.sender /\ w \in Keys
  BY <1>1, SendAssumption DEF Operations, Founding
<1>3. PICK n \in Nat : n = opCount[w] /\ o.nonce = n
  BY <1>2 DEF Include, OpValid
<1>4. /\ opCount' = [opCount EXCEPT ![w] = n + 1]
      /\ pool' \subseteq pool /\ opPool' \subseteq opPool
  BY <1>2, <1>3 DEF Include
<1>5. opCount'[w] = n + 1 /\ \A v \in Wallets : opCount'[v] >= opCount[v]
  BY <1>3, <1>4
<1>6. count' \in [Keys -> Nat] /\ \A i \in Keys : count'[i] >= count[i]
  <2>1. CASE count' = [count EXCEPT ![w] = @ + 1]
    BY <1>2, <2>1 DEF ChainOk
  <2>2. CASE count' = count
    BY <2>2 DEF ChainOk
  <2> QED
    BY <1>2, <2>1, <2>2 DEF Include
<1>7. delegated \subseteq delegated' /\ delegated' \subseteq Wallets
  BY <1>2 DEF Include, ChainOk
<1>8. PICK fate \in {"executed", "reverted"} : mined' = mined \cup {[what |-> o, fate |-> fate]}
  BY DEF Include
<1>9. \A m \in mined : m.what # o
  <2>1. ASSUME NEW m \in mined, m.what = o
        PROVE  FALSE
    <3>1. o.nonce < opCount[o.sender]
      BY <1>1, <2>1 DEF ChainOk, MinedOk
    <3> QED
      BY <1>2, <1>3, <3>1
  <2> QED
    BY <2>1
<1>10. ASSUME NEW m \in mined
       PROVE  MinedOk(m)'
  <2>1. MinedOk(m)
    BY DEF ChainOk
  <2>2. /\ m.what \in Transactions => m.what.from \in Keys /\ m.what.nonce \in Nat
        /\ m.what \in Operations => m.what.sender \in Wallets /\ m.what.nonce \in Nat
    BY DEF Transactions, Operations
  <2>3. m.what \in Transactions => m.what.nonce < count'[m.what.from]
    BY <1>6, <2>1, <2>2 DEF MinedOk, ChainOk
  <2>4. m.what \in Operations => m.what.nonce < opCount'[m.what.sender]
    <3>1. ASSUME m.what \in Operations
          PROVE  m.what.nonce < opCount'[m.what.sender]
      <4>1. PICK v \in Wallets, b \in Nat : m.what.sender = v /\ m.what.nonce = b
        BY <2>2, <3>1
      <4>2. PICK c \in Nat : c = opCount[v]
        OBVIOUS
      <4>3. b < c /\ opCount'[v] \in Nat /\ opCount'[v] >= c
        BY <1>4, <1>5, <2>1, <3>1, <4>1, <4>2 DEF MinedOk
      <4> QED
        BY <4>1, <4>3
    <3> QED
      BY <3>1
  <2> QED
    BY <2>1, <2>3, <2>4 DEF MinedOk
<1>11. ASSUME NEW m, m = [what |-> o, fate |-> fate]
       PROVE  MinedOk(m)'
  <2>1. m.what = o /\ m.fate = fate /\ m \in [what : Transactions \cup Operations, fate : Fated]
    BY <1>1, <1>8, <1>11 DEF Fated
  <2> QED
    BY <1>1, <1>2, <1>3, <1>5, <1>8, <2>1 DEF MinedOk
<1>12. \A m \in mined' : MinedOk(m)'
  BY <1>8, <1>10, <1>11
<1>13. \A m, p \in mined' : m.what = p.what => m = p
  <2>1. ASSUME NEW m \in mined', NEW p \in mined', m.what = p.what
        PROVE  m = p
    <3>1. CASE m \in mined /\ p \in mined
      BY <2>1, <3>1 DEF ChainOk
    <3>2. CASE m = [what |-> o, fate |-> fate] \/ p = [what |-> o, fate |-> fate]
      BY <1>8, <1>9, <2>1, <3>2
    <3> QED
      BY <1>8, <3>1, <3>2
  <2> QED
    BY <2>1
<1>14. \A u \in pool' : u \in Transactions /\ Founded(u)'
  BY <1>4, <1>7 DEF ChainOk, Founded
<1> QED
  BY <1>4, <1>6, <1>7, <1>8, <1>12, <1>13, <1>14 DEF ChainOk

LEMMA ChainSend ==
  ASSUME ISend, ChainStep, UNCHANGED <<allocVars, session, jobVars, reloads>>, IQuotes'
  PROVE  ISend'
<1>1. opCount \in [Wallets -> Nat] /\ ChainOk
  BY DEF ISend, IQuotes, QuoteShapes
<1>2. AllocOk'
  BY AllocRests DEF ISend, jobVars
<1>3. ASSUME NEW o \in opPool, Drop(o)
      PROVE  ChainOk' /\ delegated \subseteq delegated' /\ mined \subseteq mined'
  BY <1>1, <1>3 DEF Drop, ChainOk, MinedOk, Founded
<1>4. ChainOk' /\ delegated \subseteq delegated' /\ mined \subseteq mined'
  BY <1>1, <1>3, MineKeeps, IncludeKeeps DEF ChainStep
<1> QED
  BY <1>2, <1>4, AllJobsStay

LEMMA SendStep ==
  ASSUME ISend, [Next]_vars
  PROVE  ISend'
<1>1. IQuotes'
  BY QuotesStep DEF ISend
<1>2. ASSUME NEW j \in Jobs, JobStep(j)
      PROVE  ISend'
  <2>1. CASE Asked(j)
    BY <1>1, <2>1, CallSend, ReuseSend DEF Asked
  <2>2. CASE NextNonce(j) \/ Load(j) \/ Persist(j) \/ GetCode(j) \/ GetTransactionCount(j)
    BY <1>1, <2>2, NextNonceSend, LoadSend, PersistSend, GetCodeSend, TransactionCountSend
  <2>3. CASE PrepareSponsored(j) \/ TxNonce(j) \/ Fail(j) \/ Sign(j)
    BY <1>1, <2>3, PrepareSend, TxNonceSend, FailSend, SignSend
  <2>4. CASE SendRawTransaction(j) \/ SendUserOperation(j) \/ Wait(j)
    BY <1>1, <2>4, BroadcastSend, WaitSend
  <2> QED
    BY <1>2, <2>1, <2>2, <2>3, <2>4 DEF JobStep
<1>3. CASE \E p \in Pages : Switch(p) \/ Reload(p)
  BY <1>1, <1>3, SwitchSend, ReloadSend
<1>4. CASE ChainStep /\ UNCHANGED <<allocVars, session, jobVars, reloads>>
  BY <1>1, <1>4, ChainSend
<1>5. CASE UNCHANGED vars
  <2>1. UNCHANGED <<allocVars, chainVars, jobVars, reloads>>
    BY <1>5 DEF vars, world
  <2>2. AllocOk' /\ ChainOk' /\ UNCHANGED <<mined, delegated>>
    BY <2>1, AllocRests, ChainRests DEF ISend, jobVars, chainVars
  <2> QED
    BY <1>1, <2>1, <2>2, AllJobsStay
<1> QED
  BY <1>2, <1>3, <1>4, <1>5 DEF Next

LEMMA ConfirmedWasExecuted ==
  ASSUME ISend
  PROVE  ConfirmedMeansExecuted
<1> SUFFICES ASSUME NEW j \in Jobs, receipt[j] = "confirmed", SignedForItsWallet(j)
             PROVE  FateOf(draft[j]) = {"executed"}
  BY DEF ConfirmedMeansExecuted
<1>1. PICK m \in mined : m.what = draft[j] /\ m.fate # "reverted"
  BY DEF ISend, JobOk, ReceiptOk
<1>2. phase[j] = "done" /\ j \notin Simulations
  BY DEF ISend, IQuotes, QuoteShapes, ReceiptsAreOfTheDone, JobOk, ReceiptOk
<1>3. /\ rail[j] = "sponsored" => draft[j] \in Operations
      /\ rail[j] = "native-gas" => draft[j] \in Transactions
      /\ rail[j] \in {"sponsored", "native-gas"}
  BY <1>2 DEF ISend, JobOk, DraftOk, HasSigned, IQuotes, QuoteShapes
<1>4. m.fate \in Fated /\ m.fate # "nothing"
  BY <1>1, <1>3 DEF ISend, ChainOk, MinedOk, SignedForItsWallet
<1>5. m.fate = "executed"
  BY <1>1, <1>4 DEF Fated
<1>6. \A n \in mined : n.what = draft[j] => n = m
  BY <1>1 DEF ISend, ChainOk
<1> QED
  BY <1>1, <1>5, <1>6 DEF FateOf

LEMMA EngineTypes ==
  ASSUME ISend
  PROVE  SendTypeOK
<1>1. ChainTypeOK
  BY DEF ISend, IQuotes, QuoteShapes, ChainOk, MinedOk, Fated, ChainTypeOK
<1>2. JobTypeOK
  <2>1. phase \in [Jobs -> Phases]
    BY DEF ISend, IQuotes, QuoteShapes, JobShapes, Allocating, Later, Phases, Awaiting, Resolving, Preparing
  <2> QED
    BY <2>1 DEF ISend, IQuotes, QuoteShapes, JobShapes, JobValues, JobTypeOK, Prepared
<1>3. AllocTypeOK /\ session \in [Pages -> Keys] /\ reloads \in Nat
  BY DEF ISend, AllocOk, IQuotes, QuoteShapes, JobShapes
<1> QED
  BY <1>1, <1>2, <1>3 DEF SendTypeOK

(* Whatever overlaps, fails, is reloaded, switched, lost or mined in       *)
(* between: what a receipt says confirmed was mined and its calls ran, if  *)
(* a key of the wallet they were prepared for signed them.  The engine     *)
(* reads the code of the wallet before it leaves the authorization out,    *)
(* code never goes away, and an authorization is over the nonce the        *)
(* transaction leaves (client/resolve.ts: leanResolve; client/evm.ts:385). *)
THEOREM ConfirmedIsExecuted == Spec => []SendInv
<1>1. Init => ISend
  BY SendInit
<1>2. ISend /\ [Next]_vars => ISend'
  BY SendStep
<1>3. ISend => SendInv
  BY ConfirmedWasExecuted, EngineTypes DEF SendInv
<1> QED
  BY <1>1, <1>2, <1>3, PTL DEF Spec

-----------------------------------------------------------------------------
(***************************************************************************)
(* That the engine keeps the promise of Delivery, where the keys a page    *)
(* may be switched between are of one wallet.                              *)
(***************************************************************************)

(* A page of one passkey wallet: a switch of account is one to another key *)
(* of its roster.                                                          *)
OneWalletPages == \A p \in Pages : \A k, l \in KeysOn[p] : WalletOf[k] = WalletOf[l]

(* Then a batch is for the wallet of every key of its page, and a          *)
(* transaction is signed by a key of the wallet it calls.                  *)
HomeBatch(j) ==
  source[j] = j /\ phase[j] \notin {"idle", "thrown"} =>
    \A k \in KeysOn[page[j]] : WalletOf[k] = batch[j].wallet
Home(x) == x \in Transactions => WalletOf[x.from] = x.to

IPromise ==
  /\ ISend /\ OneWalletPages
  /\ \A p \in Pages : session[p] \in KeysOn[p]
  /\ \A j \in Jobs : HomeBatch(j) /\ (HasSigned(j) => Home(draft[j]))
  /\ \A t \in pool : Home(t)
  /\ \A m \in mined : Home(m.what)

LEMMA HomeMoves ==
  ASSUME IPromise, NEW j \in Jobs, ISend', UNCHANGED <<page, session, mined>>,
         \A i \in Jobs \ {j} : /\ phase'[i] = phase[i] /\ source'[i] = source[i]
                                /\ batch'[i] = batch[i] /\ draft'[i] = draft[i],
         \A t \in pool' : t \in pool \/ (phase[j] = "send" /\ t = draft[j]),
         HomeBatch(j)', HasSigned(j)' => Home(draft'[j])
  PROVE  IPromise'
<1>1. ASSUME NEW i \in Jobs
      PROVE  HomeBatch(i)' /\ (HasSigned(i)' => Home(draft'[i]))
  <2>1. CASE i # j
    BY <2>1 DEF IPromise, HomeBatch, HasSigned
  <2> QED
    BY <2>1
<1>2. \A t \in pool' : Home(t)
  BY DEF IPromise, HasSigned
<1> QED
  BY <1>1, <1>2 DEF IPromise, OneWalletPages, Home

(* A job that goes on with its batch, and signs nothing new.               *)
LEMMA HomeGoes ==
  ASSUME IPromise, NEW j \in Jobs, ISend', UNCHANGED <<page, source, session, mined>>,
         \A i \in Jobs \ {j} : phase'[i] = phase[i] /\ batch'[i] = batch[i] /\ draft'[i] = draft[i],
         \A t \in pool' : t \in pool \/ (phase[j] = "send" /\ t = draft[j]),
         phase[j] \notin {"idle", "thrown"},
         \/ phase'[j] = "thrown"
         \/ batch'[j].wallet = batch[j].wallet /\ (HasSigned(j)' => HasSigned(j) /\ draft'[j] = draft[j])
  PROVE  IPromise'
<1>1. HomeBatch(j)'
  BY DEF IPromise, HomeBatch
<1>2. HasSigned(j)' => Home(draft'[j])
  BY DEF IPromise, HasSigned
<1> QED
  BY <1>1, <1>2, HomeMoves

LEMMA HomeThrows ==
  ASSUME IPromise, NEW j \in Jobs, ISend', Throws(j), phase[j] \notin {"idle", "thrown"},
         UNCHANGED <<session, mined>>,
         \A t \in pool' : t \in pool \/ (phase[j] = "send" /\ t = draft[j])
  PROVE  IPromise'
<1>1. /\ phase'[j] = "thrown" /\ page' = page
      /\ \A i \in Jobs \ {j} : phase'[i] = phase[i] /\ batch'[i] = batch[i]
  BY Throwing DEF IPromise, ISend, IQuotes, QuoteShapes
<1>2. source' = source /\ \A i \in Jobs \ {j} : draft'[i] = draft[i]
  BY DEF Throws, plan, IPromise, ISend, JobValues
<1> QED
  BY <1>1, <1>2, HomeGoes

LEMMA AskedHome ==
  ASSUME IPromise, NEW j \in Jobs, ISend', Asked(j)
  PROVE  IPromise'
<1>1. UNCHANGED <<page, session, mined, pool>> /\ phase[j] = "idle"
  BY DEF Asked, Call, Reuse, world, chainVars
<1>2. ASSUME NEW r, Call(j, r)
      PROVE  IPromise'
  <2>1. PICK there \in {"next", "thrown"} : Goto(j, there)
    BY <1>2 DEF Call
  <2>2. phase'[j] = there /\ \A i \in Jobs \ {j} : phase'[i] = phase[i]
    BY <2>1, Gone DEF IPromise
  <2>3. UNCHANGED <<source, draft>> /\ batch'[j].wallet = WalletIn(page[j])
        /\ \A i \in Jobs \ {j} : batch'[i] = batch[i]
    BY <1>2 DEF Call, IPromise, ISend, JobValues
  <2>4. HomeBatch(j)'
    <3>1. page[j] \in Pages /\ session[page[j]] \in KeysOn[page[j]]
      BY DEF IPromise, ISend, IQuotes, QuoteShapes, JobShapes
    <3>2. \A k \in KeysOn[page[j]] : WalletOf[k] = WalletIn(page[j])
      BY <3>1 DEF IPromise, OneWalletPages, WalletIn
    <3> QED
      BY <1>1, <2>3, <3>2 DEF HomeBatch
  <2>5. ~HasSigned(j)'
    BY <2>2 DEF HasSigned
  <2> QED
    BY <1>1, <2>2, <2>3, <2>4, <2>5, HomeMoves
<1>3. ASSUME NEW s \in Jobs, Reuse(j, s)
      PROVE  IPromise'
  <2>1. PICK there \in {"sign", "txNonce"} : Goto(j, there)
    BY <1>3 DEF Reuse
  <2>2. phase'[j] = there /\ \A i \in Jobs \ {j} : phase'[i] = phase[i]
    BY <2>1, Gone DEF IPromise
  <2>3. /\ batch' = batch /\ source'[j] = s /\ s # j
        /\ \A i \in Jobs \ {j} : draft'[i] = draft[i] /\ source'[i] = source[i]
    BY <1>3 DEF Reuse, IPromise, ISend, JobValues, IQuotes, QuoteShapes
  <2>4. HomeBatch(j)' /\ ~HasSigned(j)'
    BY <2>2, <2>3 DEF HomeBatch, HasSigned
  <2> QED
    BY <1>1, <2>2, <2>3, <2>4, HomeMoves
<1> QED
  BY <1>2, <1>3 DEF Asked

LEMMA ResolveHome ==
  ASSUME IPromise, NEW j \in Jobs, ISend',
         NextNonce(j) \/ Load(j) \/ Persist(j) \/ GetCode(j) \/ GetTransactionCount(j)
  PROVE  IPromise'
<1>1. UNCHANGED <<session, mined, pool>> /\ phase[j] \notin {"idle", "thrown"}
  BY DEF NextNonce, Load, Persist, GetCode, GetTransactionCount, world, chainVars
<1>2. CASE Persist(j) /\ Throws(j)
  BY <1>1, <1>2, HomeThrows
<1>3. CASE ~Throws(j)
  <2>1. PICK there : Goto(j, there) /\ there # "send" /\ (there = "done" => j \in Simulations)
    BY <1>3 DEF NextNonce, Load, Persist, GetCode, GetTransactionCount, AfterResolve
  <2>2. phase'[j] = there /\ \A i \in Jobs \ {j} : phase'[i] = phase[i]
    BY <2>1, Gone DEF IPromise
  <2>3. UNCHANGED <<page, source, draft>>
    BY <1>3 DEF NextNonce, Load, Persist, GetCode, GetTransactionCount, plan
  <2>4. batch'[j].wallet = batch[j].wallet /\ \A i \in Jobs \ {j} : batch'[i] = batch[i]
    <3>1. CASE GetTransactionCount(j)
      <4>1. PICK a : batch' = [batch EXCEPT ![j].auth = a]
        BY <3>1 DEF GetTransactionCount
      <4>2. batch[j] \in [wallet : Wallets, auth : Auths] /\ batch'[j] = [batch[j] EXCEPT !.auth = a]
        BY <4>1 DEF IPromise, ISend, JobValues
      <4> QED
        BY <4>1, <4>2 DEF IPromise, ISend, JobValues
    <3>2. CASE ~GetTransactionCount(j)
      BY <1>3, <3>2 DEF NextNonce, Load, Persist, GetCode
    <3> QED
      BY <3>1, <3>2
  <2>5. ~HasSigned(j)'
    BY <2>1, <2>2 DEF HasSigned
  <2> QED
    BY <1>1, <2>2, <2>3, <2>4, <2>5, HomeGoes
<1>4. Throws(j) => Persist(j)
  <2>1. Throws(j) => phase'[j] = "thrown"
    BY Gone DEF Throws, IPromise
  <2>2. NextNonce(j) \/ Load(j) \/ GetCode(j) \/ GetTransactionCount(j) => phase'[j] # "thrown"
    BY Gone DEF NextNonce, Load, GetCode, GetTransactionCount, AfterResolve, IPromise
  <2> QED
    BY <2>1, <2>2
<1> QED
  BY <1>2, <1>3, <1>4

(* The key that signs is of the page, and so of the wallet of its batches. *)
LEMMA PreparedHome ==
  ASSUME IPromise, NEW j \in Jobs, ISend', PrepareSponsored(j) \/ TxNonce(j) \/ Fail(j) \/ Sign(j)
  PROVE  IPromise'
<1>1. UNCHANGED <<session, mined, pool>> /\ phase[j] \notin {"idle", "thrown"}
  BY DEF PrepareSponsored, TxNonce, Fail, Sign, world, chainVars, Resolving, Preparing
<1>2. CASE Throws(j)
  BY <1>1, <1>2, HomeThrows
<1>3. CASE PrepareSponsored(j) \/ TxNonce(j)
  <2>1. PICK there : Goto(j, there) /\ there # "send" /\ (there = "done" => j \in Simulations)
    BY <1>3 DEF PrepareSponsored, TxNonce
  <2>2. phase'[j] = there /\ \A i \in Jobs \ {j} : phase'[i] = phase[i]
    BY <2>1, Gone DEF IPromise
  <2>3. UNCHANGED <<page, source, batch>> /\ \A i \in Jobs \ {j} : draft'[i] = draft[i]
    BY <1>3 DEF PrepareSponsored, TxNonce, plan, IPromise, ISend, JobValues
  <2>4. ~HasSigned(j)'
    BY <2>1, <2>2 DEF HasSigned
  <2> QED
    BY <1>1, <2>2, <2>3, <2>4, HomeGoes
<1>4. CASE Sign(j) /\ ~Throws(j)
  <2>1. Goto(j, "send") /\ draft' = [draft EXCEPT ![j] = Signed(j)] /\ UNCHANGED <<page, source, batch>>
        /\ phase[j] = "sign"
    BY <1>4 DEF Sign, plan
  <2>2. phase'[j] = "send" /\ \A i \in Jobs \ {j} : phase'[i] = phase[i]
    BY <2>1, Gone DEF IPromise
  <2>3. draft'[j] = Signed(j) /\ \A i \in Jobs \ {j} : draft'[i] = draft[i]
    BY <2>1 DEF IPromise, ISend, JobValues
  <2>4. PICK s \in Jobs : s = source[j] /\ source[s] = s /\ page[s] = page[j] /\ phase[s] \notin {"idle", "thrown"}
    BY <2>1 DEF IPromise, ISend, IQuotes, QuoteShapes, SourceFacts, JobFacts, Reused, Sending
  <2>5. PICK p \in Pages : p = page[j] /\ session[p] \in KeysOn[p]
    BY DEF IPromise, ISend, IQuotes, QuoteShapes, JobShapes
  <2>6. WalletOf[session[p]] = batch[s].wallet
    BY <2>4, <2>5 DEF IPromise, HomeBatch
  <2>7. Home(Signed(j))
    <3>1. CASE rail[j] = "sponsored"
      <4>1. MaySign(session[page[j]], draft[j].auth)
        BY <1>4 DEF Sign
      <4>2. Signed(j) \in Operations
        BY <2>1, <3>1, <4>1, SignedFits DEF IPromise
      <4> QED
        BY <4>2, OperationsAreNoTransactions DEF Home
    <3>2. CASE rail[j] # "sponsored"
      <4>1. Signed(j).from = session[p] /\ Signed(j).to = batch[s].wallet
        BY <2>4, <2>5, <3>2 DEF Signed, BatchOf
      <4> QED
        BY <2>6, <4>1 DEF Home
    <3> QED
      BY <3>1, <3>2
  <2>8. HomeBatch(j)'
    BY <2>1, <2>2 DEF IPromise, HomeBatch
  <2> QED
    BY <1>1, <2>1, <2>2, <2>3, <2>7, <2>8, HomeMoves
<1>5. Fail(j) => Throws(j)
  BY DEF Fail
<1> QED
  BY <1>2, <1>3, <1>4, <1>5

LEMMA BroadcastHome ==
  ASSUME IPromise, NEW j \in Jobs, ISend', SendRawTransaction(j) \/ SendUserOperation(j) \/ Wait(j)
  PROVE  IPromise'
<1>1. UNCHANGED <<session, mined>> /\ phase[j] \in {"send", "done"}
  BY DEF SendRawTransaction, SendUserOperation, Wait, world, chainVars
<1>2. \A t \in pool' : t \in pool \/ (phase[j] = "send" /\ t = draft[j])
  BY DEF SendRawTransaction, SendUserOperation, Wait, world, chainVars, Admit
<1>3. CASE Throws(j)
  BY <1>1, <1>2, <1>3, HomeThrows
<1>4. CASE ~Throws(j)
  <2>1. /\ UNCHANGED <<plan, batch, draft>>
        /\ phase' = phase \/ (phase[j] = "send" /\ Goto(j, "done"))
    BY <1>4 DEF SendRawTransaction, SendUserOperation, Wait, HandOff, FailOver
  <2>2. UNCHANGED <<page, source>>
    BY <2>1 DEF plan
  <2>3. \/ phase' = phase
        \/ phase[j] = "send" /\ phase'[j] = "done" /\ \A i \in Jobs \ {j} : phase'[i] = phase[i]
    BY <2>1, Gone DEF IPromise
  <2>4. HasSigned(j)' => HasSigned(j)
    BY <2>3 DEF HasSigned
  <2> QED
    BY <1>1, <1>2, <2>1, <2>2, <2>3, <2>4, HomeGoes
<1> QED
  BY <1>3, <1>4

(* Nothing is sent, and a job keeps what it has or is over.                *)
LEMMA HomeStays ==
  ASSUME IPromise, ISend', UNCHANGED <<page, source>>, pool' \subseteq pool,
         \A p \in Pages : session'[p] \in KeysOn[p],
         \A m \in mined' : m \in mined \/ m.what \in pool \/ m.what \in opPool,
         \A i \in Jobs : \/ phase'[i] = "thrown"
                         \/ phase'[i] = phase[i] /\ batch'[i] = batch[i] /\ draft'[i] = draft[i]
  PROVE  IPromise'
<1>1. ASSUME NEW i \in Jobs
      PROVE  HomeBatch(i)' /\ (HasSigned(i)' => Home(draft'[i]))
  BY DEF IPromise, HomeBatch, HasSigned
<1>2. \A m \in mined' : Home(m.what)
  <2>1. opPool \subseteq Operations
    BY DEF IPromise, ISend, ChainOk
  <2> QED
    BY <2>1, OperationsAreNoTransactions DEF IPromise, Home
<1> QED
  BY <1>1, <1>2 DEF IPromise, OneWalletPages, Home

LEMMA PromiseInit ==
  ASSUME Init, OneWalletPages
  PROVE  IPromise
<1>1. ISend
  BY SendInit
<1>2. \A j \in Jobs : phase[j] = "idle"
  BY DEF Init, InitialJobs
<1>3. \A p \in Pages : session[p] \in KeysOn[p]
  BY DEF Init
<1>4. pool = {} /\ mined = {}
  BY DEF Init, ChainInit
<1> QED
  BY <1>1, <1>2, <1>3, <1>4 DEF IPromise, HomeBatch, HasSigned

LEMMA PromiseStep ==
  ASSUME IPromise, [Next]_vars
  PROVE  IPromise'
<1>1. ISend'
  BY SendStep DEF IPromise
<1>2. ASSUME NEW j \in Jobs, JobStep(j)
      PROVE  IPromise'
  BY <1>1, <1>2, AskedHome, ResolveHome, PreparedHome, BroadcastHome DEF JobStep
<1>3. ASSUME NEW p \in Pages, Switch(p)
      PROVE  IPromise'
  <2>1. PICK k \in KeysOn[p] : session' = [session EXCEPT ![p] = k]
    BY <1>3 DEF Switch
  <2>2. \A q \in Pages : session'[q] \in KeysOn[q]
    BY <2>1 DEF IPromise, ISend, IQuotes, QuoteShapes, JobShapes
  <2>3. UNCHANGED <<page, source, phase, batch, draft, pool, mined>>
    BY <1>3 DEF Switch, chainVars, jobVars, plan
  <2> QED
    BY <1>1, <2>2, <2>3, HomeStays
<1>4. ASSUME NEW p \in Pages, Reload(p)
      PROVE  IPromise'
  <2>1. UNCHANGED <<page, source, pool, mined, session>>
    BY <1>4 DEF Reload, chainVars, plan
  <2>2. \A i \in Jobs : \/ phase'[i] = "thrown"
                        \/ phase'[i] = phase[i] /\ batch'[i] = batch[i] /\ draft'[i] = draft[i]
    BY <1>4 DEF Reload
  <2>3. \A q \in Pages : session'[q] \in KeysOn[q]
    BY <2>1 DEF IPromise
  <2> QED
    BY <1>1, <2>1, <2>2, <2>3, HomeStays
<1>5. CASE ChainStep /\ UNCHANGED <<allocVars, session, jobVars, reloads>>
  <2>1. UNCHANGED <<page, source, phase, batch, draft>>
    BY <1>5 DEF jobVars, plan
  <2>2. pool' \subseteq pool /\ \A m \in mined' : m \in mined \/ m.what \in pool \/ m.what \in opPool
    <3>1. ASSUME NEW t \in pool, Mine(t)
          PROVE  pool' \subseteq pool /\ \E fate : mined' = mined \cup {[what |-> t, fate |-> fate]}
      BY <3>1 DEF Mine
    <3>2. ASSUME NEW o \in opPool, Include(o)
          PROVE  pool' \subseteq pool /\ \E fate : mined' = mined \cup {[what |-> o, fate |-> fate]}
      BY <3>2 DEF Include
    <3>3. ASSUME NEW o \in opPool, Drop(o)
          PROVE  pool' \subseteq pool /\ mined' = mined
      BY <3>3 DEF Drop
    <3>4. ASSUME NEW x \in pool \cup opPool, \E fate : mined' = mined \cup {[what |-> x, fate |-> fate]}
          PROVE  \A m \in mined' : m \in mined \/ m.what \in pool \/ m.what \in opPool
      BY <3>4
    <3> QED
      BY <1>5, <3>1, <3>2, <3>3, <3>4 DEF ChainStep
  <2>3. \A q \in Pages : session'[q] \in KeysOn[q]
    BY <1>5 DEF IPromise
  <2> QED
    BY <1>1, <2>1, <2>2, <2>3, HomeStays
<1>6. CASE UNCHANGED vars
  <2>1. UNCHANGED <<page, source, phase, batch, draft, pool, mined, session>>
    BY <1>6 DEF vars, world, chainVars, jobVars, plan
  <2>2. \A q \in Pages : session'[q] \in KeysOn[q]
    BY <2>1 DEF IPromise
  <2> QED
    BY <1>1, <2>1, <2>2, HomeStays
<1> QED
  BY <1>2, <1>3, <1>4, <1>5, <1>6 DEF Next

-----------------------------------------------------------------------------
(* What Delivery sees.                                                     *)
Outcomes == [j \in Jobs |-> OutcomeOf(j)]
Reports == [j \in Jobs |-> ReportOf(j)]

LEMMA Fate ==
  ASSUME IPromise, NEW x, NEW m \in mined, m.what = x
  PROVE  FateOf(x) = {m.fate} /\ m.fate \in {"executed", "reverted"}
<1>1. \A n \in mined : n.what = x => n = m
  BY DEF IPromise, ISend, ChainOk
<1>2. FateOf(x) = {m.fate}
  BY <1>1 DEF FateOf
<1>3. MinedOk(m) /\ Home(m.what)
  BY DEF IPromise, ISend, ChainOk
<1>4. m.fate \in Fated /\ m.what \in Transactions \cup Operations
  BY <1>3 DEF MinedOk
<1>5. m.fate # "nothing"
  BY <1>3, <1>4 DEF MinedOk, Home
<1> QED
  BY <1>2, <1>4, <1>5 DEF Fated

(* Nothing a caller may see changes.                                       *)
LEMMA PromiseRests ==
  ASSUME UNCHANGED <<mined, receipt>>, \A j \in Jobs : receipt[j] = "none" \/ draft'[j] = draft[j]
  PROVE  Outcomes' = Outcomes /\ Reports' = Reports
<1>1. \A x : FateOf(x)' = FateOf(x)
  BY DEF FateOf
<1>2. \A j \in Jobs : receipt[j] # "none" => FateOf(draft[j])' = FateOf(draft[j])
  BY <1>1 DEF FateOf
<1>3. \A j \in Jobs : OutcomeOf(j)' = OutcomeOf(j) /\ ReportOf(j)' = ReportOf(j)
  BY <1>2 DEF OutcomeOf, ReportOf
<1> QED
  BY <1>3 DEF Outcomes, Reports

LEMMA HandedOff ==
  ASSUME IPromise, NEW j \in Jobs, NEW status \in {"submitted", "pending"}, phase[j] = "send",
         HandOff(j, status), mined' = mined, \A m \in mined : m.what # draft[j]
  PROVE  Promise!HandOff(j)
<1>1. receipt[j] = "none" /\ draft' = draft
  BY NoReceiptYet DEF IPromise, HandOff
<1>2. receipt'[j] = status /\ \A i \in Jobs \ {j} : receipt'[i] = receipt[i]
  BY DEF HandOff, IPromise, ISend, JobValues
<1>3. \A x : FateOf(x)' = FateOf(x)
  BY DEF FateOf
<1>4. FateOf(draft[j]) = {}
  BY DEF FateOf
<1>5. \A i \in Jobs : FateOf(draft[i])' = FateOf(draft[i])
  BY <1>1, <1>3 DEF FateOf
<1>6. ASSUME NEW i \in Jobs
      PROVE  OutcomeOf(i)' = OutcomeOf(i)
  <2>1. CASE i = j
    BY <1>4, <1>5, <2>1 DEF OutcomeOf
  <2>2. CASE i # j
    BY <1>2, <1>5, <2>2 DEF OutcomeOf
  <2> QED
    BY <2>1, <2>2
<1>7. ReportOf(j) = "none" /\ ReportOf(j)' = "handed off" /\ \A i \in Jobs \ {j} : ReportOf(i)' = ReportOf(i)
  BY <1>1, <1>2 DEF ReportOf
<1>8. Outcomes' = Outcomes
  BY <1>6 DEF Outcomes
<1>9. Reports[j] = "none" /\ Reports' = [Reports EXCEPT ![j] = "handed off"]
  BY <1>7 DEF Reports
<1> QED
  BY <1>8, <1>9 DEF Promise!HandOff, Outcomes, Reports

LEMMA Told ==
  ASSUME IPromise, NEW j \in Jobs, Wait(j)
  PROVE  Promise!Tell(j) \/ (Outcomes' = Outcomes /\ Reports' = Reports)
<1>1. receipt[j] # "none" /\ UNCHANGED <<draft, mined>>
      /\ receipt' = [receipt EXCEPT ![j] = Settled(FateOf(draft[j]))]
  BY DEF Wait, world, chainVars
<1>2. PICK m \in mined : m.what = draft[j]
  BY DEF Wait, FateOf
<1>3. FateOf(draft[j]) = {m.fate} /\ m.fate \in {"executed", "reverted"}
  BY <1>2, Fate
<1>4. PICK told : told = IF m.fate = "executed" THEN "confirmed" ELSE "failed"
  OBVIOUS
<1>5. receipt'[j] = told /\ \A i \in Jobs \ {j} : receipt'[i] = receipt[i]
  <2>1. Settled(FateOf(draft[j])) = told
    BY <1>3, <1>4 DEF Settled
  <2> QED
    BY <1>1, <2>1 DEF IPromise, ISend, JobValues
<1>6. \A i \in Jobs : FateOf(draft[i])' = FateOf(draft[i])
  BY <1>1 DEF FateOf
<1>7. OutcomeOf(j) = m.fate /\ OutcomeOf(j)' = m.fate
  BY <1>1, <1>3, <1>4, <1>5, <1>6 DEF OutcomeOf
<1>8. \A i \in Jobs : OutcomeOf(i)' = OutcomeOf(i)
  <2>1. ASSUME NEW i \in Jobs \ {j}
        PROVE  OutcomeOf(i)' = OutcomeOf(i)
    BY <1>5, <1>6 DEF OutcomeOf
  <2> QED
    BY <1>7, <2>1
<1>9. Outcomes' = Outcomes
  BY <1>8 DEF Outcomes
<1>10. \A i \in Jobs \ {j} : ReportOf(i)' = ReportOf(i)
  BY <1>5 DEF ReportOf
<1>11. ReportOf(j)' = told
  BY <1>4, <1>5 DEF ReportOf
<1>12. CASE receipt[j] \in {"submitted", "pending"}
  <2>1. ReportOf(j) = "handed off"
    BY <1>12 DEF ReportOf
  <2>2. Outcomes[j] = m.fate /\ Reports[j] = "handed off" /\ Reports' = [Reports EXCEPT ![j] = told]
    BY <1>7, <1>10, <1>11, <2>1 DEF Outcomes, Reports
  <2>3. Reports' = [Reports EXCEPT ![j] = IF Outcomes[j] = "executed" THEN "confirmed" ELSE "failed"]
    BY <1>4, <2>2
  <2> QED
    BY <1>3, <1>9, <2>2, <2>3 DEF Promise!Tell, Outcomes, Reports
<1>13. CASE receipt[j] \in {"confirmed", "failed"}
  <2>1. receipt[j] = told
    <3>1. ReceiptOk(j)
      BY DEF IPromise, ISend, JobOk
    <3>2. \A n \in mined : n.what = draft[j] => n = m
      BY <1>2 DEF IPromise, ISend, ChainOk
    <3> QED
      BY <1>3, <1>4, <1>13, <3>1, <3>2 DEF ReceiptOk
  <2>2. receipt' = receipt
    BY <1>1, <1>5, <2>1 DEF IPromise, ISend, JobValues
  <2> QED
    BY <1>1, <2>2, PromiseRests
<1> QED
  BY <1>1, <1>12, <1>13 DEF IPromise, ISend, JobValues

(* Something is mined for the first time: whoever sent it has an outcome.  *)
LEMMA SettledOnce ==
  ASSUME IPromise, NEW x, NEW fate, mined' = mined \cup {[what |-> x, fate |-> fate]},
         \A m \in mined : m.what # x, UNCHANGED <<draft, receipt>>
  PROVE  Promise!Settle
<1>1. Reports' = Reports
  <2>1. \A i \in Jobs : ReportOf(i)' = ReportOf(i)
    BY DEF ReportOf
  <2> QED
    BY <2>1 DEF Reports
<1>2. ASSUME NEW i \in Jobs
      PROVE  OutcomeOf(i)' \in {"open", "executed", "reverted"} /\ (OutcomeOf(i)' # OutcomeOf(i) => OutcomeOf(i) = "open")
  <2>1. CASE draft[i] = x
    <3>1. FateOf(draft[i]) = {}
      BY <2>1 DEF FateOf
    <3>2. OutcomeOf(i) = "open"
      BY <3>1 DEF OutcomeOf
    <3> QED
      BY <3>2 DEF OutcomeOf
  <2>2. CASE draft[i] # x
    <3>1. FateOf(draft[i])' = FateOf(draft[i])
      BY <2>2 DEF FateOf
    <3> QED
      BY <3>1 DEF OutcomeOf
  <2> QED
    BY <2>1, <2>2
<1>3. Outcomes' \in [Jobs -> {"open", "executed", "reverted"}]
  BY <1>2 DEF Outcomes
<1>4. \A i \in Jobs : Outcomes'[i] # Outcomes[i] => Outcomes[i] = "open"
  BY <1>2 DEF Outcomes
<1> QED
  BY <1>1, <1>3, <1>4 DEF Promise!Settle, Outcomes, Reports

PromiseVars == <<[j \in Jobs |-> OutcomeOf(j)], [j \in Jobs |-> ReportOf(j)]>>

LEMMA JobKeepsPromise ==
  ASSUME IPromise, NEW j \in Jobs, JobStep(j)
  PROVE  Promise!Next \/ (Outcomes' = Outcomes /\ Reports' = Reports)
<1>1. \A i \in Jobs : phase[i] # "done" => receipt[i] = "none"
  BY NoReceiptYet DEF IPromise
<1>2. CASE Wait(j)
  BY <1>2, Told DEF Promise!Next
<1>3. CASE SendRawTransaction(j) \/ SendUserOperation(j)
  <2>1. mined' = mined /\ phase[j] = "send"
    BY <1>3 DEF SendRawTransaction, SendUserOperation
  <2>2. CASE FailOver(j) \/ Throws(j)
    <3>1. receipt' = receipt
      BY <2>2 DEF FailOver, Throws
    <3>2. \A i \in Jobs : i # j => draft'[i] = draft[i]
      BY <2>2 DEF FailOver, Throws, IPromise, ISend, JobValues
    <3> QED
      BY <1>1, <2>1, <3>1, <3>2, PromiseRests
  <2>3. CASE ~(FailOver(j) \/ Throws(j))
    <3>1. PICK status \in {"submitted", "pending"} : HandOff(j, status)
      BY <1>3, <2>3 DEF SendRawTransaction, SendUserOperation
    <3>2. /\ rail[j] = "native-gas" => ~TooLow(draft[j]) /\ draft[j] \in Transactions
          /\ rail[j] = "sponsored" => OpValid(draft[j]) /\ draft[j] \in Operations
          /\ rail[j] \in {"native-gas", "sponsored"}
      <4>1. JobOk(j) /\ HasSigned(j) /\ rail[j] \in {"native-gas", "sponsored"}
        BY <2>1 DEF IPromise, ISend, HasSigned, IQuotes, QuoteShapes
      <4>2. /\ rail[j] = "native-gas" => draft[j] \in Transactions
            /\ rail[j] = "sponsored" => draft[j] \in Operations
        BY <4>1 DEF JobOk, DraftOk
      <4>3. SendRawTransaction(j) => rail[j] = "native-gas" /\ ~TooLow(draft[j])
        BY <2>3 DEF SendRawTransaction, Admit
      <4>4. SendUserOperation(j) => rail[j] = "sponsored" /\ OpValid(draft[j])
        BY <2>3 DEF SendUserOperation
      <4> QED
        BY <1>3, <4>1, <4>2, <4>3, <4>4
    <3>3. \A m \in mined : m.what # draft[j]
      <4>1. ASSUME NEW m \in mined, m.what = draft[j]
            PROVE  FALSE
        <5>1. MinedOk(m)
          BY DEF IPromise, ISend, ChainOk
        <5>2. CASE rail[j] = "native-gas"
          <6>1. draft[j].nonce < count[draft[j].from] /\ ~(draft[j].nonce < count[draft[j].from])
            BY <3>2, <4>1, <5>1, <5>2 DEF MinedOk, TooLow
          <6> QED
            BY <6>1
        <5>3. CASE rail[j] = "sponsored"
          <6>1. PICK n \in Nat : n = draft[j].nonce
            BY <3>2, <5>3 DEF Operations
          <6>2. n < opCount[draft[j].sender] /\ n = opCount[draft[j].sender]
            BY <3>2, <4>1, <5>1, <5>3, <6>1 DEF MinedOk, OpValid
          <6> QED
            BY <6>2
        <5> QED
          BY <3>2, <5>2, <5>3
      <4> QED
        BY <4>1
    <3> QED
      BY <2>1, <3>1, <3>3, HandedOff DEF Promise!Next
  <2> QED
    BY <2>2, <2>3
<1>4. CASE Asked(j)
  <2>1. UNCHANGED <<mined, receipt>> /\ phase[j] = "idle"
    BY <1>4 DEF Asked, Call, Reuse, world, chainVars
  <2>2. \A i \in Jobs : i # j => draft'[i] = draft[i]
    BY <1>4 DEF Asked, Call, Reuse, IPromise, ISend, JobValues
  <2> QED
    BY <1>1, <2>1, <2>2, PromiseRests
<1>5. CASE NextNonce(j) \/ Load(j) \/ Persist(j) \/ GetCode(j) \/ GetTransactionCount(j)
  <2>1. UNCHANGED <<mined, receipt>> /\ phase[j] # "done"
    BY <1>5 DEF NextNonce, Load, Persist, GetCode, GetTransactionCount, world, chainVars, Throws
  <2>2. \A i \in Jobs : i # j => draft'[i] = draft[i]
    BY <1>5 DEF NextNonce, Load, Persist, GetCode, GetTransactionCount, Throws, IPromise, ISend, JobValues
  <2> QED
    BY <1>1, <2>1, <2>2, PromiseRests
<1>6. CASE PrepareSponsored(j) \/ TxNonce(j) \/ Fail(j) \/ Sign(j)
  <2>1. UNCHANGED <<mined, receipt>> /\ phase[j] # "done"
    BY <1>6 DEF PrepareSponsored, TxNonce, Fail, Sign, world, chainVars, Throws, Resolving, Preparing
  <2>2. PICK d : draft' = [draft EXCEPT ![j] = d]
    BY <1>6 DEF PrepareSponsored, TxNonce, Fail, Sign, Throws
  <2>3. \A i \in Jobs : i # j => draft'[i] = draft[i]
    BY <2>2 DEF IPromise, ISend, JobValues
  <2> QED
    BY <1>1, <2>1, <2>3, PromiseRests
<1> QED
  BY <1>2, <1>3, <1>4, <1>5, <1>6 DEF JobStep

LEMMA ChainKeepsPromise ==
  ASSUME IPromise, ChainStep, UNCHANGED jobVars
  PROVE  Promise!Next \/ (Outcomes' = Outcomes /\ Reports' = Reports)
<1>1. UNCHANGED <<draft, receipt>>
  BY DEF jobVars
<1>2. ASSUME NEW t \in pool, Mine(t)
      PROVE  Promise!Settle
  <2>1. PICK fate : mined' = mined \cup {[what |-> t, fate |-> fate]}
    BY <1>2 DEF Mine
  <2>2. t \in Transactions /\ t.nonce = count[t.from]
    BY <1>2 DEF Mine, IPromise, ISend, ChainOk
  <2>3. ASSUME NEW m \in mined, m.what = t
        PROVE  FALSE
    <3>1. PICK n \in Nat : n = t.nonce
      BY <2>2 DEF Transactions
    <3>2. n < count[t.from]
      BY <2>2, <2>3, <3>1 DEF IPromise, ISend, ChainOk, MinedOk
    <3> QED
      BY <2>2, <3>1, <3>2
  <2> QED
    BY <1>1, <2>1, <2>3, SettledOnce
<1>3. ASSUME NEW o \in opPool, Include(o)
      PROVE  Promise!Settle
  <2>1. PICK fate : mined' = mined \cup {[what |-> o, fate |-> fate]}
    BY <1>3 DEF Include
  <2>2. o \in Operations /\ o.nonce = opCount[o.sender]
    BY <1>3 DEF Include, OpValid, IPromise, ISend, ChainOk
  <2>3. ASSUME NEW m \in mined, m.what = o
        PROVE  FALSE
    <3>1. PICK n \in Nat : n = o.nonce
      BY <2>2 DEF Operations
    <3>2. n < opCount[o.sender]
      BY <2>2, <2>3, <3>1 DEF IPromise, ISend, ChainOk, MinedOk
    <3> QED
      BY <2>2, <3>1, <3>2
  <2> QED
    BY <1>1, <2>1, <2>3, SettledOnce
<1>4. ASSUME NEW o \in opPool, Drop(o)
      PROVE  Outcomes' = Outcomes /\ Reports' = Reports
  <2>1. mined' = mined
    BY <1>4 DEF Drop
  <2> QED
    BY <1>1, <2>1, PromiseRests
<1> QED
  BY <1>2, <1>3, <1>4 DEF ChainStep, Promise!Next

LEMMA KeepsPromise ==
  ASSUME IPromise, [Next]_vars
  PROVE  Promise!Next \/ (Outcomes' = Outcomes /\ Reports' = Reports)
<1>1. CASE \E j \in Jobs : JobStep(j)
  BY <1>1, JobKeepsPromise
<1>2. CASE \E p \in Pages : Switch(p) \/ Reload(p)
  <2>1. UNCHANGED <<mined, receipt>>
    BY <1>2 DEF Switch, Reload, chainVars, jobVars
  <2>2. \A i \in Jobs : receipt[i] = "none" \/ draft'[i] = draft[i]
    BY <1>2 DEF Switch, Reload, jobVars
  <2> QED
    BY <2>1, <2>2, PromiseRests
<1>3. CASE ChainStep /\ UNCHANGED <<allocVars, session, jobVars, reloads>>
  BY <1>3, ChainKeepsPromise
<1>4. CASE UNCHANGED vars
  <2>1. UNCHANGED <<mined, receipt, draft>>
    BY <1>4 DEF vars, world, chainVars, jobVars
  <2> QED
    BY <2>1, PromiseRests
<1> QED
  BY <1>1, <1>2, <1>3, <1>4 DEF Next

(* A page of one wallet keeps the promise of Delivery: what its receipts   *)
(* say was true of the chain before, stays true, and is said of calls that *)
(* ran or reverted as a whole, once - whatever is failed over, sent twice, *)
(* replaced, lost or reloaded (client/evm.ts: send, wait).                 *)
THEOREM PromiseIsKept == OneWalletPages /\ Spec => KeepsItsPromise
<1>1. Init /\ OneWalletPages => IPromise
  BY PromiseInit
<1>2. IPromise /\ [Next]_vars => IPromise'
  BY PromiseStep
<1>3. Init => Promise!Init
  BY DEF Init, InitialJobs, Promise!Init, OutcomeOf, ReportOf
<1>4. IPromise /\ [Next]_vars => [Promise!Next]_PromiseVars
  BY KeepsPromise DEF PromiseVars, Outcomes, Reports
<1> QED
  BY <1>1, <1>2, <1>3, <1>4, PTL DEF Spec, KeepsItsPromise, Promise!Spec, PromiseVars
=============================================================================
