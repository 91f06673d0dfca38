-------------------------- MODULE SendEngineSafety --------------------------
(***************************************************************************)
(* What an application may rely on when it sends.                          *)
(***************************************************************************)
EXTENDS SendEngine

Auths == Nat \cup {NoAuth}
Phases == {"idle", "done", "thrown"} \cup Awaiting
Transactions == [source : Jobs, to : Wallets, from : Keys, nonce : Nat, auth : Auths]
Operations == [source : Jobs, sender : Wallets, signer : Keys, nonce : Nat, auth : Auths]

AllocTypeOK ==
  /\ counters \in [Pages -> [Wallets -> Nat \cup {Unset}]]
  /\ stored \in [Stores -> [Wallets -> Nat]]
  /\ tail \in [Pages -> Jobs \cup {NoJob}]
  /\ current \in [Jobs -> Nat \cup {Unset}]

ChainTypeOK ==
  /\ count \in [Keys -> Nat] /\ opCount \in [Wallets -> Nat]
  /\ delegated \subseteq Wallets
  /\ pool \subseteq Transactions /\ opPool \subseteq Operations
  /\ mined \subseteq [what : Transactions \cup Operations, fate : {"executed", "reverted", "nothing"}]

JobTypeOK ==
  /\ phase \in [Jobs -> Phases] /\ page \in [Jobs -> Pages]
  /\ rail \in [Jobs -> {"sponsored", "native-gas"}]
  /\ source \in [Jobs -> Jobs]
  /\ batch \in [Jobs -> [wallet : Wallets, auth : Auths]]
  /\ draft \in [Jobs -> [nonce : Nat, auth : Auths] \cup Transactions \cup Operations]
  /\ endpoint \in [Jobs -> 1 .. Endpoints]
  /\ receipt \in [Jobs -> {"none", "submitted", "pending", "confirmed", "failed"}]

SendTypeOK ==
  /\ AllocTypeOK /\ ChainTypeOK /\ JobTypeOK
  /\ session \in [Pages -> Keys] /\ reloads \in Nat

(* A receipt says confirmed only when the calls ran, if a key of the       *)
(* wallet they were prepared for signed them.  What could break it is a    *)
(* transaction that is mined with success and calls an account without     *)
(* code: its authorization was skipped because its nonce was not the one   *)
(* the account had reached, or the wallet was taken for delegated.  A page *)
(* switched to a key of another wallet before it signs does send such a    *)
(* transaction: its authorization delegates the other wallet.              *)
SignedForItsWallet(j) == rail[j] = "native-gas" => WalletOf[draft[j].from] = draft[j].to

ConfirmedMeansExecuted ==
  \A j \in Jobs :
    receipt[j] = "confirmed" /\ SignedForItsWallet(j) => FateOf(draft[j]) = {"executed"}

(* The types of the engine, and that what it says confirmed was executed.  *)
SendInv == SendTypeOK /\ ConfirmedMeansExecuted

(* However often a sponsored simulation is sent, the operation the user    *)
(* was quoted is executed once: it keeps the EntryPoint nonce it had.      *)
ExecutionsOf(s) == {m \in mined : m.fate = "executed" /\ m.what.source = s}

OneQuoteOneExecution ==
  \A s \in Jobs :
    rail[s] = "sponsored" => \A m, n \in ExecutionsOf(s) : m = n

(* An allocator hands a number out once in its store: also when sends      *)
(* overlap, when a write fails, and when the page is reloaded at any point *)
(* between the read of the counter and the end of the write.               *)
HandedOut(j) == current[j] # Unset /\ phase[j] \notin {"persist", "thrown"}

IntentNoncesDistinct ==
  \A i, j \in Jobs :
    /\ i # j /\ HandedOut(i) /\ HandedOut(j)
    /\ page[i] = page[j] /\ batch[i].wallet = batch[j].wallet
    => current[i] # current[j]

(* The engine keeps the promise of Delivery: what a receipt says was true  *)
(* of the chain before, stays true, and is said of calls that ran or       *)
(* reverted as a whole, once.  So it does where the keys a page may be     *)
(* switched between are of one wallet, which the instance assumes.         *)
OutcomeOf(j) ==
  IF receipt[j] = "none" THEN "open"
  ELSE IF FateOf(draft[j]) = {"executed"} THEN "executed"
  ELSE IF FateOf(draft[j]) = {"reverted"} THEN "reverted" ELSE "open"
ReportOf(j) == IF receipt[j] \in {"submitted", "pending"} THEN "handed off" ELSE receipt[j]

Promise == INSTANCE Delivery WITH
  Sends <- Jobs,
  outcome <- [j \in Jobs |-> OutcomeOf(j)],
  report <- [j \in Jobs |-> ReportOf(j)]

KeepsItsPromise == Promise!Spec
=============================================================================
