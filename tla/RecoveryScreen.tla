--------------------------- MODULE RecoveryScreen ---------------------------
(***************************************************************************)
(* "Recover a wallet", the second page of a vault                          *)
(* (auth-popup/recover/{ceremony,view-dom,mount,discover-guardian-         *)
(* provider}.ts over vault/recover/{flow,approve}.ts and                   *)
(* evm/guardian-reads.ts): a person names a wallet, the page reads its     *)
(* guardians, mints a key on this device, and a guardian signs.  Every     *)
(* step awaits - an endpoint, a passkey, an extension - and the buttons    *)
(* stay where they are meanwhile, so that steps overlap.                   *)
(*                                                                         *)
(* The wallets on the chain go on living: guardians come and leave,        *)
(* approve for any key that is known, here or elsewhere, and recoveries    *)
(* are vetoed and executed.  They are the ballots of RecoveryVote, which   *)
(* GuardianLogic is shown to implement; how many approvals a recovery      *)
(* takes and how long it waits is said there.                              *)
(***************************************************************************)
EXTENDS Naturals, FiniteSets

CONSTANTS
  Wallets, People,      \* whoever may hold a guardian's key, or be none
  Tasks,                \* calls of the page, each at most once
  NoTask,
  OtherKey,             \* a key minted on another device
  MaxRounds             \* bound: recoveries of a wallet that end

ASSUME RecoveryScreenAssumption ==
  /\ NoTask \notin Tasks \cup People \cup Wallets
  /\ OtherKey \notin Tasks \cup {NoTask}
  /\ MaxRounds \in Nat \ {0}

VARIABLES
  contract,             \* the wallets on the chain
  state,                \* what the ceremony holds
  painted,              \* the step the page was rendered for last
  task,                 \* what each call of the page is doing
  approvals             \* every approval that was shown

vars == <<contract, state, painted, task, approvals>>

NoKey == NoTask         \* address(0); a minted key is named by the task that minted it
NoPending == [key |-> NoKey, nonce |-> 0]
Unread == [wallet |-> NoTask, guardians |-> {}, pending |-> NoPending, round |-> 0]
At(step, read, key) == [step |-> step, read |-> read, key |-> key]
Idle == [doing |-> "nothing", read |-> Unread, key |-> NoKey, by |-> NoTask]

Init ==
  /\ contract \in [Wallets -> [guardians : SUBSET People, round : 0..1,
                               candidate : {NoKey, OtherKey}, votes : SUBSET People]]
  /\ \A w \in Wallets : LET c == contract[w] IN
       \/ c.candidate = NoKey /\ c.votes = {}
       \/ c.candidate = OtherKey /\ \E g \in c.guardians : c.votes = {g}
  /\ state = At("enter", Unread, NoKey) /\ painted = "enter"
  /\ task = [t \in Tasks |-> Idle]
  /\ approvals = {}

-----------------------------------------------------------------------------
(* The page.  A call sets the state and then has the page rendered.        *)
Become(new) == state' = new /\ painted' = new.step

(* What a rendered step offers to press.                                   *)
Offers(button) ==
  \/ painted = "enter" /\ button = "Recover"
  \/ painted = "guardian-state" /\ button = "Approve as a guardian"
  \/ painted = "approving" /\ button \in {"Connect a guardian wallet", "Import & sign"}

Unmade == {t \in Tasks : task[t].doing = "nothing"}

(* Calls have no names of their own: the next one is any that is left.     *)
Launch(t, what) ==
  /\ t \in Unmade /\ t = CHOOSE u \in Unmade : TRUE
  /\ task' = [task EXCEPT ![t] = what]

Returned == [Idle EXCEPT !.doing = "over"]
Ends(t) == task' = [task EXCEPT ![t] = Returned]

(* "Recover": the enter form stays on the screen while it resolves.        *)
EnterWallet(t, w) ==
  /\ Offers("Recover")
  /\ Launch(t, [Idle EXCEPT !.doing = "resolving", !.read.wallet = w])
  /\ state' = At("resolving", Unread, NoKey)
  /\ UNCHANGED <<contract, painted, approvals>>

(* The name is resolved and the configuration read ...                     *)
GetGuardianConfig(t) ==
  /\ task[t].doing = "resolving"
  /\ task' = [task EXCEPT ![t].doing = "reading",
                          ![t].read.guardians = contract[task[t].read.wallet].guardians]
  /\ UNCHANGED <<contract, state, painted, approvals>>

(* ... and then, in a later block, what is pending.  The page does not     *)
(* learn the round; the model remembers in which one it looked.            *)
PendingOf(w) ==
  IF contract[w].candidate = NoKey THEN NoPending
  ELSE [key |-> contract[w].candidate, nonce |-> contract[w].round]

GetPendingRecovery(t) ==
  LET w == task[t].read.wallet
      read == [task[t].read EXCEPT !.pending = PendingOf(w), !.round = contract[w].round]
  IN /\ task[t].doing = "reading" /\ Ends(t)
     /\ Become(At("guardian-state", read, NoKey))
     /\ UNCHANGED <<contract, approvals>>

(* An endpoint fails, or the name resolves to nothing.                     *)
EnterFails(t) ==
  /\ task[t].doing \in {"resolving", "reading"} /\ Ends(t)
  /\ Become(At("error", Unread, NoKey))
  /\ UNCHANGED <<contract, approvals>>

(* "Approve as a guardian": a handler finds the state of its step, or      *)
(* throws.                                                                 *)
BeginApproval(t) ==
  /\ Offers("Approve as a guardian") /\ state.step = "guardian-state"
  /\ IF state.read.guardians = {}
     THEN Become(At("error", Unread, NoKey)) /\ Launch(t, Returned)
     ELSE /\ Launch(t, [Idle EXCEPT !.doing = "minting", !.read = state.read])
          /\ UNCHANGED <<state, painted>>
  /\ UNCHANGED <<contract, approvals>>

(* Mutant: the state is looked at again after the passkey. *)
ReadAfterMint(t) == state.read

(* What beginApproval took from the state before it awaited.               *)
ReadOf(t) == task[t].read

(* The key is named by its task, which keeps what it was minted for.       *)
MintPromoteKey(t) ==
  /\ task[t].doing = "minting" /\ task' = [task EXCEPT ![t].doing = "over"]
  /\ Become(At("approving", ReadOf(t), t))
  /\ UNCHANGED <<contract, approvals>>

(* The passkey prompt is dismissed: beginApproval rejects, nothing else.   *)
MintFails(t) ==
  /\ task[t].doing = "minting" /\ Ends(t)
  /\ UNCHANGED <<contract, state, painted, approvals>>

(* "Connect a guardian wallet" and "Import & sign".                        *)
ApproveWith(t, button) ==
  /\ Offers(button) /\ state.step = "approving"
  /\ Launch(t, [Idle EXCEPT !.doing = IF button = "Import & sign" THEN "import" ELSE "connected", !.read = state.read, !.key = state.key])
  /\ UNCHANGED <<contract, state, painted, approvals>>

Refuse(t) ==
  Become(At("approving", task[t].read, task[t].key)) /\ UNCHANGED approvals

NonceFor(pending) == IF pending = NoPending THEN 0 ELSE pending.nonce

(* recoveryApprovalTypedData, signed: the wallet is its verifyingContract. *)
Approval(read, key, guardian) ==
  [wallet |-> read.wallet, promoteKey |-> key, nonce |-> NonceFor(read.pending),
   guardian |-> guardian, read |-> read]

(* The first extension that answers has an account, or there is none; the  *)
(* account must be in the roster that was read.                            *)
ConnectGuardianWallet(t, p) ==
  /\ task[t].doing = "connected"
  /\ IF p \in task[t].read.guardians
     THEN /\ task' = [task EXCEPT ![t].doing = "signing", ![t].by = p]
          /\ UNCHANGED <<state, painted, approvals>>
     ELSE Ends(t) /\ Refuse(t)
  /\ UNCHANGED contract

(* The request is made of JSON.stringify(typedData), whose nonce is a      *)
(* bigint: it throws before the extension hears of it.                     *)
ApproveAsConnectedGuardian(t) ==
  /\ task[t].doing = "signing" /\ Ends(t)
  /\ Refuse(t)
  /\ UNCHANGED contract

(* The key's own address is the guardian; nobody looks it up.              *)
ApproveWithImportedKey(t, p) ==
  /\ task[t].doing = "import" /\ Ends(t)
  /\ Become(At("submitted", task[t].read, task[t].key))
  /\ approvals' = approvals \cup {Approval(task[t].read, task[t].key, p)}
  /\ UNCHANGED contract

(* No extension, no account, a rejection, a key that is none.              *)
ApprovalFails(t) ==
  /\ task[t].doing \in {"connected", "import"} /\ Ends(t)
  /\ Refuse(t)
  /\ UNCHANGED contract

(* The page is closed, with whatever was in flight, and opened again.      *)
Reopen ==
  /\ state.step # "enter"
  /\ Become(At("enter", Unread, NoKey))
  /\ task' = [t \in Tasks |-> IF task[t].doing \in {"nothing", "over"} THEN task[t]
                              ELSE Returned]
  /\ UNCHANGED <<contract, approvals>>

-----------------------------------------------------------------------------
(* The chain.                                                              *)
Accepts(w, a) ==
  LET c == contract[w]
  IN /\ a.wallet = w /\ a.nonce = c.round
     /\ a.guardian \in c.guardians \ c.votes
     /\ c.votes # {} => a.promoteKey = c.candidate

Change(w, new) == contract' = [contract EXCEPT ![w] = new] /\ UNCHANGED <<state, painted, task, approvals>>

ApproveRecoveryBySig(w, a) ==
  /\ Accepts(w, a)
  /\ Change(w, [contract[w] EXCEPT !.candidate = a.promoteKey, !.votes = @ \cup {a.guardian}])

(* Keys that were shown: another device's, this page's.                    *)
Known == {OtherKey} \cup ({state.key} \ {NoKey}) \cup {a.promoteKey : a \in approvals}

(* A guardian approves on its own, or with a signature made elsewhere.     *)
ApproveRecovery(w, g, k) ==
  LET c == contract[w]
  IN /\ g \in c.guardians \ c.votes /\ (c.votes # {} => k = c.candidate)
     /\ Change(w, [c EXCEPT !.candidate = k, !.votes = @ \cup {g}])

EndRound(w) ==
  /\ contract[w].candidate # NoKey /\ contract[w].round < MaxRounds
  /\ Change(w, [contract[w] EXCEPT !.candidate = NoKey, !.votes = {}, !.round = @ + 1])

VetoRecovery(w) == EndRound(w)

(* A clock that runs has a vote, whatever the threshold was since.         *)
ExecuteRecovery(w) == contract[w].votes # {} /\ EndRound(w)

(* setupGuardians and an operation that adds.                              *)
AddGuardian(w, g) ==
  /\ g \notin contract[w].guardians
  /\ Change(w, [contract[w] EXCEPT !.guardians = @ \cup {g}])

(* The threshold is never below one, nor above the guardians.              *)
RemoveGuardian(w, g) ==
  /\ g \in contract[w].guardians /\ Cardinality(contract[w].guardians) > 1
  /\ Change(w, [contract[w] EXCEPT !.guardians = @ \ {g}, !.votes = @ \ {g}])

-----------------------------------------------------------------------------
PageStep(t) ==
  \/ \E w \in Wallets : EnterWallet(t, w)
  \/ GetGuardianConfig(t) \/ GetPendingRecovery(t) \/ EnterFails(t)
  \/ BeginApproval(t) \/ MintPromoteKey(t) \/ MintFails(t)
  \/ \E button \in {"Connect a guardian wallet", "Import & sign"} : ApproveWith(t, button)
  \/ \E p \in People : ConnectGuardianWallet(t, p) \/ ApproveWithImportedKey(t, p)
  \/ ApproveAsConnectedGuardian(t) \/ ApprovalFails(t)

LiveOn(w) ==
  \/ \E a \in approvals : ApproveRecoveryBySig(w, a)
  \/ VetoRecovery(w)
  \/ \E g \in People : \/ AddGuardian(w, g) \/ RemoveGuardian(w, g)
                      \/ \E k \in Known : ApproveRecovery(w, g, k)

Next ==
  \/ Reopen
  \/ \E t \in Tasks : PageStep(t)
  \/ \E w \in Wallets : LiveOn(w) \/ ExecuteRecovery(w)

Spec == Init /\ [][Next]_vars

-----------------------------------------------------------------------------
(***************************************************************************)
(* What the recovery screen must get right while its calls overlap and the *)
(* wallets it read go on changing.                                         *)
(***************************************************************************)

PromoteKeys == Tasks \cup {OtherKey, NoKey}
Pendings == [key : PromoteKeys, nonce : 0..MaxRounds]
Reads == [wallet : Wallets \cup {NoTask}, guardians : SUBSET People, pending : Pendings,
          round : 0..MaxRounds]
Steps == {"enter", "resolving", "guardian-state", "approving", "submitted", "error"}

(* Every variable has the values its declaration promises: RecoverState,   *)
(* the calls in flight, the approvals and the wallets' storage.            *)
RecoveryTypeOK ==
  /\ contract \in [Wallets -> [guardians : SUBSET People,
                               round : 0..MaxRounds, candidate : PromoteKeys,
                               votes : SUBSET People]]
  /\ state \in [step : Steps, read : Reads, key : Tasks \cup {NoKey}]
  /\ painted \in Steps
  /\ task \in [Tasks -> [doing : {"nothing", "resolving", "reading", "minting", "connected",
                                  "signing", "import", "over"},
                         read : Reads, key : Tasks \cup {NoKey}, by : People \cup {NoTask}]]
  /\ approvals \subseteq [wallet : Wallets, promoteKey : Tasks, nonce : 0..MaxRounds,
                          guardian : People, read : Reads]

(* The key on the screen, and the key an approval promotes, were minted    *)
(* for the wallet, the roster and the pending recovery shown with them,    *)
(* whichever calls overlapped (beginApproval keeps what it took from the   *)
(* state before the passkey).                                              *)
KeyIsMintedForTheRead ==
  /\ state.key # NoKey => task[state.key].read = state.read
  /\ \A a \in approvals : task[a.promoteKey].read = a.read

(* No approval carries the nonce of a recovery to come.  One made for the  *)
(* recovery that was pending when the page looked, or for a wallet that    *)
(* never went through one, carries the nonce of the round it looked in     *)
(* (guardian-reads.ts:25, ceremony.ts:72): it is dead once that round      *)
(* ends, the same key proposed again or not.                               *)
NonceIsOfTheRead ==
  \A a \in approvals :
    LET seen == a.read.round
    IN /\ a.nonce <= seen /\ seen <= contract[a.wallet].round
       /\ seen = 0 \/ a.read.pending # NoPending => a.nonce = seen

(* A wallet that never went through a recovery, and has none under way,    *)
(* accepts the approval of any of its guardians (ceremony.ts:72: 0n is     *)
(* right for the first).                                                   *)
FirstApprovalIsAccepted ==
  \A a \in approvals :
    LET c == contract[a.wallet]
    IN c.round = 0 /\ c.votes = {} /\ a.guardian \in c.guardians => Accepts(a.wallet, a)

(* The buttons on the screen meet the step they were painted for: no       *)
(* handler of ceremony.ts throws for being called in another step.  Only   *)
(* the enter form stays while its call resolves.                           *)
ButtonsMeetTheirStep ==
  \/ painted = state.step
  \/ painted = "enter" /\ state.step = "resolving"

(* What every state of the screen keeps, whichever calls overlap and       *)
(* whatever the wallets go through meanwhile.                              *)
RecoveryInv ==
  /\ RecoveryTypeOK
  /\ KeyIsMintedForTheRead
  /\ NonceIsOfTheRead
  /\ FirstApprovalIsAccepted
  /\ ButtonsMeetTheirStep
=============================================================================
