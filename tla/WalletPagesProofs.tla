-------------------------- MODULE WalletPagesProofs --------------------------
(***************************************************************************)
(* That an approval signed on the recovery screen is for the read it was   *)
(* made from, that the list of devices is true, and that only keys a       *)
(* person picked leave a roster: for any number of calls, people, wallets, *)
(* devices and rounds.                                                     *)
(***************************************************************************)
EXTENDS WalletPages, TLAPS

(***************************************************************************)
(* The recovery screen.                                                    *)
(***************************************************************************)

AtWork == {"resolving", "reading", "minting", "connected", "signing", "import"}

(* A key that is minted is over, and keeps the read it was minted for.     *)
Minted(k, read) == k \in Tasks /\ task[k].doing = "over" /\ task[k].read = read

(* The round a read was made in has been entered, and what it found       *)
(* pending is of that round.                                               *)
Dated(read) ==
  /\ read.pending.key = NoKey => read.pending = NoPending
  /\ read.pending # NoPending => read.pending.nonce = read.round
  /\ read.wallet \in Wallets => read.round <= contract[read.wallet].round

TaskHolds(t) ==
  /\ Dated(task[t].read)
  /\ task[t].doing \in AtWork => task[t].read.wallet \in Wallets
  /\ task[t].doing \in {"connected", "signing", "import"} => Minted(task[t].key, task[t].read)

StateHolds ==
  /\ Dated(state.read)
  /\ state.step \in {"guardian-state", "approving", "submitted"} => state.read.wallet \in Wallets
  /\ state.step \in {"approving", "submitted"} \/ state.key # NoKey => Minted(state.key, state.read)

ApprovalHolds(a) ==
  /\ Minted(a.promoteKey, a.read)
  /\ a.read.wallet = a.wallet /\ a.nonce = NonceFor(a.read.pending)

(* Nobody votes for no key.                                                *)
BallotHolds(w) == contract[w].candidate = NoKey => contract[w].votes = {}

IRecovery ==
  /\ RecoveryTypeOK /\ ButtonsMeetTheirStep
  /\ \A t \in Tasks : TaskHolds(t)
  /\ StateHolds
  /\ \A a \in approvals : ApprovalHolds(a)
  /\ \A w \in Wallets : BallotHolds(w)

-----------------------------------------------------------------------------
(***************************************************************************)
(* The rosters and the list of devices.                                    *)
(***************************************************************************)

(* A listing that is under way and met one change at most: it has read the *)
(* first keys of the roster, which include all that stayed; or it is done, *)
(* and a key was revoked then; or a key was revoked before it was done,    *)
(* and it will ask for an index that is none.                              *)
ReadsInOrder(read) ==
  LET keys == roster[read.wallet]
  IN /\ read.changes = 0 => read.count = Len(keys)
     /\ read.count <= Len(keys)
     /\ \A i \in DOMAIN read.list : read.list[i] = keys[i]
     /\ read.stayed \subseteq {keys[i] : i \in 1 .. read.count}
ReadItAll(read) == Len(read.list) = read.count /\ read.stayed \subseteq Range(read.list)
WillFail(read) == Len(read.list) <= Len(roster[read.wallet]) /\ Len(roster[read.wallet]) < read.count

Listing(read) ==
  /\ Len(read.list) <= read.count
  /\ Range(read.list) \subseteq read.seen
  /\ read.changes <= 1 =>
       \/ ReadsInOrder(read)
       \/ read.changes = 1 /\ (ReadItAll(read) \/ WillFail(read))

ActHolds(r) ==
  LET read == act[r].read  call == act[r].call
  IN /\ act[r].doing \in {"counting", "listing"} =>
          /\ read.wallet \in Accounts
          /\ read.stayed \subseteq Keys(read.wallet) /\ Keys(read.wallet) \subseteq read.seen
     /\ act[r].doing = "counting" => read.list = <<>>
     /\ act[r].doing = "listing" => Listing(read)
     /\ act[r].doing = "built" => call.to \in Accounts /\ call.key \in AllKeys

IRoster ==
  /\ RosterInv
  /\ DOMAIN roster = Accounts
  /\ recovered \in [Wallets -> SUBSET Owners]
  /\ Len(devices.list) <= MaxKeys
  /\ \A r \in Acts : ActHolds(r)

-----------------------------------------------------------------------------
(* The recovery screen, step by step.                                      *)

CallTypes == [doing : {"nothing", "resolving", "reading", "minting", "connected", "signing",
                       "import", "over"},
              read : Reads, key : Tasks \cup {NoKey}, by : People \cup {NoTask}]
StateTypes == [step : Steps, read : Reads, key : Tasks \cup {NoKey}]

LEMMA UnreadIsARead == Unread \in Reads /\ NoPending \in Pendings
BY RecoveryScreenAssumption DEF Unread, Reads, NoPending, Pendings, PromoteKeys, NoKey

LEMMA ReturnedIsOver == Returned \in CallTypes /\ Returned.doing = "over" /\ Returned.read = Unread
BY UnreadIsARead DEF Returned, Idle, CallTypes

LEMMA RecoveryInit == Init => IRecovery
<1> SUFFICES ASSUME Init PROVE IRecovery
  OBVIOUS
<1>1. NoKey \notin Tasks /\ OtherKey \notin Tasks /\ OtherKey # NoKey /\ NoTask \notin Wallets
  BY RecoveryScreenAssumption DEF NoKey
<1>2. Dated(Unread)
  BY <1>1 DEF Dated, Unread, NoPending
<1>3. state \in StateTypes /\ task \in [Tasks -> CallTypes]
  BY UnreadIsARead DEF Init, At, Idle, StateTypes, Steps, CallTypes
<1>4. contract \in [Wallets -> [guardians : SUBSET People, round : 0 .. MaxRounds,
                                candidate : PromoteKeys, votes : SUBSET People]]
  BY RecoveryScreenAssumption DEF Init, PromoteKeys
<1>5. RecoveryTypeOK /\ ButtonsMeetTheirStep
  BY <1>3, <1>4 DEF Init, RecoveryTypeOK, ButtonsMeetTheirStep, At, Steps, StateTypes, CallTypes
<1>6. \A t \in Tasks : TaskHolds(t)
  BY <1>2 DEF Init, TaskHolds, Idle, AtWork
<1>7. StateHolds
  BY <1>2 DEF Init, StateHolds, At
<1>8. \A w \in Wallets : BallotHolds(w)
  <2> SUFFICES ASSUME NEW w \in Wallets PROVE BallotHolds(w)
    OBVIOUS
  <2>1. \/ contract[w].candidate = NoKey /\ contract[w].votes = {}
        \/ contract[w].candidate = OtherKey
    BY DEF Init
  <2> QED
    BY <1>1, <2>1 DEF BallotHolds
<1> QED
  BY <1>5, <1>6, <1>7, <1>8 DEF IRecovery, Init

(* A step of the page leaves the wallets alone, and calls that are over.   *)
PageStays ==
  /\ contract' = contract
  /\ \A u \in Tasks : task[u].doing = "over" => task'[u].doing = "over" /\ task'[u].read = task[u].read

LEMMA PageKeeps ==
  ASSUME PageStays
  PROVE  /\ \A rd : Dated(rd) => Dated(rd)'
         /\ \A k, rd : Minted(k, rd) => Minted(k, rd)'
         /\ \A w \in Wallets : BallotHolds(w) => BallotHolds(w)'
<1>1. ASSUME NEW rd, Dated(rd)
      PROVE  Dated(rd)'
  BY <1>1 DEF PageStays, Dated
<1>2. ASSUME NEW k, NEW rd, Minted(k, rd)
      PROVE  Minted(k, rd)'
  BY <1>2 DEF PageStays, Minted
<1>3. ASSUME NEW w \in Wallets, BallotHolds(w)
      PROVE  BallotHolds(w)'
  BY <1>3 DEF PageStays, BallotHolds
<1> QED
  BY <1>1, <1>2, <1>3

LEMMA PageTypes ==
  RecoveryTypeOK <=>
    /\ contract \in [Wallets -> [guardians : SUBSET People, round : 0 .. MaxRounds,
                                 candidate : PromoteKeys, votes : SUBSET People]]
    /\ state \in StateTypes /\ painted \in Steps /\ task \in [Tasks -> CallTypes]
    /\ approvals \subseteq [wallet : Wallets, promoteKey : Tasks, nonce : 0 .. MaxRounds,
                            guardian : People, read : Reads]
BY DEF RecoveryTypeOK, StateTypes, CallTypes

(* A step of one call of the page.                                         *)
OneCall(t) ==
  /\ t \in Tasks /\ task[t].doing # "over" /\ contract' = contract
  /\ \E new \in CallTypes : task' = [task EXCEPT ![t] = new]

LEMMA OneCallKeeps ==
  ASSUME IRecovery, NEW t, OneCall(t)
  PROVE  /\ PageStays
         /\ task' \in [Tasks -> CallTypes]
         /\ \A u \in Tasks \ {t} : TaskHolds(u)'
         /\ \A a \in approvals : ApprovalHolds(a)'
         /\ \A w \in Wallets : BallotHolds(w)'
         /\ UNCHANGED state => StateHolds'
<1>1. task \in [Tasks -> CallTypes]
  BY PageTypes DEF IRecovery
<1>2. PICK new \in CallTypes : task' = [task EXCEPT ![t] = new]
  BY DEF OneCall
<1>3. PageStays /\ task' \in [Tasks -> CallTypes]
  BY <1>1, <1>2 DEF OneCall, PageStays
<1>4. ASSUME NEW u \in Tasks \ {t}
      PROVE  TaskHolds(u)'
  <2>1. TaskHolds(u)
    BY DEF IRecovery
  <2>2. PICK c : c = task[u]
    OBVIOUS
  <2>3. task'[u] = c
    BY <1>1, <1>2, <2>2
  <2>4. Dated(c.read)'
    BY <1>3, <2>1, <2>2, PageKeeps DEF TaskHolds
  <2>5. c.doing \in {"connected", "signing", "import"} => Minted(c.key, c.read)'
    BY <1>3, <2>1, <2>2, PageKeeps DEF TaskHolds
  <2> QED
    BY <2>1, <2>2, <2>3, <2>4, <2>5 DEF TaskHolds
<1>5. ASSUME NEW a \in approvals
      PROVE  ApprovalHolds(a)'
  <2>1. ApprovalHolds(a)
    BY DEF IRecovery
  <2> QED
    BY <1>3, <2>1, PageKeeps DEF ApprovalHolds
<1>6. ASSUME NEW w \in Wallets
      PROVE  BallotHolds(w)'
  BY <1>3, <1>6, PageKeeps DEF IRecovery
<1>7. ASSUME UNCHANGED state
      PROVE  StateHolds'
  <2>1. StateHolds
    BY DEF IRecovery
  <2>2. PICK s : s = state
    OBVIOUS
  <2>3. Dated(s.read)' /\ (s.step \in {"approving", "submitted"} \/ s.key # NoKey => Minted(s.key, s.read)')
    BY <1>3, <2>1, <2>2, PageKeeps DEF StateHolds
  <2> QED
    BY <1>7, <2>1, <2>2, <2>3 DEF StateHolds
<1> QED
  BY <1>3, <1>4, <1>5, <1>6, <1>7

LEMMA CallKeeps ==
  ASSUME IRecovery, NEW t, OneCall(t), TaskHolds(t)', StateHolds', ButtonsMeetTheirStep',
         state' \in StateTypes, painted' \in Steps,
         UNCHANGED approvals
  PROVE  IRecovery'
<1>1. contract' = contract
  BY DEF OneCall
<1>2. RecoveryTypeOK'
  BY <1>1, OneCallKeeps, PageTypes DEF IRecovery, PageTypes, RecoveryTypeOK, StateTypes, CallTypes
<1> QED
  BY <1>2, OneCallKeeps DEF IRecovery

(* What is not known yet is dated.                                         *)
LEMMA NothingPendingIsDated ==
  ASSUME IRecovery, NEW rd, rd.pending = NoPending, rd.round = 0
  PROVE  Dated(rd)
<1>1. rd.wallet \in Wallets => contract[rd.wallet].round \in Nat
  BY RecoveryScreenAssumption, PageTypes DEF IRecovery
<1> QED
  BY <1>1 DEF Dated

LEMMA UnreadKeeps ==
  ASSUME IRecovery
  PROVE  Dated(Unread)
BY NothingPendingIsDated DEF Unread

LEMMA LaunchIsACall ==
  ASSUME NEW t, NEW what, Launch(t, what)
  PROVE  task[t].doing = "nothing" /\ task' = [task EXCEPT ![t] = what]
BY DEF Launch, Unmade

LEMMA EnterWalletKeeps ==
  ASSUME IRecovery, NEW t \in Tasks, NEW w \in Wallets, EnterWallet(t, w)
  PROVE  IRecovery'
<1>1. PICK new : new = [Idle EXCEPT !.doing = "resolving", !.read.wallet = w]
  OBVIOUS
<1>2. Idle \in CallTypes /\ Idle.read = Unread
  BY UnreadIsARead DEF Idle, CallTypes
<1>3. new \in CallTypes /\ new.doing = "resolving" /\ new.read = [Unread EXCEPT !.wallet = w]
  <2>1. [Unread EXCEPT !.wallet = w] \in Reads
    BY UnreadIsARead DEF Unread, Reads
  <2> QED
    BY <1>1, <1>2, <2>1 DEF CallTypes
<1>4. PICK rd : rd = new.read
  OBVIOUS
<1>5. rd.wallet = w /\ rd.pending = NoPending /\ rd.round = 0
  BY <1>3, <1>4 DEF Unread
<1>6. task[t].doing = "nothing" /\ task' = [task EXCEPT ![t] = new]
  BY <1>1, LaunchIsACall DEF EnterWallet
<1>7. OneCall(t) /\ task \in [Tasks -> CallTypes]
  BY <1>3, <1>6, PageTypes DEF OneCall, EnterWallet, IRecovery
<1>8. Dated(rd) /\ Dated(Unread)
  BY <1>5, NothingPendingIsDated DEF Unread
<1>9. Dated(rd)' /\ Dated(Unread)'
  BY <1>7, <1>8, OneCallKeeps, PageKeeps
<1>10. task'[t] = new
  BY <1>6, <1>7
<1>11. TaskHolds(t)'
  BY <1>3, <1>4, <1>5, <1>9, <1>10 DEF TaskHolds
<1>12. StateHolds' /\ state' \in StateTypes /\ painted' \in Steps /\ ButtonsMeetTheirStep'
  BY <1>9, UnreadIsARead DEF EnterWallet, At, StateHolds, StateTypes, Steps, Offers, ButtonsMeetTheirStep
<1>13. UNCHANGED approvals
  BY DEF EnterWallet
<1> QED
  BY <1>7, <1>11, <1>12, <1>13, CallKeeps

LEMMA GetGuardianConfigKeeps ==
  ASSUME IRecovery, NEW t \in Tasks, GetGuardianConfig(t)
  PROVE  IRecovery'
<1>1. task \in [Tasks -> CallTypes] /\ task[t].doing = "resolving"
  BY PageTypes DEF IRecovery, GetGuardianConfig
<1>2. TaskHolds(t) /\ task[t].read.wallet \in Wallets
  BY <1>1 DEF IRecovery, TaskHolds, AtWork
<1>3. contract[task[t].read.wallet].guardians \in SUBSET People
  BY <1>2, PageTypes DEF IRecovery
<1>4. PICK rd : rd = [task[t].read EXCEPT !.guardians = contract[task[t].read.wallet].guardians]
  OBVIOUS
<1>5. /\ rd \in Reads /\ rd.wallet = task[t].read.wallet
      /\ rd.pending = task[t].read.pending /\ rd.round = task[t].read.round
  BY <1>1, <1>3, <1>4 DEF CallTypes, Reads
<1>6. PICK new : new = [task[t] EXCEPT !.doing = "reading", !.read = rd]
  OBVIOUS
<1>7. new \in CallTypes /\ new.doing = "reading" /\ new.read = rd
  BY <1>1, <1>5, <1>6 DEF CallTypes
<1>8. task' = [task EXCEPT ![t] = new]
  BY <1>1, <1>4, <1>6 DEF GetGuardianConfig, CallTypes
<1>9. OneCall(t)
  BY <1>1, <1>7, <1>8 DEF OneCall, GetGuardianConfig
<1>10. Dated(rd)
  BY <1>2, <1>5 DEF TaskHolds, Dated
<1>11. Dated(rd)'
  BY <1>9, <1>10, OneCallKeeps, PageKeeps
<1>12. TaskHolds(t)'
  BY <1>1, <1>2, <1>5, <1>7, <1>8, <1>11 DEF TaskHolds
<1>13. UNCHANGED <<state, painted, approvals>>
  BY DEF GetGuardianConfig
<1> QED
  BY <1>9, <1>12, <1>13, OneCallKeeps, CallKeeps, PageTypes DEF IRecovery, ButtonsMeetTheirStep

(* What is pending now is dated now.                                       *)
LEMMA PendingIsDated ==
  ASSUME IRecovery, NEW rd, rd.wallet \in Wallets,
         rd.pending = PendingOf(rd.wallet), rd.round = contract[rd.wallet].round
  PROVE  Dated(rd)
<1>1. contract[rd.wallet].round \in Nat
  BY RecoveryScreenAssumption, PageTypes DEF IRecovery
<1> QED
  BY <1>1 DEF Dated, PendingOf

(* A call that ends.                                                       *)
LEMMA EndIsOneCall ==
  ASSUME IRecovery, NEW t \in Tasks, task[t].doing # "over", Ends(t), contract' = contract
  PROVE  OneCall(t) /\ TaskHolds(t)'
<1>1. task \in [Tasks -> CallTypes] /\ task' = [task EXCEPT ![t] = Returned]
  BY PageTypes DEF IRecovery, Ends
<1>2. OneCall(t) /\ task'[t] = Returned
  BY <1>1, ReturnedIsOver DEF OneCall
<1>3. Dated(Unread)'
  BY <1>2, UnreadKeeps, OneCallKeeps, PageKeeps
<1>4. TaskHolds(t)'
  BY <1>2, <1>3, ReturnedIsOver DEF TaskHolds, AtWork
<1> QED
  BY <1>2, <1>4

LEMMA GetPendingRecoveryKeeps ==
  ASSUME IRecovery, NEW t \in Tasks, GetPendingRecovery(t)
  PROVE  IRecovery'
<1>1. task \in [Tasks -> CallTypes] /\ task[t].doing = "reading"
  BY PageTypes DEF IRecovery, GetPendingRecovery
<1>2. task[t].read.wallet \in Wallets
  BY <1>1 DEF IRecovery, TaskHolds, AtWork
<1>3. PICK rd : rd = [task[t].read EXCEPT !.pending = PendingOf(task[t].read.wallet),
                                          !.round = contract[task[t].read.wallet].round]
  OBVIOUS
<1>4. PendingOf(task[t].read.wallet) \in Pendings /\ contract[task[t].read.wallet].round \in 0 .. MaxRounds
  BY <1>2, UnreadIsARead, PageTypes DEF IRecovery, PendingOf, Pendings
<1>5. /\ rd \in Reads /\ rd.wallet = task[t].read.wallet
      /\ rd.pending = PendingOf(rd.wallet) /\ rd.round = contract[rd.wallet].round
  BY <1>1, <1>3, <1>4 DEF CallTypes, Reads
<1>6. Ends(t) /\ Become(At("guardian-state", rd, NoKey)) /\ UNCHANGED <<contract, approvals>>
  BY <1>3 DEF GetPendingRecovery
<1>7. OneCall(t) /\ TaskHolds(t)'
  BY <1>1, <1>6, EndIsOneCall
<1>8. Dated(rd)'
  BY <1>2, <1>5, <1>7, PendingIsDated, OneCallKeeps, PageKeeps
<1>9. StateHolds' /\ state' \in StateTypes /\ painted' \in Steps /\ ButtonsMeetTheirStep'
  BY <1>2, <1>5, <1>6, <1>8 DEF Become, At, StateHolds, StateTypes, Steps, ButtonsMeetTheirStep
<1> QED
  BY <1>6, <1>7, <1>9, CallKeeps

LEMMA BecomeIsPainted ==
  ASSUME NEW s \in StateTypes, Become(s)
  PROVE  state' \in StateTypes /\ painted' \in Steps /\ ButtonsMeetTheirStep'
BY DEF Become, StateTypes, ButtonsMeetTheirStep

LEMMA EnterFailsKeeps ==
  ASSUME IRecovery, NEW t \in Tasks, EnterFails(t)
  PROVE  IRecovery'
<1>1. OneCall(t) /\ TaskHolds(t)'
  BY EndIsOneCall DEF EnterFails
<1>2. Dated(Unread)'
  BY <1>1, UnreadKeeps, OneCallKeeps, PageKeeps
<1>3. At("error", Unread, NoKey) \in StateTypes
  BY UnreadIsARead DEF At, StateTypes, Steps
<1>4. StateHolds'
  BY <1>2 DEF EnterFails, Become, At, StateHolds
<1> QED
  BY <1>1, <1>3, <1>4, BecomeIsPainted, CallKeeps DEF EnterFails

LEMMA BeginApprovalKeeps ==
  ASSUME IRecovery, NEW t \in Tasks, BeginApproval(t)
  PROVE  IRecovery'
<1>1. task \in [Tasks -> CallTypes] /\ state \in StateTypes /\ StateHolds /\ ButtonsMeetTheirStep
  BY PageTypes DEF IRecovery
<1>2. Idle \in CallTypes /\ Idle.read = Unread
  BY UnreadIsARead DEF Idle, CallTypes
<1>3. UNCHANGED <<contract, approvals>>
  BY DEF BeginApproval
<1>4. CASE state.read.guardians = {}
  <2>1. PICK new : new = Returned
    OBVIOUS
  <2>2. new \in CallTypes /\ new.doing = "over" /\ new.read = Unread
    BY <2>1, ReturnedIsOver
  <2>3. task[t].doing = "nothing" /\ task' = [task EXCEPT ![t] = new]
    BY <1>4, <2>1, LaunchIsACall DEF BeginApproval
  <2>4. OneCall(t)
    BY <1>3, <2>2, <2>3 DEF OneCall
  <2>5. Dated(Unread)'
    BY <2>4, UnreadKeeps, OneCallKeeps, PageKeeps
  <2>6. task'[t] = new
    BY <1>1, <2>3
  <2>7. TaskHolds(t)'
    BY <2>2, <2>5, <2>6 DEF TaskHolds, AtWork
  <2>8. Become(At("error", Unread, NoKey)) /\ At("error", Unread, NoKey) \in StateTypes
    BY <1>4, UnreadIsARead DEF BeginApproval, At, StateTypes, Steps
  <2>9. StateHolds'
    BY <2>5, <2>8 DEF Become, At, StateHolds
  <2> QED
    BY <1>3, <2>4, <2>7, <2>8, <2>9, BecomeIsPainted, CallKeeps
<1>5. CASE state.read.guardians # {}
  <2>1. PICK rd : rd = state.read
    OBVIOUS
  <2>2. PICK new : new = [Idle EXCEPT !.doing = "minting", !.read = rd]
    OBVIOUS
  <2>3. rd \in Reads
    BY <1>1, <2>1 DEF StateTypes
  <2>4. new \in CallTypes /\ new.doing = "minting" /\ new.read = rd
    BY <1>2, <2>2, <2>3 DEF CallTypes
  <2>5. task[t].doing = "nothing" /\ task' = [task EXCEPT ![t] = new]
    BY <1>5, <2>1, <2>2, LaunchIsACall DEF BeginApproval
  <2>6. OneCall(t)
    BY <1>3, <2>4, <2>5 DEF OneCall
  <2>7. Dated(rd) /\ rd.wallet \in Wallets
    BY <1>1, <2>1 DEF StateHolds, BeginApproval
  <2>8. Dated(rd)'
    BY <2>6, <2>7, OneCallKeeps, PageKeeps
  <2>9. task'[t] = new
    BY <1>1, <2>5
  <2>10. TaskHolds(t)'
    BY <2>4, <2>7, <2>8, <2>9 DEF TaskHolds
  <2>11. UNCHANGED <<state, painted>>
    BY <1>5 DEF BeginApproval
  <2>12. StateHolds' /\ ButtonsMeetTheirStep' /\ state' \in StateTypes /\ painted' \in Steps
    BY <1>1, <2>6, <2>11, OneCallKeeps, PageTypes DEF ButtonsMeetTheirStep, IRecovery
  <2> QED
    BY <1>3, <2>6, <2>10, <2>12, CallKeeps
<1> QED
  BY <1>4, <1>5

LEMMA MintPromoteKeyKeeps ==
  ASSUME IRecovery, NEW t \in Tasks, MintPromoteKey(t)
  PROVE  IRecovery'
<1>1. task \in [Tasks -> CallTypes] /\ TaskHolds(t) /\ task[t].doing = "minting"
  BY PageTypes DEF IRecovery, MintPromoteKey
<1>2. PICK rd : rd = task[t].read
  OBVIOUS
<1>3. rd \in Reads /\ rd.wallet \in Wallets /\ Dated(rd)
  BY <1>1, <1>2 DEF TaskHolds, AtWork, CallTypes
<1>4. PICK new : new = [task[t] EXCEPT !.doing = "over"]
  OBVIOUS
<1>5. new \in CallTypes /\ new.doing = "over" /\ new.read = rd
  BY <1>1, <1>2, <1>4 DEF CallTypes
<1>6. task' = [task EXCEPT ![t] = new]
  BY <1>1, <1>4 DEF MintPromoteKey, CallTypes
<1>7. OneCall(t) /\ task'[t] = new
  BY <1>1, <1>5, <1>6 DEF OneCall, MintPromoteKey
<1>8. Dated(rd)'
  BY <1>3, <1>7, OneCallKeeps, PageKeeps
<1>9. TaskHolds(t)' /\ Minted(t, rd)'
  BY <1>5, <1>7, <1>8 DEF TaskHolds, AtWork, Minted
<1>10. Become(At("approving", rd, t)) /\ At("approving", rd, t) \in StateTypes
  BY <1>2, <1>3 DEF MintPromoteKey, ReadOf, At, StateTypes, Steps
<1>11. StateHolds'
  BY <1>3, <1>8, <1>9, <1>10 DEF Become, At, StateHolds
<1> QED
  BY <1>7, <1>9, <1>10, <1>11, BecomeIsPainted, CallKeeps DEF MintPromoteKey

LEMMA MintFailsKeeps ==
  ASSUME IRecovery, NEW t \in Tasks, MintFails(t)
  PROVE  IRecovery'
<1>1. OneCall(t) /\ TaskHolds(t)'
  BY EndIsOneCall DEF MintFails
<1> QED
  BY <1>1, OneCallKeeps, CallKeeps, PageTypes DEF MintFails, IRecovery, ButtonsMeetTheirStep

LEMMA ApproveWithKeeps ==
  ASSUME IRecovery, NEW t \in Tasks, NEW button, ApproveWith(t, button)
  PROVE  IRecovery'
<1>1. task \in [Tasks -> CallTypes] /\ state \in StateTypes /\ StateHolds /\ state.step = "approving"
  BY PageTypes DEF IRecovery, ApproveWith
<1>2. PICK rd, k : rd = state.read /\ k = state.key
  OBVIOUS
<1>3. rd \in Reads /\ k \in Tasks \cup {NoKey} /\ rd.wallet \in Wallets /\ Dated(rd) /\ Minted(k, rd)
  BY <1>1, <1>2 DEF StateHolds, StateTypes
<1>4. PICK new : new = [Idle EXCEPT !.doing = IF button = "Import & sign" THEN "import" ELSE "connected",
                                    !.read = rd, !.key = k]
  OBVIOUS
<1>5. Idle \in CallTypes
  BY UnreadIsARead DEF Idle, CallTypes
<1>6. new \in CallTypes /\ new.doing \in {"import", "connected"} /\ new.read = rd /\ new.key = k
  BY <1>3, <1>4, <1>5 DEF CallTypes
<1>7. task[t].doing = "nothing" /\ task' = [task EXCEPT ![t] = new]
  BY <1>2, <1>4, LaunchIsACall DEF ApproveWith
<1>8. OneCall(t)
  BY <1>6, <1>7 DEF OneCall, ApproveWith
<1>9. Dated(rd)' /\ Minted(k, rd)'
  BY <1>3, <1>8, OneCallKeeps, PageKeeps
<1>10. task'[t] = new
  BY <1>1, <1>7
<1>11. TaskHolds(t)'
  BY <1>3, <1>6, <1>9, <1>10 DEF TaskHolds
<1> QED
  BY <1>8, <1>11, OneCallKeeps, CallKeeps, PageTypes DEF ApproveWith, IRecovery, ButtonsMeetTheirStep

(* A call that ends where it began, the key it minted still in hand.       *)
LEMMA BackToItsReadHolds ==
  ASSUME IRecovery, NEW t \in Tasks, task[t].doing \in {"connected", "signing", "import"},
         OneCall(t), NEW step \in {"approving", "submitted"},
         Become(At(step, task[t].read, task[t].key))
  PROVE  StateHolds' /\ state' \in StateTypes /\ painted' \in Steps /\ ButtonsMeetTheirStep'
<1>1. task \in [Tasks -> CallTypes] /\ TaskHolds(t)
  BY PageTypes DEF IRecovery
<1>2. PICK rd, k : rd = task[t].read /\ k = task[t].key
  OBVIOUS
<1>3. rd \in Reads /\ k \in Tasks /\ rd.wallet \in Wallets /\ Dated(rd) /\ Minted(k, rd)
  BY <1>1, <1>2 DEF TaskHolds, AtWork, CallTypes, Minted
<1>4. Dated(rd)' /\ Minted(k, rd)'
  BY <1>3, OneCallKeeps, PageKeeps
<1>5. At(step, rd, k) \in StateTypes /\ Become(At(step, rd, k))
  BY <1>2, <1>3 DEF At, StateTypes, Steps
<1>6. StateHolds'
  BY <1>3, <1>4, <1>5 DEF Become, At, StateHolds
<1> QED
  BY <1>5, <1>6, BecomeIsPainted

LEMMA ConnectGuardianWalletKeeps ==
  ASSUME IRecovery, NEW t \in Tasks, NEW p \in People, ConnectGuardianWallet(t, p)
  PROVE  IRecovery'
<1>1. task \in [Tasks -> CallTypes] /\ TaskHolds(t) /\ task[t].doing = "connected"
  BY PageTypes DEF IRecovery, ConnectGuardianWallet
<1>2. CASE p \in task[t].read.guardians
  <2>1. PICK rd, k : rd = task[t].read /\ k = task[t].key
    OBVIOUS
  <2>2. rd.wallet \in Wallets /\ Dated(rd) /\ Minted(k, rd)
    BY <1>1, <2>1 DEF TaskHolds, AtWork
  <2>3. PICK new : new = [task[t] EXCEPT !.doing = "signing", !.by = p]
    OBVIOUS
  <2>4. new \in CallTypes /\ new.doing = "signing" /\ new.read = rd /\ new.key = k
    BY <1>1, <2>1, <2>3 DEF CallTypes
  <2>5. task' = [task EXCEPT ![t] = new]
    BY <1>1, <1>2, <2>3 DEF ConnectGuardianWallet, CallTypes
  <2>6. OneCall(t)
    BY <1>1, <2>4, <2>5 DEF OneCall, ConnectGuardianWallet
  <2>7. Dated(rd)' /\ Minted(k, rd)'
    BY <2>2, <2>6, OneCallKeeps, PageKeeps
  <2>8. task'[t] = new
    BY <1>1, <2>5
  <2>9. TaskHolds(t)'
    BY <2>2, <2>4, <2>7, <2>8 DEF TaskHolds
  <2> QED
    BY <1>2, <2>6, <2>9, OneCallKeeps, CallKeeps, PageTypes
       DEF ConnectGuardianWallet, IRecovery, ButtonsMeetTheirStep
<1>3. CASE p \notin task[t].read.guardians
  <2>1. OneCall(t) /\ TaskHolds(t)'
    BY <1>1, <1>3, EndIsOneCall DEF ConnectGuardianWallet
  <2>2. Become(At("approving", task[t].read, task[t].key)) /\ UNCHANGED approvals
    BY <1>3 DEF ConnectGuardianWallet, Refuse
  <2> QED
    BY <1>1, <2>1, <2>2, BackToItsReadHolds, CallKeeps
<1> QED
  BY <1>2, <1>3

LEMMA RefusalKeeps ==
  ASSUME IRecovery, NEW t \in Tasks, ApproveAsConnectedGuardian(t) \/ ApprovalFails(t)
  PROVE  IRecovery'
<1>1. task[t].doing \in {"connected", "signing", "import"} /\ Ends(t) /\ UNCHANGED <<contract, approvals>>
      /\ Become(At("approving", task[t].read, task[t].key))
  BY DEF ApproveAsConnectedGuardian, ApprovalFails, Refuse
<1>2. OneCall(t) /\ TaskHolds(t)'
  BY <1>1, EndIsOneCall
<1> QED
  BY <1>1, <1>2, BackToItsReadHolds, CallKeeps

(* An approval is for the wallet, the round and the key it was made from.  *)
LEMMA ApproveWithImportedKeyKeeps ==
  ASSUME IRecovery, NEW t \in Tasks, NEW p \in People, ApproveWithImportedKey(t, p)
  PROVE  IRecovery'
<1>1. task \in [Tasks -> CallTypes] /\ TaskHolds(t) /\ task[t].doing = "import"
  BY PageTypes DEF IRecovery, ApproveWithImportedKey
<1>2. PICK rd, k : rd = task[t].read /\ k = task[t].key
  OBVIOUS
<1>3. rd \in Reads /\ k \in Tasks /\ rd.wallet \in Wallets /\ Minted(k, rd)
  BY <1>1, <1>2 DEF TaskHolds, AtWork, CallTypes, Minted
<1>4. NonceFor(rd.pending) \in 0 .. MaxRounds
  BY <1>3, RecoveryScreenAssumption DEF NonceFor, Reads, Pendings
<1>5. OneCall(t) /\ TaskHolds(t)'
  BY <1>1, EndIsOneCall DEF ApproveWithImportedKey
<1>6. StateHolds' /\ state' \in StateTypes /\ painted' \in Steps /\ ButtonsMeetTheirStep'
  BY <1>1, <1>5, BackToItsReadHolds DEF ApproveWithImportedKey
<1>7. PICK a : a = Approval(rd, k, p)
  OBVIOUS
<1>8. approvals' = approvals \cup {a} /\ contract' = contract
  BY <1>2, <1>7 DEF ApproveWithImportedKey
<1>9. a \in [wallet : Wallets, promoteKey : Tasks, nonce : 0 .. MaxRounds, guardian : People, read : Reads]
  BY <1>3, <1>4, <1>7 DEF Approval
<1>10. Minted(k, rd)'
  BY <1>3, <1>5, OneCallKeeps, PageKeeps
<1>11. ApprovalHolds(a)'
  BY <1>7, <1>10 DEF ApprovalHolds, Approval
<1>12. RecoveryTypeOK'
  BY <1>5, <1>6, <1>8, <1>9, OneCallKeeps DEF IRecovery, RecoveryTypeOK, StateTypes, CallTypes
<1> QED
  BY <1>5, <1>6, <1>8, <1>11, <1>12, OneCallKeeps DEF IRecovery

LEMMA ReopenKeeps ==
  ASSUME IRecovery, Reopen
  PROVE  IRecovery'
<1>1. task \in [Tasks -> CallTypes]
  BY PageTypes DEF IRecovery
<1>2. ASSUME NEW u \in Tasks
      PROVE  /\ task'[u] \in CallTypes /\ task'[u].read \in {task[u].read, Unread}
             /\ task'[u].doing \in {"nothing", "over"}
             /\ task[u].doing = "over" => task'[u] = task[u]
  BY <1>1, ReturnedIsOver DEF Reopen
<1>3. PageStays /\ task' \in [Tasks -> CallTypes]
  BY <1>2 DEF PageStays, Reopen
<1>4. ASSUME NEW u \in Tasks
      PROVE  TaskHolds(u)'
  <2>1. PICK rd : rd = task[u].read
    OBVIOUS
  <2>2. Dated(rd)' /\ Dated(Unread)'
    BY <1>3, <2>1, UnreadKeeps, PageKeeps DEF IRecovery, TaskHolds
  <2> QED
    BY <1>2, <2>1, <2>2 DEF TaskHolds, AtWork
<1>5. ASSUME NEW a \in approvals
      PROVE  ApprovalHolds(a)'
  BY <1>3, PageKeeps DEF IRecovery, ApprovalHolds
<1>6. \A w \in Wallets : BallotHolds(w)'
  BY <1>3, PageKeeps DEF IRecovery
<1>7. Dated(Unread)'
  BY <1>3, UnreadKeeps, PageKeeps
<1>8. Become(At("enter", Unread, NoKey)) /\ At("enter", Unread, NoKey) \in StateTypes
  BY UnreadIsARead DEF Reopen, At, StateTypes, Steps
<1>9. StateHolds'
  BY <1>7, <1>8 DEF Become, At, StateHolds
<1>10. state' \in StateTypes /\ painted' \in Steps /\ ButtonsMeetTheirStep'
  BY <1>8, BecomeIsPainted
<1>11. RecoveryTypeOK'
  BY <1>3, <1>10, PageTypes DEF Reopen, IRecovery, RecoveryTypeOK, StateTypes, CallTypes
<1> QED
  BY <1>4, <1>5, <1>6, <1>9, <1>10, <1>11 DEF Reopen, IRecovery

(* A step of a wallet leaves the page alone.                               *)
BallotTypes == [guardians : SUBSET People, round : 0 .. MaxRounds, candidate : PromoteKeys, votes : SUBSET People]

LEMMA ChangeKeeps ==
  ASSUME IRecovery, NEW w \in Wallets, NEW new \in BallotTypes, Change(w, new),
         BallotHolds(w)', \A rd \in Reads : Dated(rd) => Dated(rd)'
  PROVE  IRecovery'
<1>1. contract \in [Wallets -> BallotTypes]
  BY PageTypes DEF IRecovery, BallotTypes
<1>2. contract' = [contract EXCEPT ![w] = new] /\ UNCHANGED <<state, painted, task, approvals>>
  BY DEF Change
<1>3. RecoveryTypeOK' /\ ButtonsMeetTheirStep'
  BY <1>1, <1>2 DEF IRecovery, RecoveryTypeOK, ButtonsMeetTheirStep, BallotTypes
<1>4. ASSUME NEW t \in Tasks
      PROVE  TaskHolds(t)'
  <2>1. PICK rd, k : rd = task[t].read /\ k = task[t].key
    OBVIOUS
  <2>2. Dated(rd)' /\ (Minted(k, rd) <=> Minted(k, rd)')
    BY <1>2, <2>1, PageTypes DEF IRecovery, TaskHolds, Minted, CallTypes
  <2> QED
    BY <1>2, <2>1, <2>2 DEF IRecovery, TaskHolds
<1>5. StateHolds'
  <2>1. PICK s : s = state
    OBVIOUS
  <2>2. Dated(s.read)' /\ (Minted(s.key, s.read) <=> Minted(s.key, s.read)')
    BY <1>2, <2>1, PageTypes DEF IRecovery, StateHolds, Minted, StateTypes
  <2> QED
    BY <1>2, <2>1, <2>2 DEF IRecovery, StateHolds
<1>6. \A a \in approvals' : ApprovalHolds(a)'
  BY <1>2 DEF IRecovery, ApprovalHolds, Minted
<1>7. ASSUME NEW u \in Wallets
      PROVE  BallotHolds(u)'
  <2>1. CASE u # w
    <3>1. contract'[u] = contract[u]
      BY <1>1, <1>2, <2>1
    <3> QED
      BY <1>2, <3>1 DEF IRecovery, BallotHolds
  <2> QED
    BY <2>1
<1> QED
  BY <1>3, <1>4, <1>5, <1>6, <1>7 DEF IRecovery

(* A change that does not end the round.                                   *)
LEMMA SameRoundKeeps ==
  ASSUME IRecovery, NEW w \in Wallets, NEW new \in BallotTypes, Change(w, new),
         new.round = contract[w].round, new.candidate = NoKey => new.votes = {}
  PROVE  IRecovery'
<1>1. contract \in [Wallets -> BallotTypes]
  BY PageTypes DEF IRecovery, BallotTypes
<1>2. contract'[w] = new /\ \A u \in Wallets \ {w} : contract'[u] = contract[u]
  BY <1>1 DEF Change
<1>3. BallotHolds(w)'
  BY <1>2 DEF BallotHolds
<1>4. ASSUME NEW rd, Dated(rd)
      PROVE  Dated(rd)'
  <2>1. rd.wallet \in Wallets => contract'[rd.wallet].round = contract[rd.wallet].round
    BY <1>2
  <2> QED
    BY <1>4, <2>1 DEF Dated
<1> QED
  BY <1>3, <1>4, ChangeKeeps

LEMMA VoteKeeps ==
  ASSUME IRecovery, NEW w \in Wallets, NEW g \in People, NEW k \in Tasks \cup {OtherKey},
         Change(w, [contract[w] EXCEPT !.candidate = k, !.votes = @ \cup {g}])
  PROVE  IRecovery'
<1>1. contract \in [Wallets -> BallotTypes] /\ k # NoKey
  BY PageTypes, RecoveryScreenAssumption DEF IRecovery, BallotTypes, NoKey
<1>2. PICK new : new = [contract[w] EXCEPT !.candidate = k, !.votes = @ \cup {g}]
  OBVIOUS
<1>3. new \in BallotTypes /\ new.candidate = k /\ new.round = contract[w].round
  BY <1>1, <1>2 DEF BallotTypes, PromoteKeys
<1> QED
  BY <1>1, <1>2, <1>3, SameRoundKeeps

LEMMA ApproveRecoveryBySigKeeps ==
  ASSUME IRecovery, NEW w \in Wallets, NEW a \in approvals, ApproveRecoveryBySig(w, a)
  PROVE  IRecovery'
<1>1. a.promoteKey \in Tasks /\ a.guardian \in People
  BY PageTypes DEF IRecovery
<1> QED
  BY <1>1, VoteKeeps DEF ApproveRecoveryBySig

LEMMA ApproveRecoveryKeeps ==
  ASSUME IRecovery, NEW w \in Wallets, NEW g \in People, NEW k \in Known, ApproveRecovery(w, g, k)
  PROVE  IRecovery'
<1>1. k \in Tasks \cup {OtherKey}
  BY PageTypes DEF IRecovery, Known, StateTypes
<1> QED
  BY <1>1, VoteKeeps DEF ApproveRecovery

LEMMA EndRoundKeeps ==
  ASSUME IRecovery, NEW w \in Wallets, EndRound(w)
  PROVE  IRecovery'
<1>1. contract \in [Wallets -> BallotTypes]
  BY PageTypes DEF IRecovery, BallotTypes
<1>2. PICK n, m : n = contract[w].round /\ m = n + 1
  OBVIOUS
<1>3. n \in Nat /\ n < MaxRounds /\ m \in 0 .. MaxRounds /\ NoKey \in PromoteKeys
  BY <1>1, <1>2, RecoveryScreenAssumption DEF EndRound, BallotTypes, PromoteKeys
<1>4. PICK new : new = [contract[w] EXCEPT !.candidate = NoKey, !.votes = {}, !.round = @ + 1]
  OBVIOUS
<1>5. new \in BallotTypes /\ new.candidate = NoKey /\ new.round = m /\ new.votes = {}
  <2>1. PICK old \in BallotTypes : old = contract[w]
    BY <1>1
  <2>2. new = [old EXCEPT !.candidate = NoKey, !.votes = {}, !.round = m]
    BY <1>2, <1>4, <2>1 DEF BallotTypes
  <2> QED
    BY <1>3, <2>2 DEF BallotTypes
<1>6. Change(w, new)
  BY <1>4 DEF EndRound
<1>7. contract'[w] = new /\ \A u \in Wallets \ {w} : contract'[u] = contract[u]
  BY <1>1, <1>6 DEF Change
<1>8. BallotHolds(w)'
  BY <1>5, <1>7 DEF BallotHolds
<1>9. ASSUME NEW rd \in Reads, Dated(rd)
      PROVE  Dated(rd)'
  <2>1. rd.round \in Nat
    BY RecoveryScreenAssumption DEF Reads
  <2>2. rd.wallet \in Wallets => rd.round <= contract'[rd.wallet].round
    BY <1>2, <1>3, <1>5, <1>7, <1>9, <2>1 DEF Dated
  <2> QED
    BY <1>9, <2>2 DEF Dated
<1> QED
  BY <1>5, <1>6, <1>8, <1>9, ChangeKeeps

LEMMA GuardiansKeep ==
  ASSUME IRecovery, NEW w \in Wallets, NEW g \in People, AddGuardian(w, g) \/ RemoveGuardian(w, g)
  PROVE  IRecovery'
<1>1. contract \in [Wallets -> BallotTypes] /\ BallotHolds(w)
  BY PageTypes DEF IRecovery, BallotTypes
<1>2. PICK old : old = contract[w]
  OBVIOUS
<1>3. CASE AddGuardian(w, g)
  <2>1. PICK new : new = [old EXCEPT !.guardians = @ \cup {g}]
    OBVIOUS
  <2>2. /\ new \in BallotTypes /\ new.candidate = old.candidate /\ new.round = old.round
        /\ new.votes = old.votes
    BY <1>1, <1>2, <2>1 DEF BallotTypes
  <2>3. Change(w, new)
    BY <1>2, <1>3, <2>1 DEF AddGuardian
  <2> QED
    BY <1>1, <1>2, <2>2, <2>3, SameRoundKeeps DEF BallotHolds
<1>4. CASE RemoveGuardian(w, g)
  <2>1. PICK new : new = [old EXCEPT !.guardians = @ \ {g}, !.votes = @ \ {g}]
    OBVIOUS
  <2>2. /\ new \in BallotTypes /\ new.candidate = old.candidate /\ new.round = old.round
        /\ new.votes = old.votes \ {g}
    BY <1>1, <1>2, <2>1 DEF BallotTypes
  <2>3. Change(w, new)
    BY <1>2, <1>4, <2>1 DEF RemoveGuardian
  <2> QED
    BY <1>1, <1>2, <2>2, <2>3, SameRoundKeeps DEF BallotHolds
<1> QED
  BY <1>3, <1>4

LEMMA RecoveryStep == IRecovery /\ [Next]_vars => IRecovery'
<1> SUFFICES ASSUME IRecovery, [Next]_vars PROVE IRecovery'
  OBVIOUS
<1>1. ASSUME NEW t \in Tasks, PageStep(t)
      PROVE  IRecovery'
  BY <1>1, EnterWalletKeeps, GetGuardianConfigKeeps, GetPendingRecoveryKeeps, EnterFailsKeeps,
     BeginApprovalKeeps, MintPromoteKeyKeeps, MintFailsKeeps, ApproveWithKeeps,
     ConnectGuardianWalletKeeps, ApproveWithImportedKeyKeeps, RefusalKeeps DEF PageStep
<1>2. ASSUME NEW w \in Wallets, LiveOn(w) \/ ExecuteRecovery(w)
      PROVE  IRecovery'
  BY <1>2, ApproveRecoveryBySigKeeps, ApproveRecoveryKeeps, EndRoundKeeps, GuardiansKeep
     DEF LiveOn, VetoRecovery, ExecuteRecovery
<1>3. CASE UNCHANGED vars
  BY <1>3 DEF vars, IRecovery, RecoveryTypeOK, ButtonsMeetTheirStep, TaskHolds, StateHolds,
     ApprovalHolds, BallotHolds, Dated, Minted
<1> QED
  BY <1>1, <1>2, <1>3, ReopenKeeps DEF Next

(* What the screen must get right follows.                                 *)
LEMMA RecoveryFollows == IRecovery => RecoveryInv
<1> SUFFICES ASSUME IRecovery PROVE RecoveryInv
  OBVIOUS
<1>1. ASSUME NEW a \in approvals
      PROVE  /\ a.wallet \in Wallets /\ a.read.wallet = a.wallet /\ a.read \in Reads
             /\ task[a.promoteKey].read = a.read /\ Dated(a.read)
             /\ a.nonce = NonceFor(a.read.pending)
  BY PageTypes DEF IRecovery, ApprovalHolds, Minted, TaskHolds
<1>2. KeyIsMintedForTheRead
  BY <1>1 DEF KeyIsMintedForTheRead, IRecovery, StateHolds, Minted
<1>3. NonceIsOfTheRead
  <2> SUFFICES ASSUME NEW a \in approvals
               PROVE  /\ a.nonce <= a.read.round /\ a.read.round <= contract[a.wallet].round
                      /\ a.read.round = 0 \/ a.read.pending # NoPending => a.nonce = a.read.round
    BY DEF NonceIsOfTheRead
  <2>1. a.read.round \in Nat /\ a.read.round <= contract[a.wallet].round
    BY <1>1, RecoveryScreenAssumption DEF Dated, Reads
  <2>2. IF a.read.pending = NoPending THEN a.nonce = 0 ELSE a.nonce = a.read.round
    BY <1>1 DEF Dated, NonceFor
  <2> QED
    BY <2>1, <2>2
<1>4. FirstApprovalIsAccepted
  <2> SUFFICES ASSUME NEW a \in approvals, contract[a.wallet].round = 0,
                      contract[a.wallet].votes = {},
                      a.guardian \in contract[a.wallet].guardians
               PROVE  Accepts(a.wallet, a)
    BY DEF FirstApprovalIsAccepted
  <2>1. a.read.round \in Nat /\ a.read.round <= 0
    BY <1>1, RecoveryScreenAssumption DEF Dated, Reads
  <2>2. a.nonce = 0
    BY <1>3, <2>1 DEF NonceIsOfTheRead
  <2> QED
    BY <2>2 DEF Accepts
<1> QED
  BY <1>2, <1>3, <1>4 DEF RecoveryInv, IRecovery

LEMMA PagesAreOfTheScreen == PagesNext => [Next]_vars
BY DEF PagesNext, RecoverAndRegister, Next

(* Every approval signed on the recovery screen promotes the key that was  *)
(* minted for the wallet, the roster and the pending recovery it is about; *)
(* its nonce is that of the round that was read, if a recovery was pending *)
(* or none had ended, and never of a later one; the first approval of a    *)
(* wallet is accepted, and every button meets its step: whatever calls of  *)
(* the page overlap, whoever else approves and whatever the wallets go     *)
(* through (ceremony.ts:59-73, vault/recover/approve.ts,                   *)
(* evm/guardian-reads.ts:25, GuardianLogic.sol).                           *)
THEOREM RecoveryIsSafe == PagesSpec => []RecoveryInv
<1>1. PagesInit => IRecovery
  BY RecoveryInit DEF PagesInit
<1>2. IRecovery /\ [PagesNext /\ Cardinality(Made') <= MaxCalls]_pagesVars => IRecovery'
  BY RecoveryStep, PagesAreOfTheScreen DEF pagesVars
<1> QED
  BY <1>1, <1>2, RecoveryFollows, PTL DEF PagesSpec

-----------------------------------------------------------------------------
(* The devices page, step by step.                                         *)

CallForms == [kind : {"none", "register", "revoke"}, to : Accounts \cup {NoAccount},
              key : AllKeys \cup {NoCall.key}, at : 0 .. MaxKeys]
ActTypes == [doing : {"nothing", "counting", "listing", "built", "over"}, read : Listings, call : CallForms]
KeyLists == {s \in Seq(AllKeys) : Len(s) <= MaxKeys /\ IsInjective(s)}

LEMMA RosterTypes ==
  RosterTypeOK <=>
    /\ \A w \in Accounts : roster[w] \in KeyLists
    /\ account \in Accounts \cup {NoAccount} /\ devices \in Listings /\ pending \in BOOLEAN
    /\ act \in [Acts -> ActTypes]
BY DEF RosterTypeOK, KeyLists, ActTypes, CallForms

LEMMA KeysAreKeys ==
  ASSUME NEW s \in KeyLists
  PROVE  Range(s) \subseteq AllKeys /\ Len(s) \in 0 .. MaxKeys
BY DeviceRosterAssumption DEF KeyLists, Range

LEMMA WaitingIsAnAct ==
  /\ Unlisted \in Listings /\ Waiting \in ActTypes /\ Over \in ActTypes
  /\ Waiting.doing = "nothing" /\ Over.doing = "over"
  /\ Waiting.call = NoCall /\ Over.call = NoCall /\ NoCall.kind = "none"
  /\ Waiting.read = Unlisted
<1>1. Unlisted \in Listings
  BY DeviceRosterAssumption DEF Unlisted, Listings
<1>2. NoCall \in CallForms /\ NoCall.kind = "none"
  BY DeviceRosterAssumption DEF NoCall, Call, CallForms
<1>3. Waiting \in ActTypes /\ Waiting.doing = "nothing" /\ Waiting.call = NoCall /\ Waiting.read = Unlisted
  BY <1>1, <1>2 DEF Waiting, ActTypes
<1>4. Over \in ActTypes /\ Over.doing = "over" /\ Over.call = NoCall
  BY <1>3 DEF Over, ActTypes
<1> QED
  BY <1>1, <1>2, <1>3, <1>4

(* The last key takes the place of the one that leaves.                    *)
LEMMA SwapPopRemoves ==
  ASSUME NEW s \in KeyLists, NEW k \in Range(s)
  PROVE  /\ SwapPop(s, k) \in KeyLists /\ Len(SwapPop(s, k)) = Len(s) - 1
         /\ Range(SwapPop(s, k)) = Range(s) \ {k}
<1>1. PICK i \in DOMAIN s : s[i] = k /\ SwapPop(s, k) = Front([s EXCEPT ![i] = Last(s)])
  BY DEF SwapPop, Range
<1>2. PICK n : n = Len(s)
  OBVIOUS
<1>3. s \in Seq(AllKeys) /\ n \in Nat /\ n > 0 /\ n <= MaxKeys /\ DOMAIN s = 1 .. n
  BY <1>1, <1>2 DEF KeyLists
<1>4. PICK t : t = [j \in 1 .. n - 1 |-> IF j = i THEN s[n] ELSE s[j]]
  OBVIOUS
<1>5. SwapPop(s, k) = t
  <2>1. [s EXCEPT ![i] = Last(s)] \in Seq(AllKeys) /\ Len([s EXCEPT ![i] = Last(s)]) = n
        /\ \A j \in 1 .. n : [s EXCEPT ![i] = Last(s)][j] = IF j = i THEN s[n] ELSE s[j]
    BY <1>1, <1>2, <1>3 DEF Last
  <2>2. PICK u : u = [s EXCEPT ![i] = Last(s)]
    OBVIOUS
  <2>3. SwapPop(s, k) = SubSeq(u, 1, n - 1)
    BY <1>1, <2>1, <2>2 DEF Front
  <2>4. /\ u \in Seq(AllKeys) /\ Len(u) = n
        /\ \A j \in 1 .. n : u[j] = IF j = i THEN s[n] ELSE s[j]
    BY <2>1, <2>2
  <2>5. SubSeq(u, 1, n - 1) = [j \in 1 .. n - 1 |-> u[j]]
    BY <1>3, <2>4
  <2> QED
    BY <1>3, <1>4, <2>3, <2>4, <2>5
<1>6. t \in Seq(AllKeys) /\ Len(t) = n - 1 /\ DOMAIN t = 1 .. n - 1
  <2>1. \A j \in 1 .. n - 1 : t[j] \in AllKeys
    BY <1>1, <1>3, <1>4
  <2>2. DOMAIN t = 1 .. n - 1 /\ n - 1 \in Nat
    BY <1>3, <1>4
  <2>3. t = [j \in 1 .. n - 1 |-> t[j]]
    BY <1>4
  <2> QED
    BY <2>1, <2>2, <2>3
<1>7. \A a, b \in DOMAIN s : s[a] = s[b] => a = b
  BY DEF KeyLists, IsInjective
<1>8. IsInjective(t)
  BY <1>1, <1>3, <1>4, <1>6, <1>7 DEF IsInjective
<1>9. Range(t) = Range(s) \ {k}
  <2>1. ASSUME NEW x \in Range(t)
        PROVE  x \in Range(s) \ {k}
    BY <1>1, <1>3, <1>4, <1>6, <1>7, <2>1 DEF Range
  <2>2. ASSUME NEW x \in Range(s) \ {k}
        PROVE  x \in Range(t)
    <3>1. PICK j \in 1 .. n : s[j] = x
      BY <1>3, <2>2 DEF Range
    <3>2. j # i
      BY <1>1, <2>2, <3>1
    <3>3. CASE j = n
      <4>1. i \in 1 .. n - 1 /\ t[i] = x
        BY <1>1, <1>3, <1>4, <3>1, <3>2, <3>3
      <4> QED
        BY <1>6, <4>1 DEF Range
    <3>4. CASE j # n
      <4>1. j \in 1 .. n - 1 /\ t[j] = x
        BY <1>3, <1>4, <3>1, <3>2, <3>4
      <4> QED
        BY <1>6, <4>1 DEF Range
    <3> QED
      BY <3>3, <3>4
  <2> QED
    BY <2>1, <2>2
<1>10. t \in KeyLists
  <2>1. n - 1 <= MaxKeys
    BY <1>3, DeviceRosterAssumption
  <2> QED
    BY <1>6, <1>8, <2>1 DEF KeyLists
<1> QED
  BY <1>2, <1>5, <1>6, <1>9, <1>10

LEMMA AppendAdds ==
  ASSUME NEW s \in KeyLists, NEW k \in AllKeys, k \notin Range(s), Len(s) < MaxKeys
  PROVE  /\ Append(s, k) \in KeyLists /\ Len(Append(s, k)) = Len(s) + 1
         /\ Range(Append(s, k)) = Range(s) \cup {k}
         /\ \A i \in DOMAIN s : Append(s, k)[i] = s[i]
<1>1. PICK n, t : n = Len(s) /\ t = Append(s, k)
  OBVIOUS
<1>2. s \in Seq(AllKeys) /\ n \in Nat /\ n < MaxKeys /\ DOMAIN s = 1 .. n
  BY <1>1 DEF KeyLists
<1>3. /\ t \in Seq(AllKeys) /\ Len(t) = n + 1 /\ DOMAIN t = 1 .. n + 1
      /\ t[n + 1] = k /\ \A i \in 1 .. n : t[i] = s[i]
  BY <1>1, <1>2
<1>4. (\A a, b \in DOMAIN s : s[a] = s[b] => a = b) /\ \A i \in 1 .. n : s[i] # k
  BY <1>2 DEF KeyLists, IsInjective, Range
<1>5. IsInjective(t)
  BY <1>2, <1>3, <1>4 DEF IsInjective
<1>6. Range(t) = Range(s) \cup {k}
  <2>1. 1 .. n + 1 = 1 .. n \cup {n + 1}
    BY <1>2
  <2> QED
    BY <1>2, <1>3, <2>1 DEF Range
<1>7. MaxKeys \in Nat
  BY DeviceRosterAssumption
<1>8. t \in KeyLists
  <2>1. n + 1 <= MaxKeys
    BY <1>2, <1>7
  <2> QED
    BY <1>3, <1>5, <2>1 DEF KeyLists
<1> QED
  BY <1>1, <1>2, <1>3, <1>6, <1>8

-----------------------------------------------------------------------------
(* A step of one act of the page, the rosters as they were.                *)

(* Owners of recovered keys leave with their keys, and only so.            *)
Forgets == /\ recovered' \in [Wallets -> SUBSET Owners]
           /\ \A w \in Wallets : recovered'[w] \subseteq recovered[w]

LEMMA ForgetsByDefinition ==
  ASSUME IRoster, recovered' = [w \in Wallets |-> {k \in recovered[w] : ~ Revokes(w, KeyHash(k))}]
  PROVE  Forgets
BY DEF IRoster, Forgets

LEMMA ActHoldsStays ==
  ASSUME NEW r, ActHolds(r), act'[r] = act[r],
         roster'[act[r].read.wallet] = roster[act[r].read.wallet]
  PROVE  ActHolds(r)'
BY DEF ActHolds, Listing, ReadsInOrder, ReadItAll, WillFail, Keys

LEMMA StepKeeps ==
  ASSUME IRoster, Forgets, UNCHANGED roster,
         NEW r \in Acts, NEW new \in ActTypes, Step(r, new), ActHolds(r)',
         account' \in Accounts \cup {NoAccount}, pending' \in BOOLEAN,
         devices' \in Listings, Len(devices'.list) <= MaxKeys, ListIsTrue'
  PROVE  IRoster'
<1>1. act \in [Acts -> ActTypes] /\ act' = [act EXCEPT ![r] = new]
  BY RosterTypes DEF IRoster, RosterInv, Step
<1>2. act' \in [Acts -> ActTypes] /\ act'[r] = new /\ \A q \in Acts \ {r} : act'[q] = act[q]
  BY <1>1
<1>3. RosterTypeOK'
  BY <1>2, RosterTypes DEF IRoster, RosterInv, RosterTypeOK, ActTypes, CallForms, KeyLists
<1>4. \A q \in Acts : ActHolds(q)'
  BY <1>2, ActHoldsStays DEF IRoster
<1>5. RecoveredKeysSign'
  BY DEF IRoster, RosterInv, RecoveredKeysSign, Forgets, Keys
<1> QED
  BY <1>3, <1>4, <1>5 DEF IRoster, RosterInv, Forgets

(* Most steps leave the list alone too.                                    *)
LEMMA QuietStepKeeps ==
  ASSUME IRoster, Forgets, UNCHANGED <<roster, account, devices>>, pending' \in BOOLEAN,
         NEW r \in Acts, NEW new \in ActTypes, Step(r, new), ActHolds(r)'
  PROVE  IRoster'
<1>1. ListIsTrue'
  BY DEF IRoster, RosterInv, ListIsTrue
<1> QED
  BY <1>1, RosterTypes, StepKeeps DEF IRoster, RosterInv

LEMMA OverHolds ==
  ASSUME NEW r \in Acts, act'[r] = Over
  PROVE  ActHolds(r)'
BY WaitingIsAnAct DEF ActHolds

LEMMA SettleKeeps ==
  ASSUME IRoster, Forgets, NEW r \in Acts, Step(r, Over), pending' \in BOOLEAN,
         UNCHANGED <<roster, account, devices>>
  PROVE  IRoster'
<1>1. act'[r] = Over
  BY RosterTypes DEF IRoster, RosterInv, Step
<1> QED
  BY <1>1, OverHolds, WaitingIsAnAct, QuietStepKeeps

LEMMA RefreshKeeps ==
  ASSUME IRoster, Forgets, NEW r \in Acts, Refresh(r)
  PROVE  IRoster'
<1>1. act \in [Acts -> ActTypes] /\ UNCHANGED <<roster, account, devices>>
  BY RosterTypes DEF IRoster, RosterInv, Refresh
<1>2. CASE account = NoAccount
  BY <1>1, <1>2, SettleKeeps DEF Refresh
<1>3. CASE account # NoAccount
  <2>1. account \in Accounts /\ roster[account] \in KeyLists
    BY <1>3, RosterTypes DEF IRoster, RosterInv
  <2>2. PICK K : K = Keys(account)
    OBVIOUS
  <2>3. K \subseteq AllKeys
    BY <2>1, <2>2, KeysAreKeys DEF Keys
  <2>4. PICK read : read = [Unlisted EXCEPT !.wallet = account, !.stayed = K, !.seen = K]
    OBVIOUS
  <2>5. /\ read \in Listings /\ read.wallet = account /\ read.stayed = K /\ read.seen = K
        /\ read.list = <<>>
    BY <2>1, <2>3, <2>4, WaitingIsAnAct DEF Unlisted, Listings
  <2>6. PICK new : new = [Waiting EXCEPT !.doing = "counting", !.read = read]
    OBVIOUS
  <2>7. new \in ActTypes /\ new.doing = "counting" /\ new.read = read /\ new.call = NoCall
    BY <2>5, <2>6, WaitingIsAnAct DEF ActTypes
  <2>8. pending' = TRUE /\ Step(r, new)
    BY <1>3, <2>2, <2>4, <2>6 DEF Refresh
  <2>9. act'[r] = new
    BY <1>1, <2>8 DEF Step
  <2>10. ActHolds(r)'
    BY <1>1, <2>1, <2>2, <2>5, <2>7, <2>9 DEF ActHolds, Keys
  <2> QED
    BY <1>1, <2>7, <2>8, <2>10, QuietStepKeeps
<1> QED
  BY <1>2, <1>3

LEMMA KeyCountKeeps ==
  ASSUME IRoster, Forgets, NEW r \in Acts, KeyCount(r)
  PROVE  IRoster'
<1>1. act \in [Acts -> ActTypes] /\ ActHolds(r) /\ act[r].doing = "counting"
      /\ UNCHANGED <<roster, account, devices, pending>>
  BY RosterTypes DEF IRoster, RosterInv, KeyCount, Is
<1>2. PICK old : old = act[r].read
  OBVIOUS
<1>3. /\ old \in Listings /\ old.wallet \in Accounts /\ old.list = <<>>
      /\ old.stayed \subseteq Keys(old.wallet) /\ Keys(old.wallet) \subseteq old.seen
  BY <1>1, <1>2 DEF ActHolds, ActTypes
<1>4. roster[old.wallet] \in KeyLists
  BY <1>3, RosterTypes DEF IRoster, RosterInv
<1>5. PICK n : n = Len(roster[old.wallet])
  OBVIOUS
<1>6. n \in 0 .. MaxKeys
  BY <1>4, <1>5, KeysAreKeys
<1>7. PICK read : read = [old EXCEPT !.count = n]
  OBVIOUS
<1>8. /\ read \in Listings /\ read.wallet = old.wallet /\ read.count = n /\ read.list = <<>>
      /\ read.stayed = old.stayed /\ read.seen = old.seen
  BY <1>3, <1>6, <1>7 DEF Listings
<1>9. PICK new : new = [act[r] EXCEPT !.doing = "listing", !.read = read]
  OBVIOUS
<1>10. new \in ActTypes /\ new.doing = "listing" /\ new.read = read /\ new.call = act[r].call
  BY <1>1, <1>8, <1>9 DEF ActTypes
<1>11. Step(r, new)
  BY <1>1, <1>2, <1>5, <1>7, <1>9 DEF KeyCount, ActTypes
<1>12. act'[r] = new
  BY <1>1, <1>11 DEF Step
<1>13. ReadsInOrder(read)
  <2>1. DOMAIN roster[old.wallet] = 1 .. n
    BY <1>4, <1>5 DEF KeyLists
  <2> QED
    BY <1>3, <1>5, <1>6, <1>8, <2>1 DEF ReadsInOrder, Keys, Range
<1>14. Listing(read)
  BY <1>6, <1>8, <1>13 DEF Listing, Range
<1>15. ActHolds(r)'
  <2>1. Listing(read)'
    BY <1>1, <1>14 DEF Listing, ReadsInOrder, ReadItAll, WillFail
  <2>2. /\ read.wallet \in Accounts
        /\ read.stayed \subseteq Keys(read.wallet)' /\ Keys(read.wallet)' \subseteq read.seen
    BY <1>1, <1>3, <1>8 DEF Keys
  <2> QED
    BY <1>10, <1>12, <2>1, <2>2 DEF ActHolds, Keys
<1>16. pending' \in BOOLEAN
  BY <1>1 DEF IRoster, RosterInv, RosterTypeOK
<1> QED
  BY <1>1, <1>10, <1>11, <1>15, <1>16, QuietStepKeeps

(* What a listing has read so far, and one more key.                       *)
LEMMA KeyAtKeeps ==
  ASSUME IRoster, Forgets, NEW r \in Acts, KeyAt(r)
  PROVE  IRoster'
<1>1. act \in [Acts -> ActTypes] /\ ActHolds(r) /\ act[r].doing = "listing"
      /\ UNCHANGED <<roster, account, devices>>
  BY RosterTypes DEF IRoster, RosterInv, KeyAt, Is
<1>2. PICK old : old = act[r].read
  OBVIOUS
<1>3. /\ old \in Listings /\ old.wallet \in Accounts /\ Listing(old)
      /\ old.stayed \subseteq Keys(old.wallet) /\ Keys(old.wallet) \subseteq old.seen
  BY <1>1, <1>2 DEF ActHolds, ActTypes
<1>4. PICK keys \in KeyLists : keys = roster[old.wallet]
  BY <1>3, RosterTypes DEF IRoster, RosterInv
<1>5. PICK list, i : list = old.list /\ i = Len(list) + 1
  OBVIOUS
<1>6. list \in Seq(AllKeys) /\ Len(list) \in Nat /\ i \in Nat /\ i <= old.count /\ old.count \in Nat
  BY <1>1, <1>2, <1>3, <1>5, DeviceRosterAssumption DEF KeyAt, CountOf, Listings
<1>7. CASE i \notin DOMAIN keys
  <2>1. Settle(r)
    BY <1>2, <1>4, <1>5, <1>7 DEF KeyAt
  <2> QED
    BY <1>1, <2>1, SettleKeeps DEF Settle
<1>8. CASE i \in DOMAIN keys
  <2>1. keys[i] \in AllKeys /\ i <= Len(keys) /\ keys[i] \in Keys(old.wallet) /\ Len(keys) \in Nat
    BY <1>4, <1>8 DEF KeyLists, Keys, Range
  <2>2. PICK longer : longer = Append(list, keys[i])
    OBVIOUS
  <2>3. /\ longer \in Seq(AllKeys) /\ Len(longer) = i /\ longer[i] = keys[i]
        /\ DOMAIN longer = 1 .. i /\ DOMAIN list = 1 .. i - 1 /\ \A j \in 1 .. i - 1 : longer[j] = list[j]
    BY <1>5, <1>6, <2>1, <2>2
  <2>4. PICK read : read = [old EXCEPT !.list = longer]
    OBVIOUS
  <2>5. /\ read \in Listings /\ read.wallet = old.wallet /\ read.count = old.count
        /\ read.list = longer /\ read.stayed = old.stayed /\ read.seen = old.seen
        /\ read.changes = old.changes
    BY <1>3, <2>3, <2>4 DEF Listings
  <2>6. PICK new : new = [act[r] EXCEPT !.read = read]
    OBVIOUS
  <2>7. new \in ActTypes /\ new.doing = "listing" /\ new.read = read /\ new.call = act[r].call
    BY <1>1, <2>5, <2>6 DEF ActTypes
  <2>8. Step(r, new) /\ UNCHANGED pending
    BY <1>1, <1>2, <1>4, <1>5, <1>8, <2>2, <2>4, <2>6 DEF KeyAt, ActTypes, Listings
  <2>9. act'[r] = new
    BY <1>1, <2>8 DEF Step
  <2>10. Range(longer) \subseteq read.seen
    <3> SUFFICES ASSUME NEW j \in 1 .. i PROVE longer[j] \in read.seen
      BY <2>3 DEF Range
    <3>1. Range(list) \subseteq old.seen
      BY <1>3, <1>5 DEF Listing
    <3>2. CASE j = i
      BY <1>3, <2>1, <2>3, <2>5, <3>2
    <3>3. CASE j # i
      <4>1. j \in 1 .. i - 1
        BY <1>6, <3>3
      <4> QED
        BY <2>3, <2>5, <3>1, <4>1 DEF Range
    <3> QED
      BY <3>2, <3>3
  <2>11. ReadsInOrder(old) => ReadsInOrder(read)
    <3> SUFFICES ASSUME ReadsInOrder(old) PROVE ReadsInOrder(read)
      OBVIOUS
    <3>1. /\ old.changes = 0 => old.count = Len(keys)
          /\ old.count <= Len(keys)
          /\ \A j \in DOMAIN list : list[j] = keys[j]
          /\ old.stayed \subseteq {keys[j] : j \in 1 .. old.count}
      BY <1>4, <1>5 DEF ReadsInOrder
    <3>2. \A j \in DOMAIN longer : longer[j] = keys[j]
      <4> SUFFICES ASSUME NEW j \in 1 .. i PROVE longer[j] = keys[j]
        BY <2>3
      <4>1. j = i \/ j \in 1 .. i - 1
        BY <1>6
      <4> QED
        BY <2>3, <3>1, <4>1
    <3> QED
      BY <1>4, <2>5, <3>1, <3>2 DEF ReadsInOrder
  <2>12. ~ ReadItAll(old)
    BY <1>5, <1>6 DEF ReadItAll
  <2>13. WillFail(old) => WillFail(read)
    BY <1>4, <2>1, <2>3, <2>5 DEF WillFail
  <2>14. Listing(read)
    BY <1>3, <1>6, <2>3, <2>5, <2>10, <2>11, <2>12, <2>13 DEF Listing
  <2>15. Listing(read)'
    BY <1>1, <2>14 DEF Listing, ReadsInOrder, ReadItAll, WillFail
  <2>16. ActHolds(r)'
    BY <1>1, <1>3, <2>5, <2>7, <2>9, <2>15 DEF ActHolds, Keys
  <2>17. pending' \in BOOLEAN
    BY <2>7, <2>8 DEF IRoster, RosterInv, RosterTypeOK
  <2> QED
    BY <1>1, <2>7, <2>8, <2>16, <2>17, QuietStepKeeps
<1> QED
  BY <1>7, <1>8

(* A listing that is done is true.                                         *)
LEMMA ReadDeviceRosterKeeps ==
  ASSUME IRoster, Forgets, NEW r \in Acts, ReadDeviceRoster(r)
  PROVE  IRoster'
<1>1. act \in [Acts -> ActTypes] /\ ActHolds(r) /\ act[r].doing = "listing"
      /\ UNCHANGED <<roster, account>>
  BY RosterTypes DEF IRoster, RosterInv, ReadDeviceRoster, Is
<1>2. PICK read : read = act[r].read
  OBVIOUS
<1>3. read \in Listings /\ read.wallet \in Accounts /\ Listing(read)
  BY <1>1, <1>2 DEF ActHolds, ActTypes
<1>4. PICK keys \in KeyLists : keys = roster[read.wallet]
  BY <1>3, RosterTypes DEF IRoster, RosterInv
<1>5. PICK list, n : list = read.list /\ n = Len(list)
  OBVIOUS
<1>6. list \in Seq(AllKeys) /\ n = read.count /\ n \in 0 .. MaxKeys /\ DOMAIN list = 1 .. n
  BY <1>1, <1>2, <1>3, <1>5, DeviceRosterAssumption DEF ReadDeviceRoster, CountOf, Listings, Listing
<1>7. read.changes <= 1 => read.stayed \subseteq Range(list)
  <2>1. ~ WillFail(read)
    BY <1>4, <1>5, <1>6, KeysAreKeys DEF WillFail
  <2>2. ReadsInOrder(read) => read.stayed \subseteq Range(list)
    <3> SUFFICES ASSUME ReadsInOrder(read) PROVE read.stayed \subseteq Range(list)
      OBVIOUS
    <3>1. \A i \in 1 .. n : list[i] = keys[i]
      BY <1>4, <1>5, <1>6 DEF ReadsInOrder
    <3>2. read.stayed \subseteq {keys[i] : i \in 1 .. n}
      BY <1>4, <1>6 DEF ReadsInOrder
    <3> QED
      BY <1>6, <3>1, <3>2 DEF Range
  <2>3. ReadItAll(read) => read.stayed \subseteq Range(list)
    BY <1>5 DEF ReadItAll
  <2> QED
    BY <1>3, <2>1, <2>2, <2>3 DEF Listing
<1>8. PICK shown : shown = [read EXCEPT !.count = 0]
  OBVIOUS
<1>9. /\ shown \in Listings /\ shown.list = list /\ shown.stayed = read.stayed
      /\ shown.seen = read.seen /\ shown.changes = read.changes
  BY <1>3, <1>5, <1>8, DeviceRosterAssumption DEF Listings
<1>10. devices' = shown /\ pending' = FALSE /\ Step(r, Over)
  BY <1>2, <1>8 DEF ReadDeviceRoster, Settle
<1>11. ListIsTrue' /\ Len(devices'.list) <= MaxKeys /\ devices' \in Listings
  BY <1>3, <1>5, <1>6, <1>7, <1>9, <1>10, DeviceRosterAssumption DEF ListIsTrue, Listing
<1>12. act'[r] = Over
  BY <1>1, <1>10 DEF Step
<1>13. account' \in Accounts \cup {NoAccount}
  BY <1>1, RosterTypes DEF IRoster, RosterInv
<1> QED
  BY <1>1, <1>10, <1>11, <1>12, <1>13, OverHolds, WaitingIsAnAct, StepKeeps

LEMMA RefreshFailsKeeps ==
  ASSUME IRoster, Forgets, NEW r \in Acts, RefreshFails(r)
  PROVE  IRoster'
BY SettleKeeps DEF RefreshFails, Settle

LEMMA BuildKeeps ==
  ASSUME IRoster, Forgets, NEW r \in Acts, NEW call \in CallForms, Build(r, call),
         call.to \in Accounts, call.key \in AllKeys
  PROVE  IRoster'
<1>1. UNCHANGED <<roster, account, devices, pending>> /\ act \in [Acts -> ActTypes]
  BY RosterTypes DEF Build, IRoster, RosterInv
<1>2. PICK new : new = [Waiting EXCEPT !.doing = "built", !.call = call]
  OBVIOUS
<1>3. new \in ActTypes /\ new.doing = "built" /\ new.call = call
  BY <1>2, WaitingIsAnAct DEF ActTypes
<1>4. Step(r, new)
  BY <1>2 DEF Build
<1>5. act'[r] = new
  BY <1>1, <1>4 DEF Step
<1>6. ActHolds(r)'
  BY <1>3, <1>5 DEF ActHolds
<1>7. pending' \in BOOLEAN
  BY <1>1 DEF IRoster, RosterInv, RosterTypeOK
<1> QED
  BY <1>1, <1>3, <1>4, <1>6, <1>7, QuietStepKeeps

LEMMA BuildCallKeeps ==
  ASSUME IRoster, Forgets, NEW r \in Acts,
         \/ \E d \in Devices : BuildRegisterCall(r, d)
         \/ \E i \in DOMAIN devices.list : BuildRevokeCall(r, i)
  PROVE  IRoster'
<1>1. /\ account # NoAccount => account \in Accounts
      /\ devices.list \in Seq(AllKeys) /\ Len(devices.list) <= MaxKeys
  BY RosterTypes DEF IRoster, RosterInv, Listings
<1>2. ASSUME NEW d \in Devices, BuildRegisterCall(r, d)
      PROVE  IRoster'
  <2>1. PICK call : call = Call("register", account, RegisteredAs(d), 0)
    OBVIOUS
  <2>2. account \in Accounts /\ Build(r, call)
    BY <1>1, <1>2, <2>1 DEF BuildRegisterCall, Build
  <2>3. RegisteredAs(d) \in AllKeys /\ RegisteredAs(d).of = d
    BY DEF RegisteredAs, Key, AllKeys, Owners
  <2>4. /\ call \in CallForms /\ call.to = account /\ call.key = RegisteredAs(d)
    BY <2>1, <2>2, <2>3, DeviceRosterAssumption DEF Call, CallForms
  <2> QED
    BY <2>2, <2>3, <2>4, BuildKeeps
<1>3. ASSUME NEW i \in DOMAIN devices.list, BuildRevokeCall(r, i)
      PROVE  IRoster'
  <2>1. PICK call : call = Call("revoke", account, devices.list[i], i)
    OBVIOUS
  <2>2. account \in Accounts /\ Build(r, call)
    BY <1>1, <1>3, <2>1 DEF BuildRevokeCall, Build
  <2>3. devices.list[i] \in AllKeys /\ i \in 0 .. MaxKeys
    BY <1>1, <1>3, DeviceRosterAssumption
  <2>4. call \in CallForms /\ call.to = account /\ call.key = devices.list[i] /\ call.kind = "revoke"
    BY <2>1, <2>2, <2>3 DEF Call, CallForms
  <2> QED
    BY <2>2, <2>3, <2>4, BuildKeeps
<1> QED
  BY <1>2, <1>3

-----------------------------------------------------------------------------
(* A call goes through, and the readings under way remember it.            *)

Grows(old, keys) == Len(keys) = Len(old) + 1 /\ \A i \in DOMAIN old : keys[i] = old[i]
Moves(old, keys) == keys = old \/ Grows(old, keys) \/ Len(keys) = Len(old) - 1

(* What is remembered with a reading when its wallet has other keys.       *)
Remembers(old, new, K) ==
  /\ new \in Listings
  /\ new.wallet = old.wallet /\ new.count = old.count /\ new.list = old.list
  /\ new.stayed = old.stayed \cap K /\ new.seen = old.seen \cup K /\ new.changes = old.changes + 1

LEMMA NotedRemembers ==
  ASSUME NEW a \in ActTypes, NEW w, NEW K \in SUBSET AllKeys
  PROVE  /\ Noted(a, w, K) \in ActTypes
         /\ Noted(a, w, K).doing = a.doing /\ Noted(a, w, K).call = a.call
         /\ a.read.wallet # w => Noted(a, w, K) = a
         /\ a.read.wallet = w => Remembers(a.read, Noted(a, w, K).read, K)
<1>1. CASE a.read.wallet # w
  BY <1>1 DEF Noted
<1>2. CASE a.read.wallet = w
  <2>1. PICK old \in Listings : old = a.read
    BY DEF ActTypes
  <2>2. PICK stayed, seen, changes : /\ stayed = old.stayed \cap K /\ seen = old.seen \cup K
                                     /\ changes = old.changes + 1
    OBVIOUS
  <2>3. stayed \in SUBSET AllKeys /\ seen \in SUBSET AllKeys /\ changes \in Nat
    BY <2>1, <2>2 DEF Listings
  <2>4. PICK new : new = [old EXCEPT !.stayed = stayed, !.seen = seen, !.changes = changes]
    OBVIOUS
  <2>5. /\ new \in Listings /\ new.stayed = stayed /\ new.seen = seen /\ new.changes = changes
        /\ new.wallet = old.wallet /\ new.count = old.count /\ new.list = old.list
    BY <2>1, <2>3, <2>4 DEF Listings
  <2>6. Noted(a, w, K) = [a EXCEPT !.read = new]
    <3>1. Noted(a, w, K) = [a EXCEPT !.read.stayed = @ \cap K, !.read.seen = @ \cup K, !.read.changes = @ + 1]
      BY <1>2 DEF Noted
    <3>2. a.read.stayed = old.stayed /\ a.read.seen = old.seen /\ a.read.changes = old.changes
      BY <2>1
    <3> QED
      BY <2>1, <2>2, <2>4, <3>1, <3>2 DEF ActTypes, Listings
  <2> QED
    BY <1>2, <2>1, <2>2, <2>5, <2>6 DEF ActTypes, Remembers
<1> QED
  BY <1>1, <1>2

(* A listing that was true of the roster is true of the changed one.       *)
LEMMA ListingRemembers ==
  ASSUME NEW w \in Accounts, roster[w] \in KeyLists, NEW keys \in KeyLists,
         roster' = [roster EXCEPT ![w] = keys], w \in DOMAIN roster,
         Grows(roster[w], keys) \/ Len(keys) = Len(roster[w]) - 1,
         NEW old \in Listings, old.wallet = w, Listing(old),
         NEW read, Remembers(old, read, Range(keys))
  PROVE  Listing(read)'
<1>1. PICK list, was : list = old.list /\ was = roster[w]
  OBVIOUS
<1>2. /\ read.wallet = w /\ read.count = old.count /\ read.list = list
      /\ read.stayed = old.stayed \cap Range(keys) /\ read.seen = old.seen \cup Range(keys)
      /\ read.changes = old.changes + 1 /\ old.changes \in Nat
      /\ list \in Seq(AllKeys) /\ old.count \in Nat
  BY <1>1, DeviceRosterAssumption DEF Listings, Remembers
<1>3. roster'[w] = keys
  OBVIOUS
<1>4. Len(list) <= read.count /\ Range(list) \subseteq read.seen
  BY <1>1, <1>2 DEF Listing
<1>5. ASSUME old.changes = 0
      PROVE  ReadsInOrder(read)' \/ ReadItAll(read) \/ WillFail(read)'
  <2>1. /\ old.count = Len(was) /\ \A i \in DOMAIN list : list[i] = was[i]
        /\ old.stayed \subseteq {was[i] : i \in 1 .. old.count}
    BY <1>1, <1>5 DEF Listing, ReadsInOrder
  <2>2. Len(was) \in Nat /\ Len(keys) \in Nat /\ DOMAIN was = 1 .. Len(was) /\ Len(list) \in Nat
        /\ DOMAIN list = 1 .. Len(list)
    BY <1>1, <1>2 DEF KeyLists
  <2>3. CASE Grows(was, keys)
    <3>1. \A i \in 1 .. old.count : keys[i] = was[i]
      BY <2>1, <2>2, <2>3 DEF Grows
    <3>2. \A i \in DOMAIN list : list[i] = keys[i]
      BY <1>2, <1>4, <2>1, <2>2, <3>1
    <3>3. read.stayed \subseteq {keys[i] : i \in 1 .. old.count}
      BY <1>2, <2>1, <3>1
    <3>4. read.count <= Len(keys) /\ read.changes # 0
      BY <1>2, <1>5, <2>1, <2>2, <2>3 DEF Grows
    <3>5. ReadsInOrder(read)'
      BY <1>2, <1>3, <3>2, <3>3, <3>4 DEF ReadsInOrder
    <3> QED
      BY <3>5
  <2>4. CASE Len(keys) = Len(was) - 1
    <3>1. CASE Len(list) = old.count
      <4>1. read.stayed \subseteq Range(list)
        BY <1>2, <2>1, <2>2, <3>1 DEF Range
      <4> QED
        BY <1>2, <3>1, <4>1 DEF ReadItAll
    <3>2. CASE Len(list) # old.count
      <4>1. Len(list) <= Len(keys) /\ Len(keys) < read.count
        <5>1. PICK m, n \in Nat : m = Len(list) /\ n = old.count
          BY <1>2, <2>2
        <5>2. m <= n /\ m # n
          BY <1>2, <1>4, <3>2, <5>1
        <5>3. Len(keys) = n - 1
          BY <2>1, <2>4, <5>1
        <5> QED
          BY <1>2, <5>1, <5>2, <5>3
      <4>2. Len(read.list) <= Len(roster'[read.wallet]) /\ Len(roster'[read.wallet]) < read.count
        BY <1>2, <1>3, <4>1
      <4> QED
        BY <4>2 DEF WillFail
    <3> QED
      BY <3>1, <3>2
  <2> QED
    BY <1>1, <2>3, <2>4
<1>6. read.changes <= 1 => read.changes = 1 /\ old.changes = 0
  BY <1>2
<1>7. read.changes <= 1 =>
        \/ ReadsInOrder(read)'
        \/ read.changes = 1 /\ (ReadItAll(read)' \/ WillFail(read)')
  BY <1>5, <1>6 DEF ReadItAll
<1> QED
  BY <1>2, <1>4, <1>7 DEF Listing

LEMMA PutKeeps ==
  ASSUME IRoster, NEW w \in Accounts, NEW keys \in KeyLists, Moves(roster[w], keys),
         NEW done \in SUBSET Acts, Put(w, keys, done), w \in DOMAIN roster
  PROVE  /\ \A u \in Accounts : roster'[u] \in KeyLists
         /\ act' \in [Acts -> ActTypes]
         /\ \A q \in Acts : ActHolds(q)'
         /\ \A q \in Acts : act'[q].call \in {act[q].call, NoCall}
<1>1. /\ act \in [Acts -> ActTypes] /\ \A u \in Accounts : roster[u] \in KeyLists
      /\ \A q \in Acts : ActHolds(q)
  BY RosterTypes DEF IRoster, RosterInv
<1>2. roster' = [roster EXCEPT ![w] = keys]
  BY DEF Put
<1>3. roster'[w] = keys /\ \A u : u # w => roster'[u] = roster[u]
  BY <1>2
<1>4. PICK K : K = Range(keys)
  OBVIOUS
<1>5. K \subseteq AllKeys
  BY <1>4, KeysAreKeys
<1>6. ASSUME NEW q \in Acts
      PROVE  act'[q] = IF q \in done THEN Over
                       ELSE IF keys = roster[w] THEN act[q] ELSE Noted(act[q], w, K)
  BY <1>4 DEF Put
<1>7. ASSUME NEW q \in Acts
      PROVE  act'[q] \in ActTypes /\ act'[q].call \in {act[q].call, NoCall} /\ ActHolds(q)'
  <2>1. CASE q \in done
    <3>1. act'[q] = Over
      BY <1>6, <2>1
    <3> QED
      BY <3>1, OverHolds, WaitingIsAnAct
  <2>2. CASE q \notin done /\ keys = roster[w]
    <3>1. act'[q] = act[q] /\ \A u : roster'[u] = roster[u]
      BY <1>3, <1>6, <2>2
    <3>2. ActHolds(q)'
      BY <1>1, <3>1, ActHoldsStays
    <3> QED
      BY <1>1, <3>1, <3>2
  <2>3. CASE q \notin done /\ keys # roster[w]
    <3>1. PICK a \in ActTypes : a = act[q]
      BY <1>1
    <3>2. act'[q] = Noted(a, w, K)
      BY <1>6, <2>3, <3>1
    <3>3. act'[q] \in ActTypes /\ act'[q].doing = a.doing /\ act'[q].call = a.call
      BY <1>5, <3>1, <3>2, NotedRemembers
    <3>4. CASE a.read.wallet # w
      <4>1. act'[q] = act[q] /\ roster'[act[q].read.wallet] = roster[act[q].read.wallet]
        BY <1>3, <1>5, <3>1, <3>2, <3>4, NotedRemembers
      <4>2. ActHolds(q)'
        BY <1>1, <4>1, ActHoldsStays
      <4> QED
        BY <3>1, <3>3, <4>2
    <3>5. CASE a.read.wallet = w
      <4>1. PICK old, read : old = a.read /\ read = act'[q].read
        OBVIOUS
      <4>2. old \in Listings /\ Remembers(old, read, K)
        BY <1>5, <3>1, <3>2, <3>5, <4>1, NotedRemembers DEF ActTypes
      <4>3. /\ read.wallet = w /\ read.list = old.list
            /\ read.stayed = old.stayed \cap K /\ read.seen = old.seen \cup K
        BY <3>5, <4>1, <4>2 DEF Remembers
      <4>4. a.doing = "listing" => Listing(old)
        BY <1>1, <3>1, <4>1 DEF ActHolds
      <4>5. Grows(roster[w], keys) \/ Len(keys) = Len(roster[w]) - 1
        BY <2>3 DEF Moves
      <4>6. a.doing = "listing" => Listing(read)'
        <5>1. roster[w] \in KeyLists /\ old.wallet = w
          BY <1>1, <3>5, <4>1
        <5> QED
          BY <1>2, <1>4, <4>2, <4>4, <4>5, <5>1, ListingRemembers
      <4>7. a.doing = "counting" => read.list = <<>>
        BY <1>1, <3>1, <4>1, <4>3 DEF ActHolds
      <4>8. read.stayed \subseteq Keys(w)' /\ Keys(w)' \subseteq read.seen
        BY <1>3, <1>4, <4>3 DEF Keys
      <4>9. a.doing = "built" => a.call.to \in Accounts /\ a.call.key \in AllKeys
        BY <1>1, <3>1 DEF ActHolds
      <4>10. ActHolds(q)'
        BY <3>3, <4>1, <4>3, <4>6, <4>7, <4>8, <4>9 DEF ActHolds, Keys
      <4> QED
        BY <3>1, <3>3, <4>10
    <3> QED
      BY <3>4, <3>5
  <2> QED
    BY <2>1, <2>2, <2>3
<1>8. \A u \in Accounts : roster'[u] \in KeyLists
  BY <1>1, <1>3
<1>9. act' \in [Acts -> ActTypes]
  BY <1>7 DEF Put
<1> QED
  BY <1>7, <1>8, <1>9

LEMMA RegisterPuts ==
  ASSUME IRoster, NEW w \in Accounts, NEW k \in AllKeys, NEW done, Len(roster[w]) < MaxKeys,
         Register(w, k, done)
  PROVE  \E keys \in KeyLists : /\ Put(w, keys, done) /\ Moves(roster[w], keys)
                                /\ Range(keys) = Keys(w) \cup {k}
<1>1. roster[w] \in KeyLists
  BY RosterTypes DEF IRoster, RosterInv
<1>2. CASE k \in Keys(w)
  <2>1. Put(w, roster[w], done) /\ Moves(roster[w], roster[w])
    BY <1>2 DEF Register, Moves
  <2>2. Range(roster[w]) = Keys(w) \cup {k}
    BY <1>2 DEF Keys
  <2> QED
    BY <1>1, <2>1, <2>2
<1>3. CASE k \notin Keys(w)
  BY <1>1, <1>3, AppendAdds DEF Register, Moves, Grows, Keys
<1> QED
  BY <1>2, <1>3

LEMMA RevokePuts ==
  ASSUME IRoster, NEW w \in Accounts, NEW k, NEW done, Revoke(w, k, done)
  PROVE  \E keys \in KeyLists : /\ Put(w, keys, done) /\ Moves(roster[w], keys)
                                /\ Range(keys) = Keys(w) \ {k}
<1>1. roster[w] \in KeyLists
  BY RosterTypes DEF IRoster, RosterInv
<1>2. CASE k \notin Keys(w)
  BY <1>1, <1>2 DEF Revoke, Moves, Keys
<1>3. CASE k \in Keys(w)
  BY <1>1, <1>3, SwapPopRemoves DEF Revoke, Moves, Keys
<1> QED
  BY <1>2, <1>3

LEMMA ChangedRosterKeeps ==
  ASSUME IRoster, NEW w \in Accounts, NEW keys \in KeyLists, Moves(roster[w], keys),
         NEW done \in SUBSET Acts, Put(w, keys, done), UNCHANGED <<account, devices, pending>>,
         recovered' \in [Wallets -> SUBSET Owners], RecoveredKeysSign'
  PROVE  IRoster'
<1>1. w \in DOMAIN roster
  BY DEF IRoster
<1>2. /\ \A u \in Accounts : roster'[u] \in KeyLists
      /\ act' \in [Acts -> ActTypes]
      /\ \A q \in Acts : ActHolds(q)'
      /\ \A q \in Acts : act'[q].call \in {act[q].call, NoCall}
  BY <1>1, PutKeeps
<1>3. RosterTypeOK' /\ Len(devices'.list) <= MaxKeys
  BY <1>2 DEF IRoster, RosterInv, RosterTypeOK, KeyLists, ActTypes, CallForms
<1>4. ListIsTrue' /\ DOMAIN roster' = Accounts
  BY DEF IRoster, RosterInv, ListIsTrue, Put
<1> QED
  BY <1>2, <1>3, <1>4 DEF IRoster, RosterInv

(* A call goes through: what leaves the roster is the key that was picked. *)
LEMMA ExecuteCallKeeps ==
  ASSUME IRoster, NEW r \in Acts, ExecuteCall(r),
         recovered' = [w \in Wallets |-> {k \in recovered[w] : ~ Revokes(w, KeyHash(k))}]
  PROVE  /\ IRoster'
         /\ \A w \in Accounts : \A k \in Keys(w) \ Range(roster'[w]) : Revokes(w, k)
<1>1. act \in [Acts -> ActTypes] /\ ActHolds(r) /\ act[r].doing = "built"
      /\ UNCHANGED <<account, devices, pending>>
  BY RosterTypes DEF IRoster, RosterInv, ExecuteCall, Is
<1>2. PICK c : c = act[r].call
  OBVIOUS
<1>3. c.to \in Accounts /\ c.key \in AllKeys
  BY <1>1, <1>2 DEF ActHolds
<1>4. PICK keys \in KeyLists :
        /\ Put(c.to, keys, {r}) /\ Moves(roster[c.to], keys)
        /\ \/ Range(keys) = Keys(c.to) \cup {c.key}
           \/ c.kind = "revoke" /\ Range(keys) = Keys(c.to) \ {c.key}
  <2>1. CASE c.kind = "register" /\ Len(roster[c.to]) < MaxKeys /\ Register(c.to, c.key, {r})
    BY <1>3, <2>1, RegisterPuts
  <2>2. CASE c.kind = "revoke" /\ Revoke(c.to, Revoked(c), {r})
    BY <1>3, <2>2, RevokePuts DEF Revoked
  <2> QED
    BY <1>2, <2>1, <2>2 DEF ExecuteCall
<1>5. /\ roster'[c.to] = keys /\ \A w : w # c.to => roster'[w] = roster[w]
      /\ act'[r] = Over
  BY <1>3, <1>4 DEF Put, IRoster
<1>6. c.kind = "revoke" => Revokes(c.to, c.key)
  BY <1>1, <1>2, <1>5, WaitingIsAnAct DEF Revokes, Executed
<1>7. ASSUME NEW w \in Accounts, NEW k \in Keys(w) \ Range(roster'[w])
      PROVE  Revokes(w, k)
  <2>1. w = c.to
    BY <1>5 DEF Keys
  <2>2. c.kind = "revoke" /\ k = c.key
    BY <1>4, <1>5, <2>1
  <2> QED
    BY <1>6, <2>1, <2>2
<1>8. Forgets
  BY ForgetsByDefinition
<1>9. RecoveredKeysSign'
  <2> SUFFICES ASSUME NEW w \in Wallets, NEW k \in recovered'[w] PROVE KeyHash(k) \in Keys(w)'
    BY DEF RecoveredKeysSign
  <2>1. k \in recovered[w] /\ ~ Revokes(w, KeyHash(k)) /\ w \in Accounts
    BY WalletPagesAssumption
  <2>2. KeyHash(k) \in Keys(w)
    BY <2>1 DEF IRoster, RosterInv, RecoveredKeysSign
  <2> QED
    BY <1>7, <2>1, <2>2 DEF Keys
<1>10. IRoster'
  BY <1>1, <1>3, <1>4, <1>8, <1>9, ChangedRosterKeeps DEF Forgets
<1> QED
  BY <1>7, <1>10

(* The key a recovery promoted joins the roster under its owner's hash.    *)
LEMMA RecoverAndRegisterKeeps ==
  ASSUME IRoster, RecoveryTypeOK, NEW w \in Wallets, RecoverAndRegister(w)
  PROVE  /\ IRoster'
         /\ \A u \in Accounts : \A k \in Keys(u) \ Range(roster'[u]) : Revokes(u, k)
<1>1. PICK c : c = contract[w].candidate
  OBVIOUS
<1>2. c \in Owners
  BY <1>1, PageTypes DEF RecoverAndRegister, ExecuteRecovery, EndRound, PromoteKeys, Owners
<1>3. PromotedAs(c) \in AllKeys /\ w \in Accounts /\ PromotedAs(c) = KeyHash(c)
  BY <1>2, WalletPagesAssumption DEF PromotedAs, KeyHash, Key, AllKeys
<1>4. /\ Len(roster[w]) < MaxKeys /\ Register(w, PromotedAs(c), {})
      /\ recovered' = [recovered EXCEPT ![w] = @ \cup {c}]
      /\ UNCHANGED <<account, devices, pending>>
  BY <1>1 DEF RecoverAndRegister
<1>5. PICK keys \in KeyLists :
        Put(w, keys, {}) /\ Moves(roster[w], keys) /\ Range(keys) = Keys(w) \cup {KeyHash(c)}
  BY <1>3, <1>4, RegisterPuts
<1>6. roster'[w] = keys /\ \A u : u # w => roster'[u] = roster[u]
  BY <1>3, <1>5 DEF Put, IRoster
<1>7. \A u \in Accounts : Keys(u) \subseteq Range(roster'[u])
  BY <1>5, <1>6 DEF Keys
<1>8. recovered' \in [Wallets -> SUBSET Owners]
  BY <1>2, <1>4 DEF IRoster
<1>9. RecoveredKeysSign'
  <2> SUFFICES ASSUME NEW u \in Wallets, NEW k \in recovered'[u] PROVE KeyHash(k) \in Keys(u)'
    BY DEF RecoveredKeysSign
  <2>1. k \in recovered[u] \/ (u = w /\ k = c)
    BY <1>4 DEF IRoster
  <2>2. CASE k \in recovered[u]
    BY <1>7, <2>2, WalletPagesAssumption DEF IRoster, RosterInv, RecoveredKeysSign, Keys
  <2>3. CASE u = w /\ k = c
    BY <1>5, <1>6, <2>3 DEF Keys
  <2> QED
    BY <2>1, <2>2, <2>3
<1>10. IRoster'
  BY <1>3, <1>4, <1>5, <1>8, <1>9, ChangedRosterKeeps
<1> QED
  BY <1>7, <1>10

-----------------------------------------------------------------------------
LEMMA RosterStart == PagesInit => IRoster
<1> SUFFICES ASSUME PagesInit PROVE IRoster
  OBVIOUS
<1>1. RosterInit /\ recovered = [w \in Wallets |-> {}]
  BY DEF PagesInit
<1>2. ASSUME NEW w \in Accounts
      PROVE  roster[w] \in KeyLists
  <2>1. CASE roster[w] = <<>>
    BY <2>1, DeviceRosterAssumption DEF KeyLists, IsInjective
  <2>2. CASE roster[w] # <<>>
    <3>1. PICK d \in Devices, e \in Devices : roster[w] = <<KeyHash(d), KeyHash(e)>>
      BY <1>1, <2>2 DEF RosterInit
    <3>2. KeyHash(d) \in AllKeys /\ KeyHash(e) \in AllKeys
      BY DEF KeyHash, Key, AllKeys, Owners
    <3>3. roster[w] \in Seq(AllKeys) /\ Len(roster[w]) = 2
      BY <3>1, <3>2
    <3>4. Len(roster[w]) <= MaxKeys /\ IsInjective(roster[w])
      BY <1>1, <3>3, DeviceRosterAssumption DEF RosterInit
    <3> QED
      BY <3>3, <3>4 DEF KeyLists
  <2> QED
    BY <2>1, <2>2
<1>3. /\ account \in Accounts /\ devices = Unlisted /\ pending = FALSE
      /\ act = [r \in Acts |-> Waiting] /\ DOMAIN roster = Accounts
  BY <1>1 DEF RosterInit
<1>4. RosterTypeOK
  BY <1>2, <1>3, WaitingIsAnAct, RosterTypes
<1>5. ListIsTrue /\ Len(devices.list) <= MaxKeys
  BY <1>3, DeviceRosterAssumption DEF ListIsTrue, Unlisted
<1>6. RecoveredKeysSign
  BY <1>1 DEF RecoveredKeysSign
<1>7. \A r \in Acts : ActHolds(r)
  BY <1>3, WaitingIsAnAct DEF ActHolds
<1> QED
  BY <1>1, <1>3, <1>4, <1>5, <1>6, <1>7 DEF IRoster, RosterInv

LEMMA RosterStays ==
  ASSUME IRoster, UNCHANGED <<rosterVars, recovered>>
  PROVE  IRoster' /\ \A w \in Accounts : Keys(w) = Range(roster'[w])
<1>1. UNCHANGED <<roster, account, devices, pending, act, recovered>>
  BY DEF rosterVars
<1>2. \A r \in Acts : ActHolds(r)'
  BY <1>1, ActHoldsStays DEF IRoster
<1> QED
  BY <1>1, <1>2 DEF IRoster, RosterInv, RosterTypeOK, ListIsTrue, RecoveredKeysSign, Keys

(* Every step of the devices page, and what leaves a roster by it.         *)
LEMMA PagesStep ==
  ASSUME IRecovery, IRoster, PagesNext
  PROVE  /\ IRoster'
         /\ \A w \in Accounts : \A k \in Keys(w) \ Range(roster'[w]) : Revokes(w, k)
<1>1. CASE UNCHANGED <<rosterVars, recovered>>
  BY <1>1, RosterStays
<1>2. ASSUME NEW w \in Wallets, RecoverAndRegister(w)
      PROVE  /\ IRoster'
             /\ \A u \in Accounts : \A k \in Keys(u) \ Range(roster'[u]) : Revokes(u, k)
  BY <1>2, RecoverAndRegisterKeeps DEF IRecovery
<1>3. ASSUME recovered' = [w \in Wallets |-> {k \in recovered[w] : ~ Revokes(w, KeyHash(k))}]
      PROVE  Forgets
  BY <1>3, ForgetsByDefinition
<1>4. ASSUME NEW w \in Accounts \cup {NoAccount}, SwitchAccount(w), Forgets
      PROVE  IRoster' /\ UNCHANGED roster
  <2>1. UNCHANGED <<roster, devices, pending, act>> /\ account' = w
    BY <1>4 DEF SwitchAccount
  <2>2. RosterTypeOK' /\ ListIsTrue'
    BY <2>1 DEF IRoster, RosterInv, RosterTypeOK, ListIsTrue
  <2>3. RecoveredKeysSign'
    BY <1>4, <2>1 DEF IRoster, RosterInv, RecoveredKeysSign, Forgets, Keys
  <2>4. \A r \in Acts : ActHolds(r)'
    BY <2>1, ActHoldsStays DEF IRoster
  <2> QED
    BY <1>4, <2>1, <2>2, <2>3, <2>4 DEF IRoster, RosterInv, Forgets
<1>5. ASSUME NEW r \in Acts, RosterStep(r), ~ ExecuteCall(r), Forgets
      PROVE  IRoster' /\ UNCHANGED roster
  <2>1. IRoster'
    BY <1>5, RefreshKeeps, KeyCountKeeps, KeyAtKeeps, ReadDeviceRosterKeeps, RefreshFailsKeeps,
       BuildCallKeeps DEF RosterStep
  <2>2. UNCHANGED roster
    BY <1>5 DEF RosterStep, Refresh, KeyCount, KeyAt, ReadDeviceRoster, RefreshFails,
       BuildRegisterCall, BuildRevokeCall, Build
  <2> QED
    BY <2>1, <2>2
<1> QED
  BY <1>1, <1>2, <1>3, <1>4, <1>5, ExecuteCallKeeps DEF PagesNext, rosterVars, Keys

LEMMA PagesInvariant == PagesSpec => [](IRecovery /\ IRoster)
<1>1. PagesInit => IRecovery /\ IRoster
  BY RecoveryInit, RosterStart DEF PagesInit
<1>2. IRecovery /\ IRoster /\ [PagesNext /\ Cardinality(Made') <= MaxCalls]_pagesVars
      => (IRecovery /\ IRoster)'
  <2> SUFFICES ASSUME IRecovery, IRoster, [PagesNext /\ Cardinality(Made') <= MaxCalls]_pagesVars
               PROVE  (IRecovery /\ IRoster)'
    OBVIOUS
  <2>1. IRecovery'
    BY RecoveryStep, PagesAreOfTheScreen DEF pagesVars
  <2>2. IRoster'
    BY PagesStep, RosterStays DEF pagesVars
  <2> QED
    BY <2>1, <2>2
<1> QED
  BY <1>1, <1>2, PTL DEF PagesSpec

(* No key is on a roster twice; a list of devices that was read, one key a *)
(* call, while keys came and went names no key that was gone and misses    *)
(* none that stayed, or fails; a promoted key signs until it is revoked    *)
(* (evm/roster-reads.ts, react/hooks.ts useDevices).                       *)
THEOREM RosterIsTrue == PagesSpec => []RosterInv
BY PagesInvariant, PTL DEF IRoster

(* A key that leaves a roster is one a person picked from a list, whatever *)
(* moved to its place since (evm/roster-calls.ts: revoked by hash).        *)
THEOREM OnlyPickedKeysLeaveARoster == PagesSpec => OnlyPickedKeysLeave
<1>1. IRecovery /\ IRoster /\ [PagesNext /\ Cardinality(Made') <= MaxCalls]_pagesVars
      => [\A w \in Accounts : \A k \in Keys(w) \ Range(roster'[w]) : Revokes(w, k)]_pagesVars
  BY PagesStep
<1> QED
  BY <1>1, PagesInvariant, PTL DEF PagesSpec, OnlyPickedKeysLeave

=============================================================================
