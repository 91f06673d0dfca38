---------------------------- MODULE DeviceRoster ----------------------------
(***************************************************************************)
(* The keys that sign for a wallet, as a dapp manages them: useDevices and *)
(* useMutation of react/hooks.ts, which read the roster off the chain one  *)
(* key at a time (evm/roster-reads.ts), and the calls a wallet makes to    *)
(* itself (evm/roster-calls.ts).  The roster is an enumerable set of the   *)
(* Calibur library: a revoked key's place is taken by the last one.        *)
(***************************************************************************)
EXTENDS Naturals, Sequences, SequencesExt

CONSTANTS
  Accounts,             \* wallets a person is signed in to, one at a time
  NoAccount,
  Devices,              \* owners of keys
  Acts,                 \* what the page does, each once
  MaxKeys               \* bound: keys of a wallet

(* A wallet may start with two.                                            *)
ASSUME DeviceRosterAssumption == MaxKeys \in Nat \ {0, 1}

VARIABLES
  roster,               \* each wallet's keys, by index
  account,              \* useAvokContext().account
  devices,              \* the list on the screen
  pending,              \* useMutation's flag
  act                   \* where each act is, what it has read, the call it built

rosterVars == <<roster, account, devices, pending, act>>

(* A hash of a key stands for the key: its type is Secp256k1, its public   *)
(* key the address, bare or as the word abi.encode makes of it.            *)
Key(form, d) == [form |-> form, of |-> d]
KeyHash(d) == Key("word", d)
RegisteredAs(d) == Key("raw", d)

PromotedAs(d) == Key("word", d)

Keys(w) == Range(roster[w])

(* What a refresh has read, and what the model remembers with it: the keys *)
(* that stayed since it began, those it could have seen, and how often     *)
(* they changed.                                                           *)
Unlisted == [wallet |-> NoAccount, count |-> 0, list |-> <<>>,
             stayed |-> {}, seen |-> {}, changes |-> 0]
Call(kind, w, k, i) == [kind |-> kind, to |-> w, key |-> k, at |-> i]
NoCall == Call("none", NoAccount, Key("raw", NoAccount), 0)
Waiting == [doing |-> "nothing", read |-> Unlisted, call |-> NoCall]
Over == [Waiting EXCEPT !.doing = "over"]

RosterInit ==
  /\ roster \in [Accounts -> {<<>>} \cup {<<KeyHash(d), KeyHash(e)>> : d, e \in Devices}]
  /\ \A w \in Accounts : IsInjective(roster[w])
  /\ account \in Accounts
  /\ devices = Unlisted /\ pending = FALSE
  /\ act = [r \in Acts |-> Waiting]

-----------------------------------------------------------------------------
(* The wallet's contract.  A call that goes through leaves the acts.       *)
Noted(a, w, keys) ==
  IF a.read.wallet # w THEN a
  ELSE [a EXCEPT !.read.stayed = @ \cap keys, !.read.seen = @ \cup keys, !.read.changes = @ + 1]

Put(w, keys, done) ==
  /\ roster' = [roster EXCEPT ![w] = keys]
  /\ act' = [r \in Acts |-> IF r \in done THEN Over
                            ELSE IF keys = roster[w] THEN act[r] ELSE Noted(act[r], w, Range(keys))]

Register(w, k, done) ==
  Put(w, IF k \in Keys(w) THEN roster[w] ELSE Append(roster[w], k), done)

(* The last key moves to the place that is free.                           *)
SwapPop(s, k) ==
  LET i == CHOOSE j \in DOMAIN s : s[j] = k
  IN Front([s EXCEPT ![i] = Last(s)])

Revoke(w, k, done) ==
  Put(w, IF k \in Keys(w) THEN SwapPop(roster[w], k) ELSE roster[w], done)

-----------------------------------------------------------------------------
(* The dapp.                                                               *)
SwitchAccount(w) ==
  /\ account' = w /\ account # w
  /\ UNCHANGED <<roster, devices, pending, act>>

Undone == {r \in Acts : act[r].doing = "nothing"}
Fresh(r) == r \in Undone /\ r = CHOOSE q \in Undone : TRUE
Is(r, doing) == act[r].doing = doing
Step(r, new) == act' = [act EXCEPT ![r] = new]

(* The wallet is that of the render the call belongs to.                   *)
Refresh(r) ==
  /\ Fresh(r)
  /\ IF account = NoAccount THEN pending' = FALSE /\ Step(r, Over)
     ELSE /\ pending' = TRUE
          /\ Step(r, [Waiting EXCEPT !.doing = "counting", !.read =
               [Unlisted EXCEPT !.wallet = account, !.stayed = Keys(account), !.seen = Keys(account)]])
  /\ UNCHANGED <<roster, account, devices>>

KeyCount(r) ==
  /\ Is(r, "counting")
  /\ Step(r, [act[r] EXCEPT !.doing = "listing", !.read.count = Len(roster[act[r].read.wallet])])
  /\ UNCHANGED <<roster, account, devices, pending>>

Settle(r) == pending' = FALSE /\ Step(r, Over)

(* Mutant: the count is read with every key. *)
LiveCount(r) == Len(roster[act[r].read.wallet])

CountOf(r) == act[r].read.count

(* One key a call; an index that is none any more reverts.                 *)
KeyAt(r) ==
  LET read == act[r].read
      i == Len(read.list) + 1
      keys == roster[read.wallet]
  IN /\ Is(r, "listing") /\ i <= CountOf(r)
     /\ IF i \in DOMAIN keys
        THEN Step(r, [act[r] EXCEPT !.read.list = Append(@, keys[i])]) /\ UNCHANGED pending
        ELSE Settle(r)
     /\ UNCHANGED <<roster, account, devices>>

ReadDeviceRoster(r) ==
  LET read == act[r].read
  IN /\ Is(r, "listing") /\ Len(read.list) >= CountOf(r)
     /\ devices' = [read EXCEPT !.count = 0] /\ Settle(r)
     /\ UNCHANGED <<roster, account>>

RefreshFails(r) ==
  /\ act[r].doing \in {"counting", "listing"} /\ Settle(r)
  /\ UNCHANGED <<roster, account, devices>>

Build(r, call) ==
  /\ Fresh(r) /\ account # NoAccount
  /\ Step(r, [Waiting EXCEPT !.doing = "built", !.call = call])
  /\ UNCHANGED <<roster, account, devices, pending>>

(* For any device: whoever calls has verified its enrollment, or has not.  *)
BuildRegisterCall(r, d) == Build(r, Call("register", account, RegisteredAs(d), 0))

BuildRevokeCall(r, i) == Build(r, Call("revoke", account, devices.list[i], i))

(* Mutant: a key is revoked by its place in the list. *)
KeyAtPlace(c) == IF c.at \in DOMAIN roster[c.to] THEN roster[c.to][c.at] ELSE c.key

Revoked(c) == c.key

(* The send engine executes a call, and the wallet calls itself.           *)
ExecuteCall(r) ==
  LET c == act[r].call
  IN /\ Is(r, "built")
     /\ \/ c.kind = "register" /\ Len(roster[c.to]) < MaxKeys /\ Register(c.to, c.key, {r})
        \/ c.kind = "revoke" /\ Revoke(c.to, Revoked(c), {r})
     /\ UNCHANGED <<account, devices, pending>>

RosterStep(r) ==
  \/ Refresh(r) \/ KeyCount(r) \/ KeyAt(r) \/ ReadDeviceRoster(r) \/ RefreshFails(r)
  \/ \E d \in Devices : BuildRegisterCall(r, d)
  \/ \E i \in DOMAIN devices.list : BuildRevokeCall(r, i)
  \/ ExecuteCall(r)
=============================================================================
