---------------------------- MODULE WalletPages -----------------------------
(***************************************************************************)
(* The recovery screen and the devices page over the same wallets: an      *)
(* executed recovery puts the promoted key on the roster (AvokCalibur.sol, *)
(* registerRecoveredKey), where the devices page finds it.                 *)
(***************************************************************************)
EXTENDS RecoveryScreen, DeviceRoster

CONSTANT MaxCalls       \* bound: calls the two pages make between them

ASSUME WalletPagesAssumption == Wallets \subseteq Accounts

VARIABLE recovered      \* history: owners of keys promoted and not revoked

pagesVars == <<vars, rosterVars, recovered>>

Made == {t \in Tasks : task[t].doing # "nothing"} \cup {r \in Acts : act[r].doing # "nothing"}

PagesInit == Init /\ RosterInit /\ recovered = [w \in Wallets |-> {}]

RecoverAndRegister(w) ==
  LET k == contract[w].candidate
  IN /\ ExecuteRecovery(w)
     /\ Len(roster[w]) < MaxKeys /\ Register(w, PromotedAs(k), {})
     /\ recovered' = [recovered EXCEPT ![w] = @ \cup {k}]
     /\ UNCHANGED <<account, devices, pending>>

Executed == {act[r].call : r \in {r \in Acts : act[r].doing = "built" /\ act'[r].doing = "over"}}

Revokes(w, k) == \E c \in Executed : c.kind = "revoke" /\ c.to = w /\ c.key = k

PagesNext ==
  \/ /\ \/ Reopen
        \/ \E t \in Tasks : PageStep(t)
        \/ \E w \in Wallets : LiveOn(w)
     /\ UNCHANGED <<rosterVars, recovered>>
  \/ \E w \in Wallets : RecoverAndRegister(w)
  \/ /\ \/ \E r \in Acts : RosterStep(r)
        \/ \E w \in Accounts \cup {NoAccount} : SwitchAccount(w)
     /\ recovered' = [w \in Wallets |-> {k \in recovered[w] : ~ Revokes(w, KeyHash(k))}]
     /\ UNCHANGED vars

PagesSpec == PagesInit /\ [][PagesNext /\ Cardinality(Made') <= MaxCalls]_pagesVars

-----------------------------------------------------------------------------
(***************************************************************************)
(* What the two pages must get right about one wallet.                     *)
(***************************************************************************)

Owners == Devices \cup Tasks \cup {OtherKey}
AllKeys == {Key(form, d) : form \in {"raw", "word"}, d \in Owners}
Listings == [wallet : Accounts \cup {NoAccount}, count : 0..MaxKeys, list : Seq(AllKeys),
             stayed : SUBSET AllKeys, seen : SUBSET AllKeys, changes : Nat]

(* Every variable of the devices page has the values it promises, and no   *)
(* key is on a roster twice.                                               *)
RosterTypeOK ==
  /\ \A w \in Accounts : roster[w] \in Seq(AllKeys) /\ Len(roster[w]) <= MaxKeys /\ IsInjective(roster[w])
  /\ account \in Accounts \cup {NoAccount} /\ devices \in Listings /\ pending \in BOOLEAN
  /\ act \in [Acts -> [doing : {"nothing", "counting", "listing", "built", "over"}, read : Listings,
                       call : [kind : {"none", "register", "revoke"}, to : Accounts \cup {NoAccount},
                               key : AllKeys \cup {NoCall.key}, at : 0..MaxKeys]]]

(* A list read while keys come and go names no key that was gone before it *)
(* began, and unless the roster changed twice meanwhile it names each key  *)
(* that stayed (roster-reads.ts: one call a key, by index; an index that a *)
(* revocation has emptied fails the whole read).                           *)
ListIsTrue ==
  devices.wallet # NoAccount =>
    /\ Range(devices.list) \subseteq devices.seen
    /\ devices.changes <= 1 => devices.stayed \subseteq Range(devices.list)

(* A key that leaves a roster is one a person picked from a list, whatever *)
(* moved to its place since: keys are revoked by hash, never by index.     *)
OnlyPickedKeysLeave ==
  [][\A w \in Accounts : \A k \in Keys(w) \ Range(roster'[w]) :
       Revokes(w, k)]_pagesVars

(* The key a recovery promoted signs until it is revoked: it is on the     *)
(* roster under the hash its owner computes (roster-signature.ts:46).      *)
RecoveredKeysSign ==
  \A w \in Wallets : \A k \in recovered[w] : KeyHash(k) \in Keys(w)

(* What every state of the rosters and of the page that reads them keeps.  *)
RosterInv ==
  /\ RosterTypeOK
  /\ ListIsTrue
  /\ RecoveredKeysSign

-----------------------------------------------------------------------------
(* What roster-calls.ts:43 says: the hash a freshly registered device's    *)
(* own address will be found under.                                        *)
RegisteredDeviceIsFound ==
  [][\A c \in Executed : c.kind = "register" => KeyHash(c.key.of) \in Range(roster'[c.to])]_pagesVars
=============================================================================
