---------------------------- MODULE SharedOrigin ----------------------------
(***************************************************************************)
(* The connection of an app to the vault (channel/connection.ts, wrapped   *)
(* by shared-origin/connection.ts, persisted by channel/storage.ts, called *)
(* by provider/eip1193-methods.ts) over the popup channel: an account in   *)
(* memory, the account in storage, and calls that await a window.          *)
(***************************************************************************)
EXTENDS PopupChannel

CONSTANTS
  Garbage          \* stored bytes that parse and hold no address

ASSUME SharedOriginAssumption ==
  Garbage \notin Passkeys \cup {NoPasskey}

VARIABLES
  current,         \* the account in memory
  stored,          \* the account in storage
  connecting       \* how far each connect() is

connectionVars == <<current, stored, connecting>>
vars == <<popupVars, connectionVars>>

Account == IF current # NoPasskey THEN current ELSE stored    \* resolveAccount
Connected == Account # NoPasskey                              \* status()

CredentialOf(a) == IF a = Garbage THEN NoPasskey ELSE a

Init ==
  /\ PopupInit
  /\ current = NoPasskey
  /\ stored \in Passkeys \cup {NoPasskey, Garbage}
  /\ connecting = [o \in Opens |-> "no"]

-----------------------------------------------------------------------------
Connect(o) ==
  /\ Open(o, [kind |-> "authorize", credential |-> NoPasskey])
  /\ connecting' = [connecting EXCEPT ![o] = "asked"]
  /\ UNCHANGED <<current, stored>>

(* A signer is made per call, from the account of that moment.             *)
SignWithVault(o, kind) ==
  /\ Connected
  /\ Open(o, [kind |-> kind, credential |-> CredentialOf(Account)])
  /\ UNCHANGED connectionVars

(* Mutant: the account is kept in memory and not saved. *)
SaveInMemory(o) ==
  /\ connecting[o] = "asked"
  /\ promise[o] = "resolved" /\ answer[o].kind = "authorize"
  /\ current' = answer[o].passkey
  /\ connecting' = [connecting EXCEPT ![o] = "done"]
  /\ UNCHANGED <<popupVars, stored>>

(* connect() after its two awaits.  The proof verifies: the page signed    *)
(* the nonce it was sent, with the key whose address it returned.          *)
Save(o) ==
  /\ connecting[o] = "asked"
  /\ promise[o] = "resolved" /\ answer[o].kind = "authorize"
  /\ current' = answer[o].passkey
  /\ stored' = answer[o].passkey
  /\ connecting' = [connecting EXCEPT ![o] = "done"]
  /\ UNCHANGED popupVars

Logout ==
  /\ current' = NoPasskey
  /\ stored' = NoPasskey
  /\ UNCHANGED <<popupVars, connecting>>

(* account(), when what storage holds is unusable.                         *)
DropUnusable == Account = Garbage /\ Logout

(* A reload of the app: what awaited is gone, storage is not.              *)
AppReload ==
  /\ DropPending /\ Trouble
  /\ current' = NoPasskey
  /\ connecting' = [o \in Opens |-> IF connecting[o] = "asked" THEN "lost" ELSE connecting[o]]
  /\ UNCHANGED stored

Next ==
  \/ ChannelStep /\ UNCHANGED connectionVars
  \/ \E o \in Opens : Connect(o) \/ Save(o)
  \/ \E o \in Opens, kind \in Kinds \ {"authorize"} : SignWithVault(o, kind)
  \/ Logout
  \/ DropUnusable
  \/ AppReload

Spec == Init /\ [][Next]_vars
=============================================================================
