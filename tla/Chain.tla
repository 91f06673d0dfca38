------------------------------- MODULE Chain --------------------------------
(***************************************************************************)
(* What the send engine meets on the other side of its RPC and bundler     *)
(* endpoints: accounts with nonces and EIP-7702 code, a pool of signed     *)
(* transactions, a pool of user operations, and what was mined.            *)
(*                                                                         *)
(* This is not code of the repository: it is the chain as the engine uses  *)
(* it.  A transaction is identified by its content, as its hash does.      *)
(***************************************************************************)
EXTENDS Naturals, FiniteSets

CONSTANTS
  Keys,      \* externally owned accounts: one per passkey
  WalletOf,  \* the wallet a key signs for; its own address for a founding key
  NoAuth     \* a transaction without an EIP-7702 authorization

VARIABLES
  count,     \* the account nonce of a key's address, as mined
  opCount,   \* the EntryPoint nonce of a wallet
  delegated, \* the wallets whose code delegates to AvokCalibur
  pool,      \* signed transactions known to some node
  opPool,    \* user operations known to the bundler
  mined      \* [what, fate] of every transaction and operation included

chainVars == <<count, opCount, delegated, pool, opPool, mined>>

Founding == {k \in Keys : WalletOf[k] = k}
FateOf(x) == {m.fate : m \in {r \in mined : r.what = x}}

ChainInit ==
  /\ count = [k \in Keys |-> 0]
  /\ opCount = [w \in Founding |-> 0]
  /\ delegated \in SUBSET Founding
  /\ pool = {} /\ opPool = {} /\ mined = {}

(* A transaction of key k with an authorization by the same key: the       *)
(* sender's nonce is incremented first, and the authorization is processed *)
(* against the incremented one.  A stale one is skipped, not an error.     *)
Applies(k, auth, nonce) == auth # NoAuth /\ auth = nonce

(* A node takes a transaction whose nonce is not used and not taken by     *)
(* another one it knows, or lets it replace that one.                      *)
TooLow(t) == t.nonce < count[t.from]
Taken(t) == \E u \in pool : u.from = t.from /\ u.nonce = t.nonce
Rivals(t) == {u \in pool : u.from = t.from /\ u.nonce = t.nonce}

Admit(t) ==
  /\ ~TooLow(t)
  /\ pool' = (pool \ Rivals(t)) \cup {t}

(* What a mined transaction does to the wallet it calls: the calls run or  *)
(* revert where AvokCalibur is, and accepts the sender; a call to an       *)
(* account without code succeeds and runs nothing.                         *)
Fates(to, from, accounts) ==
  IF to \notin accounts THEN {"nothing"}
  ELSE IF WalletOf[from] = to THEN {"executed", "reverted"} ELSE {"reverted"}

Mine(t) ==
  LET bumped == [count EXCEPT ![t.from] = @ + 1]
      applies == Applies(t.from, t.auth, bumped[t.from])
      accounts == IF applies THEN delegated \cup {t.from} ELSE delegated
  IN /\ t \in pool /\ t.nonce = count[t.from]
     /\ count' = IF applies THEN [bumped EXCEPT ![t.from] = @ + 1] ELSE bumped
     /\ delegated' = accounts
     /\ \E fate \in Fates(t.to, t.from, accounts) :
          mined' = mined \cup {[what |-> t, fate |-> fate]}
     /\ pool' = {u \in pool : u.nonce >= count'[u.from]}
     /\ UNCHANGED <<opCount, opPool>>

(* The EntryPoint takes an operation that is signed by a key of its        *)
(* sender, has the next nonce, and meets the account's code - there        *)
(* already, or brought by the authorization of the bundler's transaction.  *)
OpValid(o) ==
  /\ WalletOf[o.signer] = o.sender
  /\ o.nonce = opCount[o.sender]
  /\ o.sender \in delegated \/ Applies(o.signer, o.auth, count[o.sender])

Include(o) ==
  /\ o \in opPool /\ OpValid(o)
  /\ opCount' = [opCount EXCEPT ![o.sender] = @ + 1]
  /\ IF Applies(o.signer, o.auth, count[o.sender])
     THEN /\ count' = [count EXCEPT ![o.sender] = @ + 1]
          /\ delegated' = delegated \cup {o.sender}
     ELSE UNCHANGED <<count, delegated>>
  /\ \E fate \in {"executed", "reverted"} :
       mined' = mined \cup {[what |-> o, fate |-> fate]}
  /\ opPool' = opPool \ {o}
  /\ pool' = {u \in pool : u.nonce >= count'[u.from]}

(* The bundler gives up on an operation that became invalid. *)
Drop(o) ==
  /\ o \in opPool /\ ~OpValid(o)
  /\ opPool' = opPool \ {o}
  /\ UNCHANGED <<count, opCount, delegated, pool, mined>>

ChainStep == (\E t \in pool : Mine(t)) \/ (\E o \in opPool : Include(o) \/ Drop(o))
=============================================================================
