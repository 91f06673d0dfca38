--------------------------- MODULE NonceAllocator ---------------------------
(***************************************************************************)
(* The sequential allocator of intent nonces (core/src/nonce.ts).          *)
(*                                                                         *)
(* A page runs one allocation at a time through its promise chain, tail.   *)
(* An allocation takes the number after the last one the page allocated,   *)
(* or, in a page that allocated none for the wallet yet, the number in     *)
(* storage; it writes the next number to storage, and returns its own only *)
(* when the write has ended.  Pages of one origin share a store; nothing   *)
(* orders their reads and writes.                                          *)
(***************************************************************************)
EXTENDS Naturals

CONSTANTS
  Jobs,      \* the calls of simulate and send
  Pages,     \* documents an allocator lives in
  Stores,    \* what the pages of one origin on one device share
  StoreOf,   \* the store of a page
  Wallets,   \* wallet addresses
  NoJob,     \* a page that is allocating nothing
  Unset      \* a counter that was not read, a number that was not handed out

VARIABLES
  counters,  \* the next number of each wallet, in the memory of a page
  stored,    \* the next number of each wallet, in a store
  tail,      \* the allocation a page is running
  current    \* the number an allocation took

allocVars == <<counters, stored, tail, current>>

AllocInit ==
  /\ counters = [p \in Pages |-> [w \in Wallets |-> Unset]]
  /\ stored = [s \in Stores |-> [w \in Wallets |-> 0]]
  /\ tail = [p \in Pages |-> NoJob]
  /\ current = [j \in Jobs |-> Unset]

(* Job j of page p takes number n for wallet w: memory first. *)
Take(j, p, w, n) ==
  /\ current' = [current EXCEPT ![j] = n]
  /\ counters' = [counters EXCEPT ![p][w] = n + 1]

(* The first number a page allocates for a wallet is read from the store. *)
NextFromMemory(j, p, w) ==
  /\ tail[p] = NoJob /\ counters[p][w] # Unset
  /\ tail' = [tail EXCEPT ![p] = j]
  /\ Take(j, p, w, counters[p][w])
  /\ UNCHANGED stored

NextFromStore(j, p, w) ==
  /\ tail[p] = NoJob /\ counters[p][w] = Unset
  /\ tail' = [tail EXCEPT ![p] = j]
  /\ UNCHANGED <<counters, stored, current>>

Loaded(j, p, w) ==
  /\ tail[p] = j
  /\ Take(j, p, w, stored[StoreOf[p]][w])
  /\ UNCHANGED <<stored, tail>>

(* Mutant: the number itself is written, not the next one. *)
PersistedSame(j, p, w) ==
  /\ tail[p] = j
  /\ stored' = [stored EXCEPT ![StoreOf[p]][w] = current[j]]
  /\ tail' = [tail EXCEPT ![p] = NoJob]
  /\ UNCHANGED <<counters, current>>

(* The write ends, and with it the allocation; the next one may start. *)
Persisted(j, p, w) ==
  /\ tail[p] = j
  /\ stored' = [stored EXCEPT ![StoreOf[p]][w] = current[j] + 1]
  /\ tail' = [tail EXCEPT ![p] = NoJob]
  /\ UNCHANGED <<counters, current>>

(* The write fails: the allocation rejects and its number is skipped. *)
PersistFailed(j, p) ==
  /\ tail[p] = j
  /\ tail' = [tail EXCEPT ![p] = NoJob]
  /\ UNCHANGED <<counters, stored, current>>

(* A new document starts with an empty map; a write in flight may land. *)
AllocReload(p, walletOf) ==
  /\ counters' = [counters EXCEPT ![p] = [w \in Wallets |-> Unset]]
  /\ tail' = [tail EXCEPT ![p] = NoJob]
  /\ \/ UNCHANGED stored
     \/ /\ tail[p] # NoJob /\ current[tail[p]] # Unset
        /\ stored' = [stored EXCEPT ![StoreOf[p]][walletOf[tail[p]]] = current[tail[p]] + 1]
  /\ UNCHANGED current
=============================================================================
