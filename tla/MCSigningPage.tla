---------------------------- MODULE MCSigningPage ----------------------------
(* A small instance of the signing page: a founding key, a key of its      *)
(* roster and a garbled passkey; tokens T (registered), U and a collection *)
(* N; batches of up to two calls.  Two versions of the contracts, deployed *)
(* to Base or to Sepolia, of which one may be named and the other meant.   *)
EXTENDS DelegatedSend

W == "W"  Bob == "Bob"  Impl == "Impl"  Dapp == "Dapp"
Small == 1
Large == UnlimitedFrom

Call(to, value, data) == [to |-> to, value |-> value, data |-> data]
Empty == [fn |-> "empty"]
Calls ==
  {Call(t, 0, [fn |-> "transfer", who |-> Bob, amount |-> Small]) : t \in {"T", "U"}} \cup
  {Call("T", 0, [fn |-> f, who |-> Bob, amount |-> n]) : f \in {"approve", "increaseAllowance"}, n \in {Small, Large}} \cup
  {Call("U", 0, [fn |-> "transferFrom", from |-> Bob, who |-> W, amount |-> Small]),
   Call("N", 0, [fn |-> "setApprovalForAll", who |-> Bob, approved |-> TRUE]),
   Call("N", 0, [fn |-> "setApprovalForAll", who |-> Bob, approved |-> FALSE]),
   Call(Bob, 1, Empty), Call(Bob, 0, Empty), Call(Dapp, 1, [fn |-> "other"]),
   Call("T", 1, [fn |-> "transfer", who |-> Bob, amount |-> Small])}

Batches == {<<>>} \cup {<<c>> : c \in Calls} \cup {<<c, d>> : c, d \in Calls}
Batch(calls) == [fn |-> "execute", calls |-> calls]

Tx(to, value, data, chain) ==
  [to |-> to, value |-> value, data |-> data, chain |-> chain, gas |-> 2, maxFeePerGas |-> 3]

Sends ==
  {[op |-> "signSend", from |-> W, tx |-> Tx(W, 0, Batch(b), 1), address |-> a, contractAddress |-> NoAddress] :
    b \in Batches, a \in {NoAddress, Impl}} \cup
  {[op |-> "signUserOp", sender |-> W, chain |-> 1, data |-> Batch(b), address |-> a, contractAddress |-> NoAddress] :
    b \in Batches, a \in {NoAddress, Impl}}

Transactions ==
  {[op |-> "signTransaction", from |-> W, tx |-> Tx(to, v, d, chain), address |-> NoAddress, contractAddress |-> NoAddress] :
    to \in {W, Dapp, NoAddress}, v \in {0, 1}, chain \in {1, 2, NoChain},
    d \in {Empty, [fn |-> "other"], [fn |-> "executeOpaque"], Batch(<<Call(Bob, 1, Empty)>>),
           [fn |-> "approve", who |-> Bob, amount |-> Large]}}

BatchFields == {"feeCalls", "userCalls", "nonce", "deadline"}
Message(fields, fee, user, values) ==
  [fields |-> fields, feeCalls |-> fee, userCalls |-> user, values |-> values]
TypedData ==
  {[chain |-> c, contract |-> w, primaryType |-> "Batch", message |-> Message(BatchFields, fee, user, <<>>)] :
    c \in {1, NoChain}, w \in {W, NoAddress},
    fee \in {<<>>} \cup {<<f>> : f \in Calls}, user \in {<<>>} \cup {<<u>> : u \in Calls}} \cup
  {[chain |-> 1, contract |-> Dapp, primaryType |-> p, message |-> Message(fields, <<>>, <<>>, values)] :
    p \in {"Permit", "PermitSingle", "Mail"}, fields \in {{"owner", "value"}, BatchFields \cup {"spender", "value"}},
    values \in {<<Small>>, <<-1, Large>>}}

TwoFees ==
  {[op |-> "signTypedData",
    typedData |-> [chain |-> 1, contract |-> W, primaryType |-> "Batch",
                   message |-> Message(BatchFields, <<f, f>>, <<>>, <<>>)]] : f \in Calls}

Others ==
  {[op |-> "signMessage", message |-> "m"], [op |-> "signSiwe", params |-> "p"]} \cup
  {[op |-> "signTypedData", typedData |-> td] : td \in TypedData} \cup
  {[op |-> "signSponsored", typedData |-> td, address |-> a, contractAddress |-> NoAddress] :
    td \in TypedData, a \in {NoAddress, Impl}} \cup
  {[op |-> "signAuthorization", address |-> a, contractAddress |-> b] : a, b \in {NoAddress, Impl}}

MCRequests == Sends \cup Transactions \cup Others \cup TwoFees

Moved(event, from, to, moved) ==
  [event |-> event, token |-> "N", from |-> from, to |-> to, moved |-> moved,
   amount |-> 0, approved |-> FALSE, intact |-> TRUE]
Item(id, amount) == [id |-> id, amount |-> amount]
MCOtherLogs ==
  {Moved("Transfer721", Bob, W, <<Item(7, 1)>>), Moved("Transfer721", W, Bob, <<Item(7, 1)>>),
   Moved("TransferSingle", W, Bob, <<Item(7, 2)>>),
   Moved("TransferBatch", Bob, W, <<Item(7, 2), Item(8, 1)>>),
   Moved("Transfer20", Bob, Dapp, <<Item(0, 2)>>),
   [Moved("Transfer20", Bob, W, <<Item(0, 2)>>) EXCEPT !.intact = FALSE],
   Moved("Swapped", Bob, W, <<>>)}

MCCredentials == {"founder", "device", "stray"}
MCKeyOf == [c \in MCCredentials |-> CASE c = "founder" -> W [] c = "device" -> "D" [] OTHER -> "S"]
MCHandleOf == [c \in MCCredentials |-> CASE c = "founder" -> "self" [] c = "device" -> W [] OTHER -> "garbled"]
Run(chain, rpc, dryRun, force, account, envKey) ==
  [chain |-> chain, rpc |-> rpc, dryRun |-> dryRun, force |-> force, account |-> account, envKey |-> envKey]
MCRuns ==
  {Run("base", 8453, FALSE, TRUE, "name", FALSE), Run("sepolia", 8453, FALSE, FALSE, "none", TRUE),
   Run("base", 11155111, FALSE, FALSE, "name", FALSE),
   Run("base", 8453, TRUE, FALSE, "name", FALSE), Run("base", 8453, FALSE, TRUE, "0xkey", TRUE),
   Run("robinhood", 8453, FALSE, FALSE, "name", FALSE)}
MCVersions == <<"v1", "v2">>
MCTyped == {"logic"}
MCElsewhere == {<<8453, "logic">>}
MCUserCalls == {<<Call("U", 0, [fn |-> "transfer", who |-> Bob, amount |-> Small])>>}
=============================================================================
