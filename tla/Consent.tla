------------------------------- MODULE Consent -------------------------------
(***************************************************************************)
(* What the vault reads out of a signing request, and the lines it shows   *)
(* (core/src/auth-popup/sign: consent.ts, consent-display.ts, danger.ts).  *)
(*                                                                         *)
(* Calldata is the function it calls and its arguments.  The text of a     *)
(* line is left out: a line is the facts a reader learns from it, and how  *)
(* alarming it is.                                                         *)
(***************************************************************************)
EXTENDS Integers, Sequences, SequencesExt

CONSTANTS
  Registered,    \* the tokens of the registry, shown by symbol and amount
  UnlimitedFrom, \* amounts from here on are as good as unlimited
  NoChain,       \* stands for a chain id that is missing
  NoAddress      \* stands for an address that is missing

(* The primary types that grant spending by signature alone.               *)
DangerousPrimaryTypes == {"Permit", "PermitSingle", "PermitBatch", "PermitTransferFrom", "PermitBatchTransferFrom"}

(* What is no number is not unlimited; text stands for it as -1.           *)
IsUnlimitedAmount(n) == n >= UnlimitedFrom

Info(facts) == [facts |-> facts, severity |-> "info"]
Caution(facts) == [facts |-> facts, severity |-> "caution"]
Danger(facts) == [facts |-> facts, severity |-> "danger"]

HighestSeverity(lines) ==
  LET severities == {lines[i].severity : i \in DOMAIN lines}
  IN IF "danger" \in severities THEN "danger"
     ELSE IF "caution" \in severities THEN "caution" ELSE "info"

-----------------------------------------------------------------------------
(* Decoding a call: five functions of tokens are known, a payment has no   *)
(* calldata, and everything else is raw.                                   *)

KindOf ==
  [transfer |-> "erc20-transfer", approve |-> "erc20-approve",
   transferFrom |-> "erc20-transfer-from", setApprovalForAll |-> "erc721-approve-all",
   increaseAllowance |-> "erc20-increase-allowance"]

DecodeCall(call) ==
  [kind |-> IF call.data.fn \in DOMAIN KindOf THEN KindOf[call.data.fn]
            ELSE IF call.value > 0 /\ call.data.fn = "empty" THEN "native" ELSE "raw",
   symbol |-> call.to \in Registered,
   call |-> call]

DecodeCalls(calls) == [i \in DOMAIN calls |-> DecodeCall(calls[i])]

FirstOf(calls) == [i \in DOMAIN calls \cap {1} |-> calls[i]]

(* Mutant: of a batch only the first call is read. *)
UnwrapFirst(call) ==
  IF call.data.fn = "execute" THEN DecodeCalls(FirstOf(call.data.calls)) ELSE <<DecodeCall(call)>>

(* execute(mode, calls) is the wallet's own batch.  One that does not      *)
(* decode is a call like any other.                                        *)
UnwrapWalletBatch(call) ==
  IF call.data.fn = "execute" THEN DecodeCalls(call.data.calls) ELSE <<DecodeCall(call)>>

(* Mutant: only what the batch needs is looked for, and more is let pass.  *)
HasBatchFields(message) == {"userCalls", "feeCalls"} \subseteq message.fields

(* A typed message is Avok's batch if it has its four fields and no other. *)
IsAvokBatchTypedData(message) == message.fields = {"feeCalls", "userCalls", "nonce", "deadline"}

(* What decoding returns where the code throws.                            *)
Undecodable == [op |-> "undecodable"]

DecodeTypedData(td) ==
  IF td.chain = NoChain THEN Undecodable
  ELSE IF ~IsAvokBatchTypedData(td.message)
  THEN [op |-> "signTypedDataGeneric", primaryType |-> td.primaryType, values |-> td.message.values]
  ELSE [op |-> "signTypedData", calls |-> DecodeCalls(td.message.userCalls),
        fee |-> IF td.message.feeCalls = <<>> THEN <<>> ELSE <<DecodeCall(Last(td.message.feeCalls))>>]

(* A missing recipient reads as the zero address.  The ceiling of the fee  *)
(* is there when both factors of it are.                                   *)
DecodeTx(tx) ==
  [calls |-> UnwrapWalletBatch([to |-> tx.to, value |-> tx.value, data |-> tx.data]),
   maxFee |-> IF tx.gas # 0 /\ tx.maxFeePerGas # 0 THEN <<tx.gas * tx.maxFeePerGas>> ELSE <<>>]

DecodeSignConsent(request) ==
  CASE request.op = "signMessage" -> [op |-> "signMessage", message |-> request.message]
    [] request.op = "signSiwe" -> [op |-> "signSiwe", params |-> request.params]
    [] request.op = "signTypedData" -> DecodeTypedData(request.typedData)
    [] request.op = "signAuthorization" ->
         LET implementation == IF request.address # NoAddress THEN request.address ELSE request.contractAddress
         IN IF implementation = NoAddress THEN Undecodable
            ELSE [op |-> "signAuthorization", delegation |-> implementation]
    [] request.op \in {"signTransaction", "signSend"} ->
         [op |-> request.op, tx |-> DecodeTx(request.tx), delegation |-> request.address]
    [] request.op = "signUserOp" ->
         [op |-> "signUserOp", delegation |-> request.address,
          calls |-> UnwrapWalletBatch([to |-> request.sender, value |-> 0, data |-> request.data])]
    [] request.op = "signSponsored" ->
         LET view == DecodeTypedData(request.typedData)
         IN IF view.op # "signTypedData" THEN Undecodable
            ELSE [op |-> "signSponsored", view |-> view, delegation |-> request.address]

-----------------------------------------------------------------------------
(* The lines.  A token of the registry is shown as an amount of a symbol,  *)
(* another one by its address and base units, which is a caution.          *)

CallFacts(line) ==
  LET call == line.call  data == call.data
  IN CASE line.kind \in {"erc20-transfer", "erc20-approve", "erc20-increase-allowance"} ->
            {<<line.kind, call.to, data.who, data.amount>>}
       [] line.kind = "erc20-transfer-from" -> {<<line.kind, call.to, data.from, data.who, data.amount>>}
       [] line.kind = "erc721-approve-all" -> {<<line.kind, call.to, data.who, data.approved>>}
       [] line.kind = "native" -> {<<"native", call.to, call.value>>}
       [] line.kind = "raw" -> {<<"raw", call.to, call.value, data>>}

CallLine(line) ==
  LET facts == CallFacts(line)  data == line.call.data
  IN IF line.kind = "erc721-approve-all" THEN (IF data.approved THEN Danger(facts) ELSE Info(facts))
     ELSE IF line.kind \in {"erc20-approve", "erc20-increase-allowance"} /\ IsUnlimitedAmount(data.amount)
          THEN Danger(facts)
     ELSE IF line.kind = "raw" \/ (line.kind # "native" /\ ~line.symbol) THEN Caution(facts)
     ELSE Info(facts)

(* A fee is named by its amount alone, whatever the call behind it does.   *)
FeeLine(line) ==
  LET data == line.call.data
  IN IF line.kind = "erc721-approve-all" THEN Caution({<<"fee", line.call.to, 0>>})
     ELSE IF line.kind \in {"native", "raw"} THEN Info({<<"fee", "native", line.call.value>>})
     ELSE IF line.symbol THEN Info({<<"fee", line.call.to, data.amount>>})
     ELSE Caution({<<"fee", line.call.to, data.amount>>})

Lines(decoded) == [i \in DOMAIN decoded |-> CallLine(decoded[i])]
ChainLine == Info({})

ViewLines(calls, fee, maxFee) ==
  <<ChainLine>> \o Lines(calls)
    \o (IF fee # <<>> THEN <<FeeLine(fee[1])>>
        ELSE IF maxFee # <<>> THEN <<Info({<<"at most", maxFee[1]>>})>> ELSE <<>>)

DelegationLines(implementation) ==
  IF implementation = NoAddress THEN <<>> ELSE <<Danger({<<"delegate", implementation>>})>>

(* An unlimited amount in a field is a warning like the type itself.       *)
ValueLine(value) ==
  IF IsUnlimitedAmount(value) THEN Danger({<<"value", value>>}) ELSE Info({<<"value", value>>})

GenericLines(view) ==
  (IF view.primaryType \in DangerousPrimaryTypes THEN <<Danger({})>> ELSE <<>>)
    \o <<Info({<<"type", view.primaryType>>})>>
    \o [i \in DOMAIN view.values |-> ValueLine(view.values[i])]

FormatConsentDisplay(consent) ==
  CASE consent.op = "signMessage" -> <<Info({<<"message", consent.message>>})>>
    [] consent.op = "signSiwe" -> <<Info({<<"siwe", consent.params>>})>>
    [] consent.op = "signTypedDataGeneric" -> GenericLines(consent)
    [] consent.op = "signTypedData" -> ViewLines(consent.calls, consent.fee, <<>>)
    [] consent.op = "signAuthorization" -> DelegationLines(consent.delegation)
    [] consent.op = "signTransaction" -> ViewLines(consent.tx.calls, <<>>, consent.tx.maxFee)
    [] consent.op = "signSend" ->
         DelegationLines(consent.delegation) \o ViewLines(consent.tx.calls, <<>>, consent.tx.maxFee)
    [] consent.op = "signUserOp" ->
         DelegationLines(consent.delegation) \o ViewLines(consent.calls, <<>>, <<>>)
    [] consent.op = "signSponsored" ->
         DelegationLines(consent.delegation) \o ViewLines(consent.view.calls, consent.view.fee, <<>>)

-----------------------------------------------------------------------------
(***************************************************************************)
(* What the vault learns from simulating a request before it is approved   *)
(* (core/src/vault/simulate and core/src/auth-popup/sign/simulate-payload).*)
(*                                                                         *)
(* A log is its event with its arguments; intact is whether its data has   *)
(* the shape of the event.  What an endpoint answers is an outcome: no     *)
(* answer, a revert, or the logs of the calls.                             *)
(***************************************************************************)

NoPayload == [account |-> NoAddress, chain |-> NoChain, calls |-> <<>>]

(* The outer call of the wallet to itself is simulated as it will be sent. *)
PayloadForTx(tx) ==
  IF tx.to = NoAddress \/ tx.chain = NoChain THEN NoPayload
  ELSE [account |-> tx.to, chain |-> tx.chain,
        calls |-> <<[to |-> tx.to, value |-> tx.value, data |-> tx.data]>>]

(* A typed batch is flat: its calls are simulated as if the wallet made    *)
(* them, the fees first.                                                   *)
PayloadForAvokBatch(td) ==
  IF ~IsAvokBatchTypedData(td.message) \/ td.contract = NoAddress \/ td.chain = NoChain THEN NoPayload
  ELSE [account |-> td.contract, chain |-> td.chain, calls |-> td.message.feeCalls \o td.message.userCalls]

SimulationPayloadFor(request) ==
  CASE request.op \in {"signTransaction", "signSend"} -> PayloadForTx(request.tx)
    [] request.op = "signUserOp" ->
         [account |-> request.sender, chain |-> request.chain,
          calls |-> <<[to |-> request.sender, value |-> 0, data |-> request.data]>>]
    [] request.op \in {"signTypedData", "signSponsored"} -> PayloadForAvokBatch(request.typedData)
    [] OTHER -> NoPayload

-----------------------------------------------------------------------------
(* Mutant: who receives is asked first. *)
DirectionInFirst(account, log) ==
  IF log.to = account THEN "out" ELSE IF log.from = account THEN "in" ELSE "none"

DirectionFor(account, log) ==
  IF log.from = account THEN "out" ELSE IF log.to = account THEN "in" ELSE "none"

KindOfTransfer == [Transfer20 |-> "erc20", Transfer721 |-> "erc721",
                   TransferSingle |-> "erc1155", TransferBatch |-> "erc1155"]

(* A transfer of the account is a row for each token it moves, of a batch  *)
(* as of a single one; a log that does not decode is skipped.              *)
DeltasOfLog(log, account) ==
  LET direction == DirectionFor(account, log)
  IN IF log.event \notin DOMAIN KindOfTransfer \/ ~log.intact \/ direction = "none" THEN <<>>
     ELSE [i \in DOMAIN log.moved |->
            [kind |-> KindOfTransfer[log.event], token |-> log.token, id |-> log.moved[i].id,
             amount |-> log.moved[i].amount, direction |-> direction]]

ApprovalsOfLog(log) ==
  IF log.event \notin {"Approval", "ApprovalForAll"} \/ ~log.intact THEN <<>>
  ELSE <<[token |-> log.token, spender |-> log.to, all |-> log.event = "ApprovalForAll",
          amount |-> log.amount, approved |-> log.approved]>>

NativeDelta(call) ==
  IF call.value > 0
  THEN <<[kind |-> "native", token |-> NoAddress, id |-> 0, amount |-> call.value, direction |-> "out"]>>
  ELSE <<>>

NativeDeltas(calls) == FlattenSeq([i \in DOMAIN calls |-> NativeDelta(calls[i])])

(* simulateRequest: an endpoint that does not answer verifies nothing, one *)
(* failed call is a revert of the whole, and else the logs are read.       *)
SimulateRequest(payload, outcome) ==
  IF outcome.status # "answered" THEN [status |-> "unsimulated", deltas |-> <<>>, approvals |-> <<>>]
  ELSE IF outcome.failed THEN [status |-> "reverted", deltas |-> <<>>, approvals |-> <<>>]
  ELSE [status |-> "simulated",
        deltas |-> NativeDeltas(payload.calls)
          \o FlattenSeq([i \in DOMAIN outcome.logs |-> DeltasOfLog(outcome.logs[i], payload.account)]),
        approvals |-> FlattenSeq([i \in DOMAIN outcome.logs |-> ApprovalsOfLog(outcome.logs[i])])]

-----------------------------------------------------------------------------
(* The rows of a simulation, below the lines of the request.               *)

DeltaLine(delta) ==
  LET facts == {<<"delta", delta>>}
  IN IF delta.kind = "erc20" /\ delta.token \notin Registered THEN Caution(facts) ELSE Info(facts)

GrantLine(grant) ==
  LET facts == {<<"granted", grant.token, grant.spender>>}
  IN IF (grant.all /\ grant.approved) \/ (~grant.all /\ IsUnlimitedAmount(grant.amount))
     THEN Danger(facts) ELSE Info(facts)

SimulationDisplayLines(result) ==
  CASE result.status = "unsimulated" -> <<Caution({<<"not simulated">>})>>
    [] result.status = "reverted" -> <<Danger({<<"would fail">>})>>
    [] result.status = "simulated" ->
         [i \in DOMAIN result.deltas |-> DeltaLine(result.deltas[i])]
           \o [i \in DOMAIN result.approvals |-> GrantLine(result.approvals[i])]
=============================================================================
