-------------------------- MODULE SigningPageSafety --------------------------
(***************************************************************************)
(* What a signing page promises: the screen and the signature describe the *)
(* same thing, what it warns of is what is dangerous, the rows of a        *)
(* simulation add up, a signature is one the wallet accepts, and no secret *)
(* outlives its gesture.                                                   *)
(***************************************************************************)
EXTENDS SigningPage

Stages == {"closed", "decode", "simulate", "consent", "assert", "derive", "sign", "answered"}

(* Type invariant. *)
SigningTypeOK ==
  /\ stage \in Stages /\ rejectOnly \in BOOLEAN
  /\ asked \in Credentials \cup {"any"} /\ holder \in Credentials /\ secrets \subseteq {"prf", "key"}
  /\ \A i \in DOMAIN lines : lines[i].severity \in {"info", "caution", "danger"}
  /\ answer.kind \in {"none", "user_rejected", "signature"}
  /\ (stage = "answered") = (answer # NoAnswer)

-----------------------------------------------------------------------------
(* What the chain does with what is signed, in the terms of the screen.    *)

CommitsCall(call) ==
  LET data == call.data
  IN CASE data.fn = "transfer" -> {<<"erc20-transfer", call.to, data.who, data.amount>>}
       [] data.fn = "approve" -> {<<"erc20-approve", call.to, data.who, data.amount>>}
       [] data.fn = "increaseAllowance" -> {<<"erc20-increase-allowance", call.to, data.who, data.amount>>}
       [] data.fn = "transferFrom" -> {<<"erc20-transfer-from", call.to, data.from, data.who, data.amount>>}
       [] data.fn = "setApprovalForAll" -> {<<"erc721-approve-all", call.to, data.who, data.approved>>}
       [] data.fn = "empty" /\ call.value > 0 -> {<<"native", call.to, call.value>>}
       [] OTHER -> {<<"raw", call.to, call.value, data>>}

(* Typed data whose message is the wallet's batch.                         *)
SignsBatch == request.typedData.message.fields = {"feeCalls", "userCalls", "nonce", "deadline"}

SignedCalls ==
  CASE request.op \in {"signTransaction", "signSend"} ->
         Executed([account |-> request.from,
                   calls |-> <<[to |-> request.tx.to, value |-> request.tx.value, data |-> request.tx.data]>>])
    [] request.op = "signUserOp" ->
         Executed([account |-> request.sender,
                   calls |-> <<[to |-> request.sender, value |-> 0, data |-> request.data]>>])
    [] request.op \in {"signTypedData", "signSponsored"} ->
         IF SignsBatch
         THEN request.typedData.message.feeCalls \o request.typedData.message.userCalls ELSE <<>>
    [] OTHER -> <<>>

CommitsDelegation ==
  IF Authorization(request)
  THEN {<<"delegate", IF request.address # NoAddress THEN request.address ELSE request.contractAddress>>}
  ELSE {}

Commits == (UNION {CommitsCall(SignedCalls[i]) : i \in DOMAIN SignedCalls}) \cup CommitsDelegation

Shown == UNION {lines[i].facts : i \in DOMAIN lines}

(* What the send engine asks for: the wallet's call of its own batch, whose *)
(* calls pay only as payments, with the address of an implementation.      *)
OfTheEngine ==
  /\ request.op \in {"signSend", "signUserOp"} /\ request.contractAddress = NoAddress
  /\ request.op = "signSend" => request.tx.to = request.from /\ request.tx.value = 0
  /\ \A i \in DOMAIN SignedCalls : SignedCalls[i].value > 0 => SignedCalls[i].data.fn \in {"empty", "other"}

(* For a request of the send engine the screen leaves nothing out: every   *)
(* call, with its parties and its amount, and the delegation of the wallet *)
(* are on it before it can be approved, nested or not, simulated or not.   *)
EngineRequestsAreShown == OfTheEngine /\ stage \in {"consent", "assert", "derive", "sign"} => Commits \subseteq Shown

Unlimited(call) ==
  \/ call.data.fn \in {"approve", "increaseAllowance"} /\ call.data.amount >= UnlimitedFrom
  \/ call.data.fn = "setApprovalForAll" /\ call.data.approved

(* An approval without limit, by a call the user makes or by a signature   *)
(* alone, and a delegation make the screen a dangerous one, which asks for *)
(* an acknowledgement: whatever else is on it, and whatever the simulation *)
(* found.  A typed message with the four fields of the wallet's batch is   *)
(* judged by its calls, any other by its type.                             *)
DangerIsMarked ==
  stage \in {"assert", "derive", "sign"} =>
    \/ HighestSeverity(lines) = "danger"
    \/ /\ ~(Authorization(request) /\ request.address # NoAddress)
       /\ request.op \in {"signTransaction", "signSend", "signUserOp"} =>
            ~\E i \in DOMAIN SignedCalls : Unlimited(SignedCalls[i])
       /\ request.op \in {"signTypedData", "signSponsored"} =>
            IF SignsBatch
            THEN ~\E call \in Range(request.typedData.message.userCalls) : Unlimited(call)
            ELSE request.typedData.primaryType \notin DangerousPrimaryTypes

-----------------------------------------------------------------------------
(* The sum of a list of amounts. *)
Total(s) ==
  LET sum[n \in 0 .. Len(s)] == IF n = 0 THEN 0 ELSE sum[n - 1] + s[n]
  IN sum[Len(s)]

Gain(log, account, token, id) ==
  LET total == Total([k \in DOMAIN log.moved |-> IF log.moved[k].id = id THEN log.moved[k].amount ELSE 0])
  IN IF log.token # token \/ ~log.intact THEN 0
     ELSE (IF log.to = account THEN total ELSE 0) - (IF log.from = account THEN total ELSE 0)

(* A row shows one gain or loss. *)
RowGain(line, token, id) ==
  LET shown == {f \in line.facts : f[1] = "delta" /\ f[2].token = token /\ f[2].id = id}
      delta == (CHOOSE f \in shown : TRUE)[2]
  IN IF shown = {} THEN 0 ELSE IF delta.direction = "in" THEN delta.amount ELSE 0 - delta.amount

(* The rows below the request add up, for each token that moved, to what   *)
(* the wallet gains or loses in the simulated run: batches of a            *)
(* multi-token transfer, transfers others make, and events that are not    *)
(* transfers included.  A transfer of the wallet to itself is not among    *)
(* them: it is shown as sent.                                              *)
RowsAddUp ==
  LET account == SimulationPayloadFor(request).account
      logs == outcome.logs
  IN stage \notin {"closed", "decode"} /\ (\A i \in DOMAIN logs : logs[i].from # logs[i].to) =>
       \A i \in DOMAIN logs : \A k \in DOMAIN logs[i].moved :
         LET token == logs[i].token  id == logs[i].moved[k].id
         IN token # NoAddress =>
              Total([n \in DOMAIN lines |-> RowGain(lines[n], token, id)])
                = Total([n \in DOMAIN logs |-> Gain(logs[n], account, token, id)])

-----------------------------------------------------------------------------
(* What the wallet contract accepts of a signature by one of its keys.     *)
Accepted(r, signature) ==
  LET root == signature.by = signature.on
  IN /\ signature.authorization => root
     /\ r.op \in {"signMessage", "signSiwe", "signTypedData", "signAuthorization"} => root
     /\ r.op = "signUserOp" => signature.wrapped = ~root

(* The page does not hand out a signature its wallet will turn down, by    *)
(* the founding key or one of the roster, asked for or fallen back to.     *)
(* The op of the former sponsored rail, which no client sends any more, is *)
(* not refused to a roster key.                                            *)
SignaturesAreAccepted ==
  answer.kind = "signature" /\ request.op # "signSponsored" => Accepted(request, answer)

(* Once a gesture is over, however it ended, no secret of it is left.      *)
SecretsEndWithTheGesture == secrets # {} => stage \in {"derive", "sign"}

(* What every stage of the page keeps: types, the end of secrets, and      *)
(* signatures the wallet takes.                                            *)
SigningInv ==
  /\ SigningTypeOK
  /\ SecretsEndWithTheGesture
  /\ SignaturesAreAccepted
=============================================================================
