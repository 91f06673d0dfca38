----------------------------- MODULE SigningPage -----------------------------
(***************************************************************************)
(* One signing request in the vault: decoded, simulated, shown, approved,  *)
(* signed with a key that lives for one gesture, answered (core/src/auth-  *)
(* popup: ceremony.ts, mount.ts, sign/perform-sign.ts; core/src/wallet:    *)
(* sandbox.ts, passkey).  How the request and the answer travel is in      *)
(* PopupChannel.                                                           *)
(*                                                                         *)
(* A credential is a passkey: the key derived from it, and what its user   *)
(* handle says of the wallet it signs for.                                 *)
(***************************************************************************)
EXTENDS Consent

CONSTANTS
  Requests,    \* the requests the page may be opened with
  ChainsOfVault, \* the chains the page has endpoints for
  Credentials, \* the passkeys of the device
  KeyOf,       \* the address of the key derived from each
  HandleOf,    \* what the handle of each says: "self", a wallet, or "garbled"
  Connected,   \* the credential the account of the app was connected with
  OtherLogs    \* the logs calls of unknown functions may leave

(* What is an array in the types of a request, or in an event, is a list;  *)
(* what is moved is a number; and only a transfer moves.                   *)
IsList(s) == s \in Seq(Range(s))

Amounts(data) == data.fn \in {"transfer", "transferFrom"} => data.amount \in Nat

Calldata(data) ==
  /\ Amounts(data)
  /\ data.fn = "execute" => IsList(data.calls) /\ \A call \in Range(data.calls) : Amounts(call.data)

SignRequest(r) ==
  /\ r.op \in {"signMessage", "signTypedData", "signSiwe", "signAuthorization",
               "signTransaction", "signSend", "signSponsored", "signUserOp"}
  /\ r.op \in {"signTypedData", "signSponsored"} =>
       /\ IsList(r.typedData.message.feeCalls) /\ IsList(r.typedData.message.userCalls)
       /\ IsList(r.typedData.message.values)
       /\ \A call \in Range(r.typedData.message.feeCalls) \cup Range(r.typedData.message.userCalls) :
            Calldata(call.data)
  /\ r.op \in {"signTransaction", "signSend"} => Calldata(r.tx.data)
  /\ r.op = "signUserOp" => Calldata(r.data)

ASSUME RequestsAssumption ==
  /\ \A r \in Requests : SignRequest(r)
  /\ \A log \in OtherLogs :
       /\ IsList(log.moved) /\ \A m \in Range(log.moved) : m.amount \in Nat
       /\ log.event \notin DOMAIN KindOfTransfer => log.moved = <<>>

ASSUME SigningAssumption ==
  /\ Connected \in Credentials
  /\ UnlimitedFrom \in Nat \ {0}

VARIABLES
  request,    \* the request of the page
  outcome,    \* what the endpoint answered to the simulation
  stage,      \* where the request is
  lines,      \* the lines of the consent screen
  rejectOnly, \* the screen offers no Approve
  asked,      \* the credential a gesture is constrained to, or "any"
  holder,     \* the credential that made the assertion
  secrets,    \* the secrets in memory
  answer      \* what was sent back

pageVars == <<request, outcome, lines, rejectOnly>>
gestureVars == <<asked, holder, secrets>>
vars == <<pageVars, stage, gestureVars, answer>>

NoOutcome == [status |-> "none", failed |-> FALSE, logs |-> <<>>]
NoAnswer == [kind |-> "none"]
Rejection == [kind |-> "user_rejected"]

Init ==
  /\ request \in Requests
  /\ outcome = NoOutcome /\ stage = "decode" /\ lines = <<>> /\ rejectOnly = FALSE
  /\ asked = "any" /\ holder = Connected /\ secrets = {} /\ answer = NoAnswer

(* runSign decodes, and what does not decode is never offered for approval. *)
Decode ==
  /\ stage = "decode"
  /\ LET consent == DecodeSignConsent(request)
     IN IF consent = Undecodable
        THEN /\ lines' = <<Danger({})>> /\ rejectOnly' = TRUE /\ stage' = "consent"
        ELSE /\ lines' = FormatConsentDisplay(consent) /\ UNCHANGED rejectOnly
             /\ stage' = IF SimulationPayloadFor(request) = NoPayload THEN "consent" ELSE "simulate"
  /\ UNCHANGED <<request, outcome, gestureVars, answer>>

-----------------------------------------------------------------------------
(* The endpoint, and the tokens it runs.                                   *)

Executed(payload) ==
  LET call == payload.calls[1]
  IN IF payload.calls # <<>> /\ call.to = payload.account /\ call.data.fn = "execute"
     THEN call.data.calls ELSE payload.calls

Log(event, token, from, to, moved, amount, approved) ==
  [event |-> event, token |-> token, from |-> from, to |-> to, moved |-> moved,
   amount |-> amount, approved |-> approved, intact |-> TRUE]

LogsOf(call, account, other) ==
  LET data == call.data  one == <<[id |-> 0, amount |-> data.amount]>>
  IN CASE data.fn = "transfer" -> <<Log("Transfer20", call.to, account, data.who, one, 0, FALSE)>>
       [] data.fn = "transferFrom" -> <<Log("Transfer20", call.to, data.from, data.who, one, 0, FALSE)>>
       [] data.fn \in {"approve", "increaseAllowance"} ->
            <<Log("Approval", call.to, account, data.who, <<>>, data.amount, TRUE)>>
       [] data.fn = "setApprovalForAll" ->
            <<Log("ApprovalForAll", call.to, account, data.who, <<>>, 0, data.approved)>>
       [] data.fn = "empty" -> <<>>
       [] OTHER -> <<other>>

Outcomes(payload) ==
  {NoOutcome, [status |-> "answered", failed |-> TRUE, logs |-> <<>>]} \cup
  {[status |-> "answered", failed |-> FALSE,
    logs |-> FlattenSeq([i \in DOMAIN Executed(payload) |-> LogsOf(Executed(payload)[i], payload.account, other)])] :
   other \in OtherLogs}

(* Simulation adds to the lines; a revert takes the approval away.  A      *)
(* chain without endpoints is not simulated.                               *)
Simulate ==
  /\ stage = "simulate"
  /\ LET payload == SimulationPayloadFor(request)
     IN \E o \in IF payload.chain \in ChainsOfVault THEN Outcomes(payload) ELSE {NoOutcome} :
          LET result == SimulateRequest(payload, o)
          IN /\ outcome' = o
             /\ lines' = lines \o SimulationDisplayLines(result)
             /\ rejectOnly' = (rejectOnly \/ result.status = "reverted")
  /\ stage' = "consent"
  /\ UNCHANGED <<request, gestureVars, answer>>

-----------------------------------------------------------------------------
(* The consent screen.                                                     *)

Reject ==
  /\ stage = "consent"
  /\ answer' = Rejection /\ stage' = "answered"
  /\ UNCHANGED <<pageVars, gestureVars>>

Approve ==
  /\ stage = "consent" /\ ~rejectOnly
  /\ stage' = "assert" /\ asked' = Connected
  /\ UNCHANGED <<pageVars, holder, secrets, answer>>

(* A gesture that failed, for whatever reason, is made once more without   *)
(* naming the passkey; if that fails too, the screen is shown again, and   *)
(* without Approve if no retry can work.                                   *)
FailGesture(terminal) ==
  IF asked # "any"
  THEN asked' = "any" /\ stage' = "assert" /\ UNCHANGED <<lines, rejectOnly>>
  ELSE stage' = "consent" /\ rejectOnly' = (rejectOnly \/ terminal) /\ UNCHANGED <<asked, lines>>

(* The assertion: cancelled, refused, or made by a passkey of the device,  *)
(* whose output is a secret.                                               *)
Discover(c) ==
  /\ stage = "assert" /\ asked \in {c, "any"}
  /\ holder' = c /\ secrets' = {"prf"} /\ stage' = "derive"
  /\ UNCHANGED <<pageVars, asked, answer>>

DiscoverFails ==
  /\ stage = "assert"
  /\ \E terminal \in BOOLEAN : FailGesture(terminal)
  /\ UNCHANGED <<request, outcome, holder, secrets, answer>>

(* wipeSecrets runs however the use of the key ends.                       *)
WipeSecrets(used) == {}

WalletOf(c) == IF HandleOf[c] = "self" THEN KeyOf[c] ELSE HandleOf[c]

(* withDiscoveredKeys derives the key, and reads from the handle for which *)
(* wallet it signs.                                                        *)
Derive ==
  /\ stage = "derive"
  /\ IF HandleOf[holder] = "garbled"
     THEN secrets' = WipeSecrets(FALSE) /\ FailGesture(FALSE)
     ELSE secrets' = {"prf", "key"} /\ stage' = "sign" /\ UNCHANGED <<asked, lines, rejectOnly>>
  /\ UNCHANGED <<request, outcome, holder, answer>>

IsRosterSigner(c) == WalletOf(c) # KeyOf[c]
Authorization(r) ==
  r.op \in {"signAuthorization", "signSend", "signUserOp", "signSponsored"}
    /\ {r.address, r.contractAddress} # {NoAddress}

(* Mutant: only the bare authorization is refused. *)
RefusedAlone(c) ==
  /\ IsRosterSigner(c)
  /\ request.op \in {"signMessage", "signTypedData", "signSiwe", "signAuthorization"}

(* performSign refuses what the wallet would not accept of a key that is   *)
(* on its roster: messages, and the delegation of the wallet.              *)
Refused(c) ==
  /\ IsRosterSigner(c)
  /\ \/ request.op \in {"signMessage", "signTypedData", "signSiwe"}
     \/ request.op # "signSponsored" /\ Authorization(request)

(* A roster key is named in the envelope of the signature of an operation. *)
Signature(c) ==
  [kind |-> "signature", by |-> KeyOf[c], on |-> WalletOf(c),
   wrapped |-> request.op = "signUserOp" /\ IsRosterSigner(c),
   authorization |-> Authorization(request)]

PerformSign ==
  /\ stage = "sign"
  /\ secrets' = WipeSecrets(~Refused(holder))
  /\ IF Refused(holder)
     THEN FailGesture(FALSE) /\ UNCHANGED answer
     ELSE answer' = Signature(holder) /\ stage' = "answered" /\ UNCHANGED <<asked, lines, rejectOnly>>
  /\ UNCHANGED <<request, outcome, holder>>

Next ==
  \/ Decode \/ Simulate \/ Reject \/ Approve \/ DiscoverFails \/ Derive \/ PerformSign
  \/ \E c \in Credentials : Discover(c)

Spec == Init /\ [][Next]_vars
=============================================================================
