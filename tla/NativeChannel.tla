--------------------------- MODULE NativeChannel ---------------------------
(***************************************************************************)
(* How a request leaves an app and an answer comes home, on the two        *)
(* transports a connection may be given.  On the web an answer reaches the *)
(* call that opened its window and no other: PopupChannel shows how.  In a *)
(* native app (channel/channels/native.ts, channel/redirect-protocol.ts,   *)
(* runAuthRedirect of auth-popup/ceremony.ts) the request travels in the   *)
(* fragment of the page an in-app browser opens, and the answer in the     *)
(* fragment of a callback URL.  The browser serves one session at a time,  *)
(* and the callback ends whichever session is open: nothing in it says     *)
(* which request it answers, and a page may outlive its session.           *)
(***************************************************************************)
EXTENDS Naturals, FiniteSets

CONSTANTS
  Jobs,            \* the calls an app makes, each at most once
  Keys, NoKey      \* device keys of wallets

VARIABLES
  transport,       \* "popup" or "native"
  sessions,        \* the jobs whose openAuthSession (or window) is unanswered
  pages            \* the jobs whose page of the vault is open

channelVars == <<transport, sessions, pages>>

ChannelInit ==
  /\ transport \in {"popup", "native"}
  /\ sessions = {} /\ pages = {}

(* An answer: what it says, and - known to nobody but the model - the page *)
(* it came from.  A refusal is a sign result without a key.                *)
Answers == [kind : {"authorize", "sign"}, key : Keys \cup {NoKey},
            nonce : Jobs, from : Jobs]

(* JSON.stringify throws on the bigint amounts of a transaction, and the   *)
(* encoding on more than MAX_REDIRECT_PAYLOAD_BYTES; postMessage clones    *)
(* both.                                                                   *)
Encodable(op, small) == transport = "popup" \/ (op # "send" /\ small)

(* The platform refuses a second session: an outcome that is no success.   *)
Locked == transport = "native" /\ sessions # {}

OpenSession(j) ==
  /\ sessions' = sessions \cup {j}
  /\ pages' = pages \cup {j}
  /\ UNCHANGED transport

(* The user leaves before an answer.  A browser tab may live on.           *)
EndSession(j) ==
  /\ j \in sessions
  /\ sessions' = sessions \ {j}
  /\ pages' \in IF transport = "native" THEN {pages, pages \ {j}} ELSE {pages \ {j}}
  /\ UNCHANGED transport

ReceiversOf(p) == IF transport = "popup" THEN sessions \cap {p} ELSE sessions

(* Page p, of operation op, after the gesture: the account and the         *)
(* signature over the challenge it was sent, or a signature, or a refusal. *)
AnswerOf(p, op, challenge, key) ==
  [kind |-> IF op = "authorize" THEN "authorize" ELSE "sign",
   key |-> key, nonce |-> challenge, from |-> p]

MayAnswer(op, key) == key # NoKey \/ op # "authorize"

(* The page navigates to the callback: it ends the session that is open,   *)
(* or nobody listens.                                                      *)
CallBack(p) ==
  /\ p \in pages
  /\ pages' = pages \ {p}
  /\ sessions' = sessions \ ReceiversOf(p)
  /\ UNCHANGED transport

(* open() rejects a result of another kind than was asked for.             *)
KindMatches(answer, op) == answer.kind = (IF op = "authorize" THEN "authorize" ELSE "sign")

(* Mutant: the sessions of a dead process are kept. *)
KeepSessions == UNCHANGED channelVars

(* A process that ends takes its sessions along, not the pages.            *)
LoseSessions == sessions' = {} /\ UNCHANGED <<transport, pages>>
=============================================================================
