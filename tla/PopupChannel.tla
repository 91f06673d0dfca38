---------------------------- MODULE PopupChannel ----------------------------
(***************************************************************************)
(* The web signing channel (packages/core/src/channel/channels/web.ts) and *)
(* the ceremony it opens (auth-popup/ceremony.ts, mount.ts): an app window *)
(* holding one promise per call of open(), a vault window per promise, and *)
(* the messages and timers between them.                                   *)
(*                                                                         *)
(* The app is one event loop.  tasks[o] are the tasks queued for the       *)
(* closure of open() that o names, in the order they were queued: web.ts   *)
(* 113-117 relies on that order.  Tasks of two opens run in any order.     *)
(* The passkey that signed stands for an account and for a signature.      *)
(***************************************************************************)
EXTENDS Naturals, Sequences

CONSTANTS
  Opens,        \* the calls of open(), each with a window of its own
  Passkeys,
  NoPasskey,
  MaxTrouble    \* bound: reloads, failed gestures and overlapping opens together

ASSUME PopupAssumption ==
  NoPasskey \notin Passkeys /\ MaxTrouble \in Nat

VARIABLES
  request,      \* what each open() was called with
  promise,      \* the state of the promise it returned
  answer,       \* what it resolved to
  polling,      \* the opens whose close poll is scheduled
  tasks,        \* the app's queue, by open
  page,         \* what each vault window is doing
  inbox,        \* copies of the request on their way to the page
  rejectOnly,   \* the pages whose consent screen offers no Approve
  enrolled,     \* the passkeys the user's devices still hold
  trouble,      \* how much of the bound is used up
  posted,       \* history: the first answer a page sent to the pending promise
  blocked       \* history: the pages that showed a reason never to sign

appVars == <<request, promise, answer, polling, tasks>>
pageVars == <<page, inbox, rejectOnly>>
userVars == <<enrolled, trouble>>
historyVars == <<posted, blocked>>
popupVars == <<appVars, pageVars, userVars, historyVars>>

-----------------------------------------------------------------------------
(* A request is authorize, or sign of something: a message, a batch of     *)
(* calls that is simulated first, or what the decoder refuses.             *)

Kinds == {"authorize", "message", "calls", "undecodable"}
Requests == [kind : Kinds, credential : Passkeys \cup {NoPasskey}]
NoRequest == [kind |-> "none", credential |-> NoPasskey]

Answers == [kind : {"authorize", "sign"}, passkey : Passkeys]
             \cup {[kind |-> "sign", passkey |-> NoPasskey]}
NoAnswer == [kind |-> "none", passkey |-> NoPasskey]
Rejected == [kind |-> "sign", passkey |-> NoPasskey]  \* {error: "user_rejected"}

Task(type) == [type |-> type, answer |-> NoAnswer]
Result(a) == [type |-> "result", answer |-> a]
TaskTypes == {"ready", "result", "poll", "deferred"}

Pending(o) == promise[o] = "pending"
Live(o) == page[o] \notin {"none", "loading", "closed"}  \* the listener is attached
Idle(o) == page[o] = "listening"                         \* and pending is false

Trouble == trouble < MaxTrouble /\ trouble' = trouble + 1

PopupInit ==
  /\ request = [o \in Opens |-> NoRequest]
  /\ promise = [o \in Opens |-> "unmade"]
  /\ answer = [o \in Opens |-> NoAnswer]
  /\ polling = {}
  /\ tasks = [o \in Opens |-> <<>>]
  /\ page = [o \in Opens |-> "none"]
  /\ inbox = [o \in Opens |-> 0]
  /\ rejectOnly = {}
  /\ enrolled \in SUBSET Passkeys \ {{}}
  /\ trouble = 0
  /\ posted = [o \in Opens |-> NoAnswer]
  /\ blocked = {}

-----------------------------------------------------------------------------
(* The app's side: open() and the tasks it schedules.                      *)

(* What runs in the task of the caller.  The request posted at once meets  *)
(* a window whose document may not be there yet: it is lost, or waits.     *)
Open(o, r) ==
  /\ promise[o] = "unmade"
  /\ request' = [request EXCEPT ![o] = r]
  /\ \/ /\ promise' = [promise EXCEPT ![o] = "blocked"]
        /\ UNCHANGED <<polling, page, inbox, trouble>>
     \/ /\ IF \E p \in Opens : Pending(p) THEN Trouble ELSE UNCHANGED trouble
        /\ promise' = [promise EXCEPT ![o] = "pending"]
        /\ polling' = polling \cup {o}
        /\ page' = [page EXCEPT ![o] = "loading"]
        /\ \E arrives \in {0, 1} : inbox' = [inbox EXCEPT ![o] = arrives]
  /\ UNCHANGED <<answer, tasks, rejectOnly, enrolled, historyVars>>

(* postMessage to the app, or a timer of its own.  Once the promise is     *)
(* settled the listener and the timers are gone and nothing is queued.     *)
Queue(o, t) ==
  tasks' = IF Pending(o) THEN [tasks EXCEPT ![o] = Append(@, t)] ELSE tasks

Has(q, type) == \E i \in 1 .. Len(q) : q[i].type = type
Scheduled(o, type) == Has(tasks[o], type)

(* A tick behind other tasks is left out: the next one sees what it would. *)
PollDue(o) ==
  /\ o \in polling /\ tasks[o] = <<>>
  /\ Queue(o, Task("poll"))
  /\ UNCHANGED <<request, promise, answer, polling, pageVars, userVars, historyVars>>

Turn(o, type) == tasks[o] # <<>> /\ Head(tasks[o]).type = type

(* cleanup() and the resolve or reject after it, for the promises in S.    *)
(* Everything still queued for them is a no-op from here on.               *)
Settle(S, outcome, a) ==
  /\ promise' = [o \in Opens |-> IF o \in S THEN outcome ELSE promise[o]]
  /\ answer' = [o \in Opens |-> IF o \in S THEN a ELSE answer[o]]
  /\ polling' = polling \ S
  /\ page' = [o \in Opens |-> IF o \in S THEN "closed" ELSE page[o]]
  /\ inbox' = [o \in Opens |-> IF o \in S THEN 0 ELSE inbox[o]]
  /\ rejectOnly' = rejectOnly \ S

(* Mutant: the source of a message is not compared with the popup. *)
AnyListener(o) == {p \in Opens : Pending(p)}

(* handler() 76: of the listeners a message reaches, the one that opened   *)
(* the window it came from.                                                *)
ListenerOf(o) == {p \in Opens : Pending(p) /\ p = o}

(* Mutant: the request goes out once, in the task that opened the window. *)
NoResend(o) ==
  /\ Turn(o, "ready")
  /\ tasks' = [tasks EXCEPT ![o] = Tail(@)]
  /\ UNCHANGED <<request, promise, answer, polling, pageVars, userVars, historyVars>>

OnReady(o) ==
  /\ Turn(o, "ready")
  /\ tasks' = [tasks EXCEPT ![o] = Tail(@)]
  /\ inbox' = IF Live(o) THEN [inbox EXCEPT ![o] = @ + 1] ELSE inbox
  /\ UNCHANGED <<request, promise, answer, polling, page, rejectOnly, userVars, historyVars>>

OnResult(o) ==
  /\ Turn(o, "result")
  /\ LET S == ListenerOf(o) IN
       /\ Settle(S, "resolved", Head(tasks[o]).answer)
       /\ tasks' = [p \in Opens |-> IF p \in S THEN <<>>
                                    ELSE IF p = o THEN Tail(tasks[p]) ELSE tasks[p]]
  /\ UNCHANGED <<request, userVars, historyVars>>

(* Mutant: the poll rejects in its own task. *)
RejectAtOnce(o) ==
  /\ Turn(o, "poll")
  /\ IF page[o] = "closed"
       THEN Settle({o}, "closed", NoAnswer) /\ tasks' = [tasks EXCEPT ![o] = <<>>]
       ELSE tasks' = [tasks EXCEPT ![o] = Tail(@)] /\ UNCHANGED <<promise, answer, polling, pageVars>>
  /\ UNCHANGED <<request, userVars, historyVars>>

(* Mutant: a closed window stops the poll and schedules nothing. *)
PollStops(o) ==
  /\ Turn(o, "poll")
  /\ polling' = IF page[o] = "closed" THEN polling \ {o} ELSE polling
  /\ tasks' = [tasks EXCEPT ![o] = Tail(@)]
  /\ UNCHANGED <<request, promise, answer, pageVars, userVars, historyVars>>

OnPoll(o) ==
  /\ Turn(o, "poll")
  /\ IF page[o] = "closed"
       THEN /\ polling' = polling \ {o}
            /\ tasks' = [tasks EXCEPT ![o] = Append(Tail(@), Task("deferred"))]
       ELSE /\ tasks' = [tasks EXCEPT ![o] = Tail(@)]
            /\ UNCHANGED polling
  /\ UNCHANGED <<request, promise, answer, pageVars, userVars, historyVars>>

OnDeferred(o) ==
  /\ Turn(o, "deferred")
  /\ Settle({o}, "closed", NoAnswer)
  /\ tasks' = [tasks EXCEPT ![o] = <<>>]
  /\ UNCHANGED <<request, userVars, historyVars>>

(* The five minutes may end at any moment. *)
TimeOut(o) ==
  /\ Pending(o)
  /\ Settle({o}, "timedOut", NoAnswer)
  /\ tasks' = [tasks EXCEPT ![o] = <<>>]
  /\ UNCHANGED <<request, userVars, historyVars>>

AppStep(o) == OnReady(o) \/ OnResult(o) \/ OnPoll(o) \/ OnDeferred(o)

(* The app's document is replaced: its promises, listeners and timers go   *)
(* with it, the windows it opened stay.                                    *)
DropPending ==
  /\ promise' = [o \in Opens |-> IF Pending(o) THEN "lost" ELSE promise[o]]
  /\ polling' = {}
  /\ tasks' = [o \in Opens |-> <<>>]
  /\ UNCHANGED <<request, answer, pageVars, enrolled, historyVars>>

-----------------------------------------------------------------------------
(* The vault's side: runAuthPopup, driveRequest, runSign.                  *)

Load(o) ==
  /\ page[o] = "loading"
  /\ page' = [page EXCEPT ![o] = "listening"]
  /\ Queue(o, Task("ready"))
  /\ UNCHANGED <<request, promise, answer, polling, inbox, rejectOnly, userVars, historyVars>>

Enter(o, stage) == page' = [page EXCEPT ![o] = stage]

(* The first request starts the ceremony; nothing is shown or asked of a   *)
(* passkey before it is decoded, and a batch of calls simulated.           *)
Receive(o) ==
  /\ Idle(o) /\ inbox[o] > 0
  /\ inbox' = [inbox EXCEPT ![o] = @ - 1]
  /\ LET kind == request[o].kind
         refused == IF kind = "undecodable" THEN {o} ELSE {} IN
       /\ Enter(o, CASE kind = "authorize" -> "reading"
                     [] kind = "calls" -> "simulating"
                     [] OTHER -> "consent")
       /\ rejectOnly' = rejectOnly \cup refused
       /\ blocked' = blocked \cup refused
  /\ UNCHANGED <<appVars, userVars, posted>>

IgnoreDuplicate(o) ==
  /\ Live(o) /\ ~Idle(o) /\ inbox[o] > 0
  /\ inbox' = [inbox EXCEPT ![o] = @ - 1]
  /\ UNCHANGED <<appVars, page, rejectOnly, userVars, historyVars>>

(* The simulation answers, or does not and is "unsimulated".               *)
Simulated(o, status) ==
  /\ page[o] = "simulating"
  /\ Enter(o, "consent")
  /\ rejectOnly' = IF status = "reverted" THEN rejectOnly \cup {o} ELSE rejectOnly
  /\ blocked' = IF status = "reverted" THEN blocked \cup {o} ELSE blocked
  /\ UNCHANGED <<appVars, inbox, userVars, posted>>

(* reply(): post, then close the window if it was a signing request.       *)
Reply(o, a) ==
  /\ Queue(o, Result(a))
  /\ posted' = IF Pending(o) /\ posted[o] = NoAnswer THEN [posted EXCEPT ![o] = a] ELSE posted
  /\ IF a.kind = "sign"
       THEN /\ Enter(o, "closed")
            /\ inbox' = [inbox EXCEPT ![o] = 0]
            /\ rejectOnly' = rejectOnly \ {o}
            /\ blocked' = blocked \ {o}
       ELSE Enter(o, "answered") /\ UNCHANGED <<inbox, rejectOnly, blocked>>
  /\ UNCHANGED <<request, promise, answer, polling, userVars>>

Reject(o) == page[o] = "consent" /\ Reply(o, Rejected)

(* The gesture is asked of the passkey the account was connected with, and *)
(* of any without one.                                                     *)
Approve(o) ==
  /\ page[o] = "consent" /\ o \notin rejectOnly
  /\ Enter(o, IF request[o].credential = NoPasskey THEN "discover" ELSE "gesture")
  /\ UNCHANGED <<appVars, inbox, rejectOnly, userVars, historyVars>>

Sign(o, p) ==
  /\ p \in enrolled
  /\ \/ page[o] = "gesture" /\ p = request[o].credential
     \/ page[o] = "discover"
  /\ Reply(o, [kind |-> "sign", passkey |-> p])

(* signWith 66-71: whatever made the constrained gesture fail - a missing  *)
(* credential, a dismissal, a refusal of performSign - any passkey is      *)
(* asked for next.                                                         *)
FallBack(o) ==
  /\ page[o] = "gesture"
  /\ \/ request[o].credential \notin enrolled /\ UNCHANGED trouble
     \/ Trouble
  /\ Enter(o, "discover")
  /\ UNCHANGED <<appVars, inbox, rejectOnly, enrolled, historyVars>>

(* The request is shown again with the error; a terminal one for good.     *)
SignFails(o, terminal) ==
  /\ page[o] = "discover"
  /\ Trouble
  /\ Enter(o, "consent")
  /\ rejectOnly' = IF terminal THEN rejectOnly \cup {o} ELSE rejectOnly
  /\ blocked' = IF terminal THEN blocked \cup {o} ELSE blocked
  /\ UNCHANGED <<appVars, inbox, enrolled, posted>>

ReadAccount(o, p) ==
  /\ page[o] = "reading" /\ p \in enrolled
  /\ Reply(o, [kind |-> "authorize", passkey |-> p])

(* view.failure: nothing is answered and the page starts nothing else.     *)
ReadFails(o) ==
  /\ page[o] = "reading"
  /\ Trouble
  /\ Enter(o, "failed")
  /\ UNCHANGED <<appVars, inbox, rejectOnly, enrolled, historyVars>>

-----------------------------------------------------------------------------
(* The user, beyond the buttons.                                           *)

Leave(o, where) ==
  /\ page[o] \notin {"none", "closed", where}
  /\ Enter(o, where)
  /\ inbox' = [inbox EXCEPT ![o] = 0]
  /\ rejectOnly' = rejectOnly \ {o}
  /\ blocked' = blocked \ {o}
  /\ UNCHANGED <<appVars, enrolled, posted>>

CloseWindow(o) == Leave(o, "closed") /\ UNCHANGED trouble
Reload(o) == Leave(o, "loading") /\ Trouble

VaultStep(o) ==
  \/ Load(o) \/ Receive(o) \/ IgnoreDuplicate(o) \/ Reject(o) \/ Approve(o)
  \/ \E status \in {"ok", "reverted", "unsimulated"} : Simulated(o, status)
  \/ \E p \in Passkeys : Sign(o, p) \/ ReadAccount(o, p)
  \/ FallBack(o) \/ ReadFails(o)
  \/ \E terminal \in BOOLEAN : SignFails(o, terminal)
  \/ CloseWindow(o) \/ Reload(o)

ChannelStep == \E o \in Opens : PollDue(o) \/ AppStep(o) \/ TimeOut(o) \/ VaultStep(o)
=============================================================================
