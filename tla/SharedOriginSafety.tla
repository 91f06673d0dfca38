------------------------- MODULE SharedOriginSafety -------------------------
(***************************************************************************)
(* What the app may rely on when it asks the vault.                        *)
(***************************************************************************)
EXTENDS SharedOrigin

AppTypeOK ==
  /\ request \in [Opens -> Requests \cup {NoRequest}]
  /\ promise \in [Opens -> {"unmade", "pending", "blocked", "resolved", "closed", "timedOut", "lost"}]
  /\ answer \in [Opens -> Answers \cup {NoAnswer}]
  /\ polling \subseteq Opens
  /\ tasks \in [Opens -> Seq([type : TaskTypes, answer : Answers \cup {NoAnswer}])]

VaultTypeOK ==
  /\ page \in [Opens -> {"none", "loading", "listening", "simulating", "consent", "gesture",
                         "discover", "reading", "answered", "failed", "closed"}]
  /\ inbox \in [Opens -> Nat]
  /\ rejectOnly \subseteq Opens /\ blocked \subseteq Opens
  /\ enrolled \subseteq Passkeys
  /\ trouble \in 0 .. MaxTrouble
  /\ posted \in [Opens -> Answers \cup {NoAnswer}]

ConnectionTypeOK ==
  /\ current \in Passkeys \cup {NoPasskey}
  /\ stored \in Passkeys \cup {NoPasskey, Garbage}
  /\ connecting \in [Opens -> {"no", "asked", "done", "lost"}]

SharedOriginTypeOK == AppTypeOK /\ VaultTypeOK /\ ConnectionTypeOK

(* The handshake cannot stall: while the app waits and the page it opened  *)
(* has its listener attached and nothing to do, the request is on its way  *)
(* or will be asked for - also after the page, reloaded, lost a request it *)
(* had received, and whether or not the eager post arrived.                *)
HandshakeNeverStalls ==
  \A o \in Opens : Pending(o) /\ Idle(o) => inbox[o] > 0 \/ Scheduled(o, "ready")

(* A promise resolves to the first answer of the page it opened, whatever  *)
(* other windows of the same origin answer meanwhile, and however often    *)
(* its own page was reloaded.                                              *)
AnswersAreOwn ==
  \A o \in Opens : promise[o] = "resolved" => answer[o] = posted[o] /\ posted[o] # NoAnswer

(* A page that answers and closes is not taken for one that was dismissed: *)
(* the user does not sign what the app reports as closed.                  *)
AnswersAreNotLost ==
  \A o \in Opens : promise[o] = "closed" => posted[o] = NoAnswer

(* Once a page found the request undecodable, saw it revert, or met a      *)
(* failure no retry can fix, it never prompts for a passkey to sign it.    *)
BlockedIsNeverPrompted ==
  \A o \in blocked : page[o] \notin {"gesture", "discover"}

(* What memory holds is in storage, so that a reload changes nothing of    *)
(* what account() says, also when connects overlap with logouts.           *)
ReloadKeepsAccount ==
  current # NoPasskey => stored = current

(* No lost wake-up: while the app waits for a page that answered, the     *)
(* answer is queued; and for one that is gone, the poll or the rejection   *)
(* it deferred is still to come - so that only a page nobody closes can    *)
(* make the app wait for its five minutes.                                 *)
EndedPageIsNoticed ==
  \A o \in Opens : Pending(o) =>
    /\ posted[o] # NoAnswer => Scheduled(o, "result")
    /\ page[o] = "closed" => o \in polling \/ Scheduled(o, "deferred")

(* Neither side waits for nothing.                                         *)
NobodyWaitsInVain == HandshakeNeverStalls /\ EndedPageIsNoticed

(* What makes these inductive, for one open.  The first answer in the      *)
(* queue is the one the page posted first, and a rejection is only         *)
(* deferred once the page is closed and can answer nothing more.           *)
FirstResult(q, a) ==
  \A i \in 1 .. Len(q) :
    q[i].type = "result" /\ (\A j \in 1 .. i - 1 : q[j].type # "result") => q[i].answer = a

DeferredLast(q) ==
  \A i, j \in 1 .. Len(q) : q[i].type = "deferred" /\ q[j].type = "result" => j < i

WaitingOK(o) ==
  /\ Idle(o) => inbox[o] > 0 \/ Has(tasks[o], "ready")
  /\ o \in polling \/ Has(tasks[o], "deferred")
  /\ Has(tasks[o], "deferred") => page[o] = "closed"
  /\ posted[o] # NoAnswer <=> Has(tasks[o], "result")
  /\ FirstResult(tasks[o], posted[o])
  /\ DeferredLast(tasks[o])

OpenInv(o) ==
  /\ Pending(o) => WaitingOK(o)
  /\ ~Pending(o) => tasks[o] = <<>> /\ o \notin polling
  /\ promise[o] = "unmade" => posted[o] = NoAnswer /\ o \notin blocked /\ page[o] = "none"
  /\ promise[o] = "resolved" => answer[o] = posted[o] /\ posted[o] # NoAnswer
  /\ promise[o] = "closed" => posted[o] = NoAnswer
  /\ o \in blocked => o \in rejectOnly \/ page[o] = "closed"
  /\ o \in blocked => page[o] \notin {"gesture", "discover"}

(* The inductive invariant: types, every open by itself, and memory        *)
(* against storage.                                                        *)
SharedOriginIInv ==
  /\ SharedOriginTypeOK
  /\ \A o \in Opens : OpenInv(o)
  /\ ReloadKeepsAccount

=============================================================================
