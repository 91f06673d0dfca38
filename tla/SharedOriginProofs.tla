------------------------- MODULE SharedOriginProofs -------------------------
(***************************************************************************)
(* The guarantees of SharedOriginSafety for any number of calls and of     *)
(* passkeys.                                                               *)
(***************************************************************************)
EXTENDS SharedOriginSafety, SequenceTheorems, TLAPS

-----------------------------------------------------------------------------
(* What queueing a task and running one do to a queue.                     *)

LEMMA AppendCells ==
  ASSUME NEW S, NEW q \in Seq(S), NEW t \in S
  PROVE  /\ Append(q, t) \in Seq(S)
         /\ Len(q) \in Nat /\ Len(Append(q, t)) = Len(q) + 1
         /\ \A i \in 1 .. Len(q) : Append(q, t)[i] = q[i]
         /\ Append(q, t)[Len(q) + 1] = t
  BY SMT

LEMMA TailCells ==
  ASSUME NEW S, NEW q \in Seq(S), q # <<>>
  PROVE  /\ Tail(q) \in Seq(S) /\ Head(q) \in S
         /\ Len(q) \in Nat \ {0} /\ Len(Tail(q)) = Len(q) - 1
         /\ \A i \in 1 .. Len(q) - 1 : Tail(q)[i] = q[i + 1]
         /\ Head(q) = q[1]
  BY SMT

LEMMA HasAppend ==
  ASSUME NEW S, NEW q \in Seq(S), NEW t \in S, NEW type
  PROVE  Has(Append(q, t), type) <=> Has(q, type) \/ t.type = type
<1>1. Has(Append(q, t), type) => Has(q, type) \/ t.type = type
  BY AppendCells DEF Has
<1>2. Has(q, type) => Has(Append(q, t), type)
  BY AppendCells DEF Has
<1>3. t.type = type => Has(Append(q, t), type)
  BY AppendCells DEF Has
<1> QED BY <1>1, <1>2, <1>3

LEMMA HasTail ==
  ASSUME NEW S, NEW q \in Seq(S), q # <<>>, NEW type
  PROVE  Has(q, type) <=> Has(Tail(q), type) \/ Head(q).type = type
<1>1. Has(Tail(q), type) => Has(q, type)
  <2> SUFFICES ASSUME NEW i \in 1 .. Len(Tail(q)), Tail(q)[i].type = type PROVE Has(q, type)
    BY DEF Has
  <2>1. i + 1 \in 1 .. Len(q) /\ q[i + 1] = Tail(q)[i]
    BY TailCells
  <2> QED BY <2>1 DEF Has
<1>2. Head(q).type = type => Has(q, type)
  BY TailCells DEF Has
<1>3. Has(q, type) => Has(Tail(q), type) \/ Head(q).type = type
  <2> SUFFICES ASSUME NEW i \in 1 .. Len(q), q[i].type = type, i # 1 PROVE Has(Tail(q), type)
    BY TailCells DEF Has
  <2>1. i - 1 \in 1 .. Len(Tail(q)) /\ Tail(q)[i - 1] = q[i]
    BY TailCells
  <2> QED BY <2>1 DEF Has
<1> QED BY <1>1, <1>2, <1>3

LEMMA FirstResultAppend ==
  ASSUME NEW S, NEW q \in Seq(S), NEW t \in S, NEW a, FirstResult(q, a),
         t.type = "result" => Has(q, "result") \/ t.answer = a
  PROVE  FirstResult(Append(q, t), a)
<1> DEFINE r == Append(q, t)
<1> SUFFICES ASSUME NEW i \in 1 .. Len(r), r[i].type = "result",
                    \A j \in 1 .. i - 1 : r[j].type # "result"
             PROVE  r[i].answer = a
  BY DEF FirstResult
<1>1. CASE i \in 1 .. Len(q)
  BY <1>1, AppendCells DEF FirstResult
<1>2. CASE i = Len(q) + 1
  <2>1. ~Has(q, "result")
    BY <1>2, AppendCells DEF Has
  <2> QED BY <1>2, <2>1, AppendCells
<1> QED BY <1>1, <1>2, AppendCells

LEMMA FirstResultTail ==
  ASSUME NEW S, NEW q \in Seq(S), q # <<>>, NEW a, FirstResult(q, a),
         Head(q).type # "result"
  PROVE  FirstResult(Tail(q), a)
<1> DEFINE r == Tail(q)
<1> SUFFICES ASSUME NEW i \in 1 .. Len(r), r[i].type = "result",
                    \A j \in 1 .. i - 1 : r[j].type # "result"
             PROVE  r[i].answer = a
  BY DEF FirstResult
<1>1. i + 1 \in 1 .. Len(q) /\ q[i + 1] = r[i]
  BY TailCells
<1>2. ASSUME NEW j \in 1 .. i PROVE q[j].type # "result"
  <2>1. CASE j = 1
    BY <2>1, TailCells
  <2>2. CASE j # 1
    <3>1. j - 1 \in 1 .. i - 1 /\ j - 1 \in 1 .. Len(r) /\ r[j - 1] = q[j]
      BY <2>2, <1>1, TailCells
    <3> QED BY <3>1
  <2> QED BY <2>1, <2>2
<1>3. (i + 1) - 1 = i
  BY TailCells
<1> QED BY <1>1, <1>2, <1>3 DEF FirstResult

LEMMA FirstResultHead ==
  ASSUME NEW S, NEW q \in Seq(S), q # <<>>, NEW a, FirstResult(q, a),
         Head(q).type = "result"
  PROVE  Head(q).answer = a
  BY TailCells DEF FirstResult

LEMMA DeferredLastAppend ==
  ASSUME NEW S, NEW q \in Seq(S), NEW t \in S, DeferredLast(q),
         t.type = "result" => ~Has(q, "deferred")
  PROVE  DeferredLast(Append(q, t))
<1> DEFINE r == Append(q, t)
<1> SUFFICES ASSUME NEW i \in 1 .. Len(r), NEW j \in 1 .. Len(r),
                    r[i].type = "deferred", r[j].type = "result"
             PROVE  j < i
  BY DEF DeferredLast
<1>1. CASE i \in 1 .. Len(q) /\ j \in 1 .. Len(q)
  BY <1>1, AppendCells DEF DeferredLast
<1>2. CASE i = Len(q) + 1
  <2>1. j # i
    BY <1>2
  <2> QED BY <1>2, <2>1, AppendCells
<1>3. CASE j = Len(q) + 1 /\ i \in 1 .. Len(q)
  BY <1>3, AppendCells DEF Has
<1> QED BY <1>1, <1>2, <1>3, AppendCells

LEMMA DeferredLastTail ==
  ASSUME NEW S, NEW q \in Seq(S), q # <<>>, DeferredLast(q)
  PROVE  DeferredLast(Tail(q))
<1> DEFINE r == Tail(q)
<1> SUFFICES ASSUME NEW i \in 1 .. Len(r), NEW j \in 1 .. Len(r),
                    r[i].type = "deferred", r[j].type = "result"
             PROVE  j < i
  BY DEF DeferredLast
<1>1. /\ i + 1 \in 1 .. Len(q) /\ q[i + 1] = r[i]
      /\ j + 1 \in 1 .. Len(q) /\ q[j + 1] = r[j]
      /\ i \in Nat /\ j \in Nat
  BY TailCells
<1>2. j + 1 < i + 1
  BY <1>1 DEF DeferredLast
<1> QED BY <1>1, <1>2

LEMMA DeferredLastHead ==
  ASSUME NEW S, NEW q \in Seq(S), q # <<>>, DeferredLast(q), Head(q).type = "deferred"
  PROVE  ~Has(q, "result")
<1> SUFFICES ASSUME NEW j \in 1 .. Len(q), q[j].type = "result" PROVE FALSE
  BY DEF Has
<1>1. 1 \in 1 .. Len(q) /\ q[1].type = "deferred" /\ j \in Nat /\ j >= 1
  BY TailCells
<1>2. j < 1
  BY <1>1 DEF DeferredLast
<1> QED BY <1>1, <1>2

LEMMA EmptyQueue ==
  ASSUME NEW a
  PROVE  /\ \A type : ~Has(<<>>, type)
         /\ FirstResult(<<>>, a) /\ DeferredLast(<<>>)
  BY SMT DEF Has, FirstResult, DeferredLast

-----------------------------------------------------------------------------
(* The steps.  All but one concern one open and leave the others alone.    *)

TaskSet == [type : TaskTypes, answer : Answers \cup {NoAnswer}]

Untouched(p) ==
  /\ promise'[p] = promise[p] /\ answer'[p] = answer[p] /\ posted'[p] = posted[p]
  /\ tasks'[p] = tasks[p] /\ page'[p] = page[p] /\ inbox'[p] = inbox[p]
  /\ p \in polling' <=> p \in polling
  /\ p \in rejectOnly' <=> p \in rejectOnly
  /\ p \in blocked' <=> p \in blocked

LEMMA UntouchedKeeps ==
  ASSUME NEW p, OpenInv(p), Untouched(p)
  PROVE  OpenInv(p)'
  BY DEF OpenInv, WaitingOK, Untouched, Pending, Idle

LEMMA OneOpen ==
  ASSUME SharedOriginIInv, NEW o \in Opens, SharedOriginTypeOK', ReloadKeepsAccount',
         \A p \in Opens \ {o} : Untouched(p), OpenInv(o)'
  PROVE  SharedOriginIInv'
<1>1. ASSUME NEW p \in Opens PROVE OpenInv(p)'
  <2>1. CASE p = o
    BY <2>1
  <2>2. CASE p # o
    BY <2>2, UntouchedKeeps DEF SharedOriginIInv
  <2> QED BY <2>1, <2>2
<1> QED BY <1>1 DEF SharedOriginIInv

(* What a step of one open keeps. *)
Keeps(o) ==
  /\ AppTypeOK' /\ VaultTypeOK'
  /\ \A p \in Opens \ {o} : Untouched(p)
  /\ OpenInv(o)'

LEMMA ChannelKeepsAccount ==
  ASSUME SharedOriginIInv, UNCHANGED connectionVars
  PROVE  ReloadKeepsAccount'
  BY DEF SharedOriginIInv, ReloadKeepsAccount, connectionVars

(* The queue of a pending promise and its parts. *)
LEMMA Queued ==
  ASSUME SharedOriginIInv, NEW o \in Opens
  PROVE  /\ tasks[o] \in Seq(TaskSet) /\ OpenInv(o)
         /\ tasks[o] # <<>> => Pending(o) /\ Tail(tasks[o]) \in Seq(TaskSet) /\ Head(tasks[o]) \in TaskSet
  BY TailCells DEF SharedOriginIInv, SharedOriginTypeOK, AppTypeOK, TaskSet, OpenInv

LEMMA SharedOriginInit == Init => SharedOriginIInv
<1> SUFFICES ASSUME Init PROVE SharedOriginIInv
  OBVIOUS
<1> USE DEF Init, PopupInit
<1>1. SharedOriginTypeOK
  BY PopupAssumption DEF SharedOriginTypeOK, AppTypeOK, VaultTypeOK, ConnectionTypeOK
<1>2. \A o \in Opens : OpenInv(o)
  BY DEF OpenInv, Pending
<1>3. ReloadKeepsAccount
  BY DEF ReloadKeepsAccount
<1> QED BY <1>1, <1>2, <1>3 DEF SharedOriginIInv

LEMMA OpenStep ==
  ASSUME SharedOriginIInv, NEW o \in Opens, NEW r \in Requests, Open(o, r)
  PROVE  Keeps(o)
<1> USE DEF Open, SharedOriginTypeOK
<1>0. AppTypeOK /\ VaultTypeOK /\ OpenInv(o) /\ promise[o] = "unmade"
  BY DEF SharedOriginIInv
<1>1. AppTypeOK'
  BY <1>0 DEF AppTypeOK
<1>2. VaultTypeOK'
  BY <1>0, PopupAssumption DEF VaultTypeOK, Trouble, historyVars
<1>3. \A p \in Opens \ {o} : Untouched(p)
  BY <1>0 DEF AppTypeOK, VaultTypeOK, Untouched, historyVars
<1>4. tasks'[o] = <<>> /\ posted'[o] = NoAnswer /\ o \notin blocked'
  BY <1>0 DEF OpenInv, Pending, historyVars
<1>5. OpenInv(o)'
  <2>1. CASE promise' = [promise EXCEPT ![o] = "blocked"] /\ UNCHANGED <<polling, page, inbox, trouble>>
    BY <1>0, <1>4, <2>1 DEF OpenInv, Pending, AppTypeOK
  <2>2. CASE /\ promise' = [promise EXCEPT ![o] = "pending"]
             /\ polling' = polling \cup {o}
             /\ page' = [page EXCEPT ![o] = "loading"]
    <3>1. promise'[o] = "pending" /\ page'[o] = "loading" /\ o \in polling'
      BY <1>0, <2>2 DEF AppTypeOK, VaultTypeOK
    <3>2. WaitingOK(o)'
      BY <1>4, <3>1, EmptyQueue DEF WaitingOK, Idle
    <3> QED BY <1>4, <3>1, <3>2 DEF OpenInv, Pending
  <2> QED BY <2>1, <2>2
<1> QED BY <1>1, <1>2, <1>3, <1>5 DEF Keeps

(* The pending promise of an open and the tasks left when the first is run. *)
LEMMA TurnOf ==
  ASSUME SharedOriginIInv, NEW o \in Opens, NEW type, Turn(o, type)
  PROVE  /\ Pending(o) /\ WaitingOK(o) /\ tasks[o] # <<>> /\ Head(tasks[o]).type = type
         /\ tasks[o] \in Seq(TaskSet) /\ Tail(tasks[o]) \in Seq(TaskSet) /\ Head(tasks[o]) \in TaskSet
         /\ \A t : Has(tasks[o], t) <=> Has(Tail(tasks[o]), t) \/ t = type
         /\ type # "result" => FirstResult(Tail(tasks[o]), posted[o])
         /\ DeferredLast(Tail(tasks[o]))
<1>1. /\ Pending(o) /\ WaitingOK(o) /\ tasks[o] # <<>> /\ Head(tasks[o]).type = type
      /\ tasks[o] \in Seq(TaskSet) /\ Tail(tasks[o]) \in Seq(TaskSet) /\ Head(tasks[o]) \in TaskSet
  BY Queued DEF Turn, OpenInv
<1>2. \A t : Has(tasks[o], t) <=> Has(Tail(tasks[o]), t) \/ t = type
  BY <1>1, HasTail
<1>3. type # "result" => FirstResult(Tail(tasks[o]), posted[o])
  BY <1>1, FirstResultTail DEF WaitingOK
<1>4. DeferredLast(Tail(tasks[o]))
  BY <1>1, DeferredLastTail DEF WaitingOK
<1> QED BY <1>1, <1>2, <1>3, <1>4

LEMMA TaskIsTask ==
  ASSUME NEW type \in TaskTypes
  PROVE  Task(type) \in TaskSet /\ Task(type).type = type
  BY DEF Task, TaskSet

LEMMA OnReadyKeeps ==
  ASSUME SharedOriginIInv, NEW o \in Opens, OnReady(o)
  PROVE  Keeps(o)
<1> USE DEF OnReady, SharedOriginTypeOK
<1>0. AppTypeOK /\ VaultTypeOK /\ OpenInv(o) /\ Turn(o, "ready")
  BY DEF SharedOriginIInv
<1>1. AppTypeOK'
  BY <1>0, TurnOf DEF AppTypeOK, TaskSet
<1>2. VaultTypeOK'
  BY <1>0 DEF VaultTypeOK, userVars, historyVars
<1>3. \A p \in Opens \ {o} : Untouched(p)
  BY <1>0 DEF AppTypeOK, VaultTypeOK, Untouched, historyVars
<1>4. WaitingOK(o)'
  <2>1. tasks'[o] = Tail(tasks[o]) /\ posted'[o] = posted[o] /\ page'[o] = page[o]
    BY <1>0 DEF AppTypeOK, historyVars
  <2>2. page[o] = "listening" => inbox'[o] > 0
    BY <1>0 DEF VaultTypeOK, Live
  <2>3. WaitingOK(o) /\ FirstResult(tasks'[o], posted'[o]) /\ DeferredLast(tasks'[o])
        /\ \A type : Has(tasks[o], type) <=> Has(tasks'[o], type) \/ type = "ready"
    BY <1>0, <2>1, TurnOf
  <2>4. polling' = polling
    OBVIOUS
  <2> HIDE DEF OnReady
  <2> QED BY <2>1, <2>2, <2>3, <2>4 DEF WaitingOK, Idle
<1>5. OpenInv(o)'
  BY <1>0, <1>4, TurnOf DEF OpenInv, Pending, historyVars
<1> QED BY <1>1, <1>2, <1>3, <1>5 DEF Keeps

LEMMA OnPollKeeps ==
  ASSUME SharedOriginIInv, NEW o \in Opens, OnPoll(o)
  PROVE  Keeps(o)
<1> USE DEF OnPoll, SharedOriginTypeOK
<1> DEFINE rest == Tail(tasks[o])
           t == Task("deferred")
<1>0. AppTypeOK /\ VaultTypeOK /\ OpenInv(o) /\ Turn(o, "poll")
  BY DEF SharedOriginIInv
<1>a. t \in TaskSet /\ t.type = "deferred"
  BY TaskIsTask DEF TaskTypes
<1>b. rest \in Seq(TaskSet) /\ FirstResult(rest, posted[o]) /\ DeferredLast(rest)
  BY <1>0, TurnOf
<1> HIDE DEF t, rest
<1>1. Append(rest, t) \in Seq(TaskSet)
  BY <1>a, <1>b, AppendCells
<1>2. AppTypeOK'
  BY <1>0, <1>1, <1>b DEF AppTypeOK, TaskSet, rest, t
<1>3. VaultTypeOK'
  BY <1>0 DEF VaultTypeOK, pageVars, userVars, historyVars
<1>4. \A p \in Opens \ {o} : Untouched(p)
  BY <1>0 DEF AppTypeOK, Untouched, pageVars, historyVars
<1>5. posted'[o] = posted[o] /\ page'[o] = page[o] /\ inbox'[o] = inbox[o] /\ promise'[o] = promise[o]
      /\ answer'[o] = answer[o] /\ rejectOnly' = rejectOnly /\ blocked' = blocked
  BY DEF pageVars, historyVars
<1>6. WaitingOK(o)'
  <2>1. CASE page[o] = "closed"
    <3>1. tasks'[o] = Append(rest, t)
      BY <1>0, <2>1 DEF AppTypeOK, rest, t
    <3>2. \A type : Has(Append(rest, t), type) <=> Has(rest, type) \/ type = "deferred"
      BY <1>a, <1>b, HasAppend
    <3>3. FirstResult(Append(rest, t), posted[o])
      BY <1>a, <1>b, FirstResultAppend
    <3>4. DeferredLast(Append(rest, t))
      BY <1>a, <1>b, DeferredLastAppend
    <3>5. WaitingOK(o) /\ \A type : Has(tasks[o], type) <=> Has(rest, type) \/ type = "poll"
      BY <1>0, TurnOf DEF rest
    <3> HIDE DEF OnPoll
    <3> QED BY <1>5, <2>1, <3>1, <3>2, <3>3, <3>4, <3>5 DEF WaitingOK, Idle
  <2>2. CASE page[o] # "closed"
    <3>1. tasks'[o] = rest /\ polling' = polling
      BY <1>0, <2>2 DEF AppTypeOK, rest
    <3>2. WaitingOK(o) /\ \A type : Has(tasks[o], type) <=> Has(rest, type) \/ type = "poll"
      BY <1>0, TurnOf DEF rest
    <3> HIDE DEF OnPoll
    <3> QED BY <1>5, <1>b, <2>2, <3>1, <3>2 DEF WaitingOK, Idle
  <2> QED BY <2>1, <2>2
<1>7. OpenInv(o)'
  BY <1>0, <1>5, <1>6, TurnOf DEF OpenInv, Pending
<1> QED BY <1>2, <1>3, <1>4, <1>7 DEF Keeps

(* A promise that settles: its window closes and its queue is dropped. *)
LEMMA SettleKeeps ==
  ASSUME SharedOriginIInv, NEW o \in Opens, NEW outcome, NEW a \in Answers \cup {NoAnswer},
         outcome \in {"resolved", "closed", "timedOut"},
         outcome = "resolved" => a = posted[o] /\ posted[o] # NoAnswer,
         outcome = "closed" => posted[o] = NoAnswer,
         Settle({o}, outcome, a), tasks' = [tasks EXCEPT ![o] = <<>>],
         UNCHANGED <<request, userVars, historyVars>>
  PROVE  Keeps(o)
<1> USE DEF Settle, SharedOriginTypeOK
<1>0. AppTypeOK /\ VaultTypeOK /\ OpenInv(o)
  BY DEF SharedOriginIInv
<1>1. AppTypeOK'
  <2>1. promise' \in [Opens -> {"unmade", "pending", "blocked", "resolved", "closed", "timedOut", "lost"}]
    BY <1>0 DEF AppTypeOK
  <2>2. answer' \in [Opens -> Answers \cup {NoAnswer}]
    BY <1>0 DEF AppTypeOK
  <2>3. tasks' \in [Opens -> Seq(TaskSet)]
    <3>1. tasks \in [Opens -> Seq(TaskSet)]
      BY <1>0 DEF AppTypeOK, TaskSet
    <3>2. <<>> \in Seq(TaskSet)
      OBVIOUS
    <3> HIDE DEF Settle
    <3> QED BY <3>1, <3>2
  <2> QED BY <1>0, <2>1, <2>2, <2>3 DEF AppTypeOK, TaskSet
<1>2. VaultTypeOK'
  BY <1>0 DEF VaultTypeOK, userVars, historyVars
<1>3. \A p \in Opens \ {o} : Untouched(p)
  BY <1>0 DEF AppTypeOK, Untouched, historyVars
<1>4. OpenInv(o)'
  BY <1>0 DEF AppTypeOK, OpenInv, Pending, historyVars
<1> QED BY <1>1, <1>2, <1>3, <1>4 DEF Keeps

LEMMA OnResultKeeps ==
  ASSUME SharedOriginIInv, NEW o \in Opens, OnResult(o)
  PROVE  Keeps(o)
<1>0. AppTypeOK /\ Turn(o, "result")
  BY DEF SharedOriginIInv, SharedOriginTypeOK, OnResult
<1>1. ListenerOf(o) = {o}
  BY <1>0, TurnOf DEF ListenerOf
<1>2. Head(tasks[o]).answer = posted[o] /\ posted[o] # NoAnswer
      /\ Head(tasks[o]).answer \in Answers \cup {NoAnswer}
  BY <1>0, TurnOf, FirstResultHead DEF WaitingOK, TaskSet
<1>3. tasks' = [tasks EXCEPT ![o] = <<>>] /\ Settle({o}, "resolved", Head(tasks[o]).answer)
      /\ UNCHANGED <<request, userVars, historyVars>>
  BY <1>0, <1>1 DEF OnResult, AppTypeOK
<1> QED BY <1>2, <1>3, SettleKeeps

LEMMA OnDeferredKeeps ==
  ASSUME SharedOriginIInv, NEW o \in Opens, OnDeferred(o)
  PROVE  Keeps(o)
<1>1. Turn(o, "deferred") /\ tasks[o] # <<>>
  BY DEF OnDeferred, Turn
<1>2. posted[o] = NoAnswer
  BY <1>1, TurnOf, DeferredLastHead DEF WaitingOK
<1> QED BY <1>2, SettleKeeps DEF OnDeferred

LEMMA TimeOutKeeps ==
  ASSUME SharedOriginIInv, NEW o \in Opens, TimeOut(o)
  PROVE  Keeps(o)
  BY SettleKeeps DEF TimeOut

(* A step of a page that says nothing to the app. *)
LEMMA QuietKeeps ==
  ASSUME SharedOriginIInv, NEW o \in Opens, VaultTypeOK',
         UNCHANGED <<appVars, posted>>,
         \A p \in Opens \ {o} : /\ page'[p] = page[p] /\ inbox'[p] = inbox[p]
                                /\ p \in rejectOnly' <=> p \in rejectOnly
                                /\ p \in blocked' <=> p \in blocked,
         page[o] \notin {"none", "closed"}, page'[o] # "listening",
         o \in blocked' => o \in rejectOnly' /\ page'[o] \notin {"gesture", "discover"}
  PROVE  Keeps(o)
<1>0. AppTypeOK /\ OpenInv(o)
  BY DEF SharedOriginIInv, SharedOriginTypeOK
<1>1. AppTypeOK'
  BY <1>0 DEF AppTypeOK, appVars
<1>2. \A p \in Opens \ {o} : Untouched(p)
  BY DEF Untouched, appVars
<1>3. OpenInv(o)'
  BY <1>0 DEF OpenInv, WaitingOK, Pending, Idle, appVars
<1> QED BY <1>1, <1>2, <1>3 DEF Keeps

LEMMA QuietSteps ==
  ASSUME SharedOriginIInv, NEW o \in Opens,
         \/ Receive(o) \/ IgnoreDuplicate(o) \/ Approve(o) \/ FallBack(o) \/ ReadFails(o)
         \/ \E status \in {"ok", "reverted", "unsimulated"} : Simulated(o, status)
         \/ \E terminal \in BOOLEAN : SignFails(o, terminal)
         \/ CloseWindow(o) \/ Reload(o)
  PROVE  Keeps(o)
<1>0. VaultTypeOK /\ OpenInv(o) /\ MaxTrouble \in Nat
  BY PopupAssumption DEF SharedOriginIInv, SharedOriginTypeOK
<1> USE DEF Enter, Trouble, userVars, historyVars
<1>1. CASE Receive(o)
  <2>1. page[o] = "listening" /\ inbox[o] \in Nat \ {0} /\ inbox' = [inbox EXCEPT ![o] = @ - 1]
    BY <1>0, <1>1 DEF Receive, Idle, VaultTypeOK
  <2>2. PICK refused \in SUBSET {o}, stage \in {"reading", "simulating", "consent"} :
          page' = [page EXCEPT ![o] = stage]
          /\ rejectOnly' = rejectOnly \cup refused /\ blocked' = blocked \cup refused
    BY <1>1 DEF Receive
  <2>3. UNCHANGED <<appVars, userVars, posted>>
    BY <1>1 DEF Receive
  <2>4. VaultTypeOK'
    BY <1>0, <2>1, <2>2, <2>3 DEF VaultTypeOK
  <2>5. page'[o] = stage
    BY <1>0, <2>2 DEF VaultTypeOK
  <2>6. o \in blocked' => o \in rejectOnly'
    BY <1>0, <2>1, <2>2 DEF OpenInv
  <2>7. \A p \in Opens \ {o} : /\ page'[p] = page[p] /\ inbox'[p] = inbox[p]
                               /\ p \in rejectOnly' <=> p \in rejectOnly
                               /\ p \in blocked' <=> p \in blocked
    BY <1>0, <2>1, <2>2 DEF VaultTypeOK
  <2> QED BY <2>1, <2>3, <2>4, <2>5, <2>6, <2>7, QuietKeeps
<1>2. CASE IgnoreDuplicate(o)
  <2>1. VaultTypeOK'
    BY <1>0, <1>2 DEF VaultTypeOK, IgnoreDuplicate
  <2> QED BY <1>0, <1>2, <2>1, QuietKeeps DEF IgnoreDuplicate, Live, Idle, VaultTypeOK, OpenInv
<1>3. CASE Approve(o)
  <2>1. VaultTypeOK'
    BY <1>0, <1>3 DEF VaultTypeOK, Approve
  <2> QED BY <1>0, <1>3, <2>1, QuietKeeps DEF Approve, VaultTypeOK, OpenInv
<1>4. CASE FallBack(o)
  <2>1. VaultTypeOK'
    BY <1>0, <1>4 DEF VaultTypeOK, FallBack
  <2> QED BY <1>0, <1>4, <2>1, QuietKeeps DEF FallBack, VaultTypeOK, OpenInv
<1>5. CASE ReadFails(o)
  <2>1. VaultTypeOK'
    BY <1>0, <1>5 DEF VaultTypeOK, ReadFails
  <2> QED BY <1>0, <1>5, <2>1, QuietKeeps DEF ReadFails, VaultTypeOK, OpenInv
<1>6. ASSUME NEW status, Simulated(o, status) PROVE Keeps(o)
  <2>1. VaultTypeOK'
    BY <1>0, <1>6 DEF VaultTypeOK, Simulated
  <2> QED BY <1>0, <1>6, <2>1, QuietKeeps DEF Simulated, VaultTypeOK, OpenInv
<1>7. ASSUME NEW terminal \in BOOLEAN, SignFails(o, terminal) PROVE Keeps(o)
  <2>1. VaultTypeOK'
    BY <1>0, <1>7 DEF VaultTypeOK, SignFails
  <2> QED BY <1>0, <1>7, <2>1, QuietKeeps DEF SignFails, VaultTypeOK, OpenInv
<1>8. CASE CloseWindow(o)
  <2>1. VaultTypeOK'
    BY <1>0, <1>8 DEF VaultTypeOK, CloseWindow, Leave
  <2> QED BY <1>0, <1>8, <2>1, QuietKeeps DEF CloseWindow, Leave, VaultTypeOK
<1>9. CASE Reload(o)
  <2>1. VaultTypeOK'
    BY <1>0, <1>9 DEF VaultTypeOK, Reload, Leave
  <2> QED BY <1>0, <1>9, <2>1, QuietKeeps DEF Reload, Leave, VaultTypeOK
<1> QED BY <1>1, <1>2, <1>3, <1>4, <1>5, <1>6, <1>7, <1>8, <1>9

(* A task that joins the queue of a pending promise, and of no other. *)
LEMMA QueueTypes ==
  ASSUME SharedOriginIInv, NEW o \in Opens, NEW t \in TaskSet, Queue(o, t),
         UNCHANGED <<request, promise, answer, polling>>
  PROVE  /\ AppTypeOK'
         /\ \A p \in Opens \ {o} : tasks'[p] = tasks[p]
         /\ tasks'[o] = IF Pending(o) THEN Append(tasks[o], t) ELSE tasks[o]
<1>1. AppTypeOK /\ tasks \in [Opens -> Seq(TaskSet)]
  BY DEF SharedOriginIInv, SharedOriginTypeOK, AppTypeOK, TaskSet
<1>2. Append(tasks[o], t) \in Seq(TaskSet)
  BY <1>1, AppendCells
<1>3. /\ tasks' \in [Opens -> Seq(TaskSet)]
      /\ \A p \in Opens \ {o} : tasks'[p] = tasks[p]
      /\ tasks'[o] = IF Pending(o) THEN Append(tasks[o], t) ELSE tasks[o]
  BY <1>1, <1>2 DEF Queue
<1> QED BY <1>1, <1>3 DEF AppTypeOK, TaskSet

(* What the queue is then, for a task that keeps the order of the results. *)
LEMMA QueueParts ==
  ASSUME SharedOriginIInv, NEW o \in Opens, NEW t \in TaskSet, NEW a, Pending(o),
         FirstResult(tasks[o], a),
         t.type = "result" => (Has(tasks[o], "result") \/ t.answer = a) /\ page[o] # "closed"
  PROVE  /\ \A type : Has(Append(tasks[o], t), type) <=> Has(tasks[o], type) \/ type = t.type
         /\ FirstResult(Append(tasks[o], t), a)
         /\ DeferredLast(Append(tasks[o], t))
<1>1. tasks[o] \in Seq(TaskSet) /\ WaitingOK(o)
  BY Queued DEF OpenInv
<1>2. \A type : Has(Append(tasks[o], t), type) <=> Has(tasks[o], type) \/ type = t.type
  BY <1>1, HasAppend
<1>3. FirstResult(Append(tasks[o], t), a)
  BY <1>1, FirstResultAppend
<1>4. DeferredLast(Append(tasks[o], t))
  BY <1>1, DeferredLastAppend DEF WaitingOK
<1> QED BY <1>2, <1>3, <1>4

LEMMA PollDueKeeps ==
  ASSUME SharedOriginIInv, NEW o \in Opens, PollDue(o)
  PROVE  Keeps(o)
<1> DEFINE t == Task("poll")
<1>0. AppTypeOK /\ VaultTypeOK /\ OpenInv(o) /\ o \in polling
  BY DEF SharedOriginIInv, SharedOriginTypeOK, PollDue
<1>1. Pending(o) /\ WaitingOK(o)
  BY <1>0 DEF OpenInv
<1>2. t \in TaskSet /\ t.type = "poll"
  BY TaskIsTask DEF TaskTypes
<1> HIDE DEF t
<1>3. /\ Queue(o, t)
      /\ UNCHANGED <<request, promise, answer, polling, page, inbox, rejectOnly, enrolled, trouble,
                     posted, blocked>>
  BY DEF PollDue, pageVars, userVars, historyVars, t
<1>4. AppTypeOK' /\ tasks'[o] = Append(tasks[o], t) /\ \A p \in Opens \ {o} : tasks'[p] = tasks[p]
  BY <1>1, <1>2, <1>3, QueueTypes
<1>5. VaultTypeOK'
  BY <1>0, <1>3 DEF VaultTypeOK
<1>6. \A p \in Opens \ {o} : Untouched(p)
  BY <1>3, <1>4 DEF Untouched
<1>7. WaitingOK(o)'
  <2>1. /\ \A type : Has(tasks'[o], type) <=> Has(tasks[o], type) \/ type = "poll"
        /\ FirstResult(tasks'[o], posted[o])
        /\ DeferredLast(tasks'[o])
    <3>1. FirstResult(tasks[o], posted[o])
      BY <1>1 DEF WaitingOK
    <3>2. t.type # "result"
      BY <1>1, <1>2
    <3>3. /\ \A type : Has(Append(tasks[o], t), type) <=> Has(tasks[o], type) \/ type = t.type
          /\ FirstResult(Append(tasks[o], t), posted[o])
          /\ DeferredLast(Append(tasks[o], t))
      BY <1>1, <1>2, <3>1, QueueParts, <3>2
    <3> QED BY <3>3, <1>1, <1>2, <1>4
  <2> QED BY <1>1, <1>3, <2>1 DEF WaitingOK, Idle
<1>8. OpenInv(o)'
  BY <1>0, <1>1, <1>3, <1>7 DEF OpenInv, Pending
<1> QED BY <1>4, <1>5, <1>6, <1>8 DEF Keeps

LEMMA LoadKeeps ==
  ASSUME SharedOriginIInv, NEW o \in Opens, Load(o)
  PROVE  Keeps(o)
<1> DEFINE t == Task("ready")
<1>0. AppTypeOK /\ VaultTypeOK /\ OpenInv(o) /\ page[o] = "loading"
  BY DEF SharedOriginIInv, SharedOriginTypeOK, Load
<1>1. t \in TaskSet /\ t.type = "ready"
  BY TaskIsTask DEF TaskTypes
<1> HIDE DEF t
<1>2. /\ Queue(o, t) /\ page' = [page EXCEPT ![o] = "listening"]
      /\ UNCHANGED <<request, promise, answer, polling, inbox, rejectOnly, enrolled, trouble,
                     posted, blocked>>
  BY DEF Load, userVars, historyVars, t
<1>3. /\ AppTypeOK'
      /\ \A p \in Opens \ {o} : tasks'[p] = tasks[p]
      /\ tasks'[o] = IF Pending(o) THEN Append(tasks[o], t) ELSE tasks[o]
  BY <1>1, <1>2, QueueTypes
<1>4. VaultTypeOK'
  BY <1>0, <1>2 DEF VaultTypeOK
<1>5. \A p \in Opens \ {o} : Untouched(p)
  BY <1>0, <1>2, <1>3 DEF Untouched, VaultTypeOK
<1>6. ASSUME Pending(o) PROVE WaitingOK(o)'
  <2>1. /\ \A type : Has(tasks'[o], type) <=> Has(tasks[o], type) \/ type = "ready"
        /\ FirstResult(tasks'[o], posted[o])
        /\ DeferredLast(tasks'[o])
    <3>1. FirstResult(tasks[o], posted[o])
      BY <1>0, <1>6 DEF OpenInv, WaitingOK
    <3>2. t.type # "result"
      BY <1>1, <1>2
    <3>3. /\ \A type : Has(Append(tasks[o], t), type) <=> Has(tasks[o], type) \/ type = t.type
          /\ FirstResult(Append(tasks[o], t), posted[o])
          /\ DeferredLast(Append(tasks[o], t))
      BY <1>1, <1>6, <3>1, QueueParts, <3>2
    <3> QED BY <3>3, <1>1, <1>2, <1>3, <1>6
  <2>2. WaitingOK(o) /\ page[o] = "loading"
    BY <1>0, <1>6 DEF OpenInv
  <2> QED BY <1>2, <2>1, <2>2 DEF WaitingOK, Idle
<1>7. OpenInv(o)'
  <2>1. page'[o] = "listening"
    BY <1>0, <1>2 DEF VaultTypeOK
  <2>2. ~Pending(o) => tasks'[o] = tasks[o]
    BY <1>3
  <2>3. (Pending(o) <=> Pending(o)') /\ (Pending(o)' => WaitingOK(o)')
    BY <1>2, <1>6 DEF Pending
  <2> QED BY <1>0, <1>2, <2>1, <2>2, <2>3 DEF OpenInv
<1> QED BY <1>3, <1>4, <1>5, <1>7 DEF Keeps

LEMMA ReplyKeeps ==
  ASSUME SharedOriginIInv, NEW o \in Opens, NEW a \in Answers, a # NoAnswer,
         page[o] \notin {"none", "closed"}, Reply(o, a)
  PROVE  Keeps(o)
<1> DEFINE t == Result(a)
<1>0. AppTypeOK /\ VaultTypeOK /\ OpenInv(o)
  BY DEF SharedOriginIInv, SharedOriginTypeOK
<1>1. t \in TaskSet /\ t.type = "result" /\ t.answer = a
  BY DEF Result, TaskSet, TaskTypes
<1> HIDE DEF t
<1>2. /\ Queue(o, t)
      /\ posted' = IF Pending(o) /\ posted[o] = NoAnswer THEN [posted EXCEPT ![o] = a] ELSE posted
      /\ UNCHANGED <<request, promise, answer, polling, enrolled, trouble>>
  BY DEF Reply, userVars, t
<1>3. /\ AppTypeOK'
      /\ \A p \in Opens \ {o} : tasks'[p] = tasks[p]
      /\ tasks'[o] = IF Pending(o) THEN Append(tasks[o], t) ELSE tasks[o]
  BY <1>1, <1>2, QueueTypes
<1>4. PICK ends \in {"closed", "answered"} :
        /\ page' = [page EXCEPT ![o] = ends]
        /\ \A p \in Opens \ {o} : /\ inbox'[p] = inbox[p]
                                  /\ p \in rejectOnly' <=> p \in rejectOnly
                                  /\ p \in blocked' <=> p \in blocked
        /\ o \in blocked' => o \in blocked /\ (o \in rejectOnly' <=> o \in rejectOnly)
        /\ inbox' \in [Opens -> Nat] /\ rejectOnly' \subseteq Opens /\ blocked' \subseteq Opens
  BY <1>0 DEF Reply, Enter, VaultTypeOK
<1>5. VaultTypeOK'
  BY <1>0, <1>2, <1>4 DEF VaultTypeOK
<1>6. \A p \in Opens \ {o} : Untouched(p)
  BY <1>0, <1>2, <1>3, <1>4 DEF Untouched, VaultTypeOK
<1>7. page'[o] = ends /\ posted'[o] = IF Pending(o) /\ posted[o] = NoAnswer THEN a ELSE posted[o]
  BY <1>0, <1>2, <1>4 DEF VaultTypeOK
<1>8. ASSUME Pending(o) PROVE WaitingOK(o)'
  <2>0. WaitingOK(o)
    BY <1>0, <1>8 DEF OpenInv
  <2>1. FirstResult(tasks[o], posted'[o])
    <3>1. CASE posted[o] = NoAnswer
      BY <2>0, <3>1 DEF WaitingOK, FirstResult, Has
    <3>2. CASE posted[o] # NoAnswer
      BY <2>0, <3>2, <1>7 DEF WaitingOK
    <3> QED BY <3>1, <3>2
  <2>2. Has(tasks[o], "result") \/ t.answer = posted'[o]
    BY <2>0, <1>1, <1>7, <1>8 DEF WaitingOK
  <2>3. /\ \A type : Has(Append(tasks[o], t), type) <=> Has(tasks[o], type) \/ type = t.type
        /\ FirstResult(Append(tasks[o], t), posted'[o])
        /\ DeferredLast(Append(tasks[o], t))
    BY <1>1, <1>8, <2>1, <2>2, QueueParts
  <2>4. /\ \A type : Has(tasks'[o], type) <=> Has(tasks[o], type) \/ type = "result"
        /\ FirstResult(tasks'[o], posted'[o])
        /\ DeferredLast(tasks'[o])
    BY <1>1, <1>3, <1>8, <2>3
  <2>5. posted'[o] # NoAnswer
    BY <1>7, <1>8
  <2> QED BY <1>2, <1>7, <2>0, <2>4, <2>5 DEF WaitingOK, Idle
<1>9. OpenInv(o)'
  <2>1. ~Pending(o) => tasks'[o] = tasks[o] /\ posted'[o] = posted[o]
    BY <1>3, <1>7
  <2>2. (Pending(o) <=> Pending(o)') /\ (Pending(o)' => WaitingOK(o)')
    BY <1>2, <1>8 DEF Pending
  <2>3. o \in blocked' => o \in rejectOnly'
    BY <1>0, <1>4 DEF OpenInv
  <2>4. promise[o] = "resolved" \/ promise[o] = "closed" \/ promise[o] = "unmade" => ~Pending(o)
    BY DEF Pending
  <2> QED BY <1>0, <1>2, <1>7, <2>1, <2>2, <2>3, <2>4 DEF OpenInv
<1> QED BY <1>3, <1>5, <1>6, <1>9 DEF Keeps

LEMMA AnswerSteps ==
  ASSUME SharedOriginIInv, NEW o \in Opens,
         \/ Reject(o)
         \/ \E p \in Passkeys : Sign(o, p) \/ ReadAccount(o, p)
  PROVE  Keeps(o)
<1>0. enrolled \subseteq Passkeys
  BY DEF SharedOriginIInv, SharedOriginTypeOK, VaultTypeOK
<1>1. CASE Reject(o)
  BY <1>1, ReplyKeeps DEF Reject, Rejected, Answers, NoAnswer
<1>2. ASSUME NEW p \in Passkeys, Sign(o, p) PROVE Keeps(o)
  BY <1>2, ReplyKeeps DEF Sign, Answers, NoAnswer
<1>3. ASSUME NEW p \in Passkeys, ReadAccount(o, p) PROVE Keeps(o)
  BY <1>3, ReplyKeeps DEF ReadAccount, Answers, NoAnswer
<1> QED BY <1>1, <1>2, <1>3

LEMMA ChannelKeeps ==
  ASSUME SharedOriginIInv, ChannelStep, UNCHANGED connectionVars
  PROVE  SharedOriginIInv'
<1>1. PICK o \in Opens : PollDue(o) \/ AppStep(o) \/ TimeOut(o) \/ VaultStep(o)
  BY DEF ChannelStep
<1>2. ASSUME AppStep(o) PROVE Keeps(o)
  BY <1>2, OnReadyKeeps, OnResultKeeps, OnPollKeeps, OnDeferredKeeps DEF AppStep
<1>3. ASSUME VaultStep(o) PROVE Keeps(o)
  BY <1>3, LoadKeeps, QuietSteps, AnswerSteps DEF VaultStep
<1>4. Keeps(o)
  BY <1>1, <1>2, <1>3, PollDueKeeps, TimeOutKeeps
<1>5. ConnectionTypeOK'
  BY DEF SharedOriginIInv, SharedOriginTypeOK, ConnectionTypeOK, connectionVars
<1> QED BY <1>4, <1>5, OneOpen, ChannelKeepsAccount DEF Keeps, SharedOriginTypeOK

LEMMA OpeningKeeps ==
  ASSUME SharedOriginIInv, NEW o \in Opens, NEW r \in Requests, Open(o, r),
         UNCHANGED <<current, stored>>,
         connecting' \in [Opens -> {"no", "asked", "done", "lost"}]
  PROVE  SharedOriginIInv'
<1>1. ConnectionTypeOK'
  BY DEF SharedOriginIInv, SharedOriginTypeOK, ConnectionTypeOK
<1>2. ReloadKeepsAccount'
  BY DEF SharedOriginIInv, ReloadKeepsAccount
<1> QED BY <1>1, <1>2, OpenStep, OneOpen DEF Keeps, SharedOriginTypeOK

(* Steps that leave every window and promise alone. *)
LEMMA ChannelAtRest ==
  ASSUME SharedOriginIInv, UNCHANGED popupVars, ConnectionTypeOK', ReloadKeepsAccount'
  PROVE  SharedOriginIInv'
<1> USE DEF popupVars, appVars, pageVars, userVars, historyVars
<1>1. AppTypeOK' /\ VaultTypeOK'
  BY DEF SharedOriginIInv, SharedOriginTypeOK, AppTypeOK, VaultTypeOK
<1>2. \A o \in Opens : OpenInv(o)'
  BY UntouchedKeeps DEF SharedOriginIInv, Untouched
<1> QED BY <1>1, <1>2 DEF SharedOriginIInv, SharedOriginTypeOK

LEMMA AppReloadKeeps ==
  ASSUME SharedOriginIInv, AppReload
  PROVE  SharedOriginIInv'
<1>0. AppTypeOK /\ VaultTypeOK /\ ConnectionTypeOK /\ MaxTrouble \in Nat
  BY PopupAssumption DEF SharedOriginIInv, SharedOriginTypeOK
<1>1. /\ promise' = [o \in Opens |-> IF Pending(o) THEN "lost" ELSE promise[o]]
      /\ polling' = {} /\ tasks' = [o \in Opens |-> <<>>]
      /\ UNCHANGED <<request, answer, page, inbox, rejectOnly, enrolled, posted, blocked>>
      /\ current' = NoPasskey /\ stored' = stored
      /\ connecting' = [o \in Opens |-> IF connecting[o] = "asked" THEN "lost" ELSE connecting[o]]
  BY DEF AppReload, DropPending, pageVars, historyVars
<1>2. AppTypeOK'
  <2>1. promise' \in [Opens -> {"unmade", "pending", "blocked", "resolved", "closed", "timedOut", "lost"}]
    BY <1>0, <1>1 DEF AppTypeOK
  <2>2. tasks' \in [Opens -> Seq(TaskSet)]
    BY <1>1
  <2> QED BY <1>0, <1>1, <2>1, <2>2 DEF AppTypeOK, TaskSet
<1>3. VaultTypeOK'
  BY <1>0, <1>1 DEF VaultTypeOK, AppReload, Trouble
<1>4. ConnectionTypeOK'
  BY <1>0, <1>1 DEF ConnectionTypeOK
<1>5. ASSUME NEW o \in Opens PROVE OpenInv(o)'
  <2>1. OpenInv(o) /\ ~Pending(o)' /\ tasks'[o] = <<>>
    BY <1>1 DEF SharedOriginIInv, Pending
  <2> QED BY <1>1, <2>1 DEF OpenInv, Pending
<1>6. ReloadKeepsAccount'
  BY <1>1 DEF ReloadKeepsAccount
<1> QED BY <1>2, <1>3, <1>4, <1>5, <1>6 DEF SharedOriginIInv, SharedOriginTypeOK

LEMMA SharedOriginNext == SharedOriginIInv /\ [Next]_vars => SharedOriginIInv'
<1> SUFFICES ASSUME SharedOriginIInv, [Next]_vars PROVE SharedOriginIInv'
  OBVIOUS
<1>0. ConnectionTypeOK /\ AppTypeOK
  BY DEF SharedOriginIInv, SharedOriginTypeOK
<1>1. CASE ChannelStep /\ UNCHANGED connectionVars
  BY <1>1, ChannelKeeps
<1>2. ASSUME NEW o \in Opens, Connect(o) PROVE SharedOriginIInv'
  <2>1. [kind |-> "authorize", credential |-> NoPasskey] \in Requests
    BY DEF Requests, Kinds
  <2>2. connecting' \in [Opens -> {"no", "asked", "done", "lost"}]
    BY <1>0, <1>2 DEF Connect, ConnectionTypeOK
  <2> QED BY <1>2, <2>1, <2>2, OpeningKeeps DEF Connect
<1>3. ASSUME NEW o \in Opens, NEW kind \in Kinds, SignWithVault(o, kind) PROVE SharedOriginIInv'
  <2>1. [kind |-> kind, credential |-> CredentialOf(Account)] \in Requests
    BY <1>0 DEF Requests, CredentialOf, Account, ConnectionTypeOK
  <2>2. connecting' \in [Opens -> {"no", "asked", "done", "lost"}] /\ UNCHANGED <<current, stored>>
    BY <1>0, <1>3 DEF SignWithVault, ConnectionTypeOK, connectionVars
  <2> QED BY <1>3, <2>1, <2>2, OpeningKeeps DEF SignWithVault
<1>4. ASSUME NEW o \in Opens, Save(o) PROVE SharedOriginIInv'
  <2>1. answer[o].passkey \in Passkeys \cup {NoPasskey}
    BY <1>0 DEF AppTypeOK, Answers, NoAnswer
  <2>2. ConnectionTypeOK' /\ ReloadKeepsAccount'
    BY <1>0, <1>4, <2>1 DEF Save, ConnectionTypeOK, ReloadKeepsAccount
  <2> QED BY <1>4, <2>2, ChannelAtRest DEF Save
<1>5. CASE Logout
  <2>1. ConnectionTypeOK' /\ ReloadKeepsAccount'
    BY <1>0, <1>5 DEF Logout, ConnectionTypeOK, ReloadKeepsAccount
  <2> QED BY <1>5, <2>1, ChannelAtRest DEF Logout
<1>6. CASE UNCHANGED vars
  <2>1. ConnectionTypeOK' /\ ReloadKeepsAccount'
    BY <1>0, <1>6 DEF vars, connectionVars, ConnectionTypeOK, SharedOriginIInv, ReloadKeepsAccount
  <2> QED BY <1>6, <2>1, ChannelAtRest DEF vars
<1> QED BY <1>1, <1>2, <1>3, <1>4, <1>5, <1>6, AppReloadKeeps DEF Next, DropUnusable

-----------------------------------------------------------------------------
(* The theorems.                                                           *)

(* SharedOriginIInv holds throughout, whatever the windows, the user and   *)
(* the app's other calls do, and in whatever order their tasks run.        *)
THEOREM SharedOriginInvariant == Spec => []SharedOriginIInv
  BY SharedOriginInit, SharedOriginNext, PTL DEF Spec

(* The types the module states are those of every reachable state.         *)
THEOREM SharedOriginTypes == Spec => []SharedOriginTypeOK
<1>1. SharedOriginIInv => SharedOriginTypeOK
  BY DEF SharedOriginIInv
<1> QED BY <1>1, SharedOriginInvariant, PTL

(* The request reaches a page that is ready for it, however the eager post *)
(* and the reloads of the page fall (web.ts 87-97, ceremony.ts 309-327).  *)
THEOREM HandshakeTheorem == Spec => []HandshakeNeverStalls
<1>1. SharedOriginIInv => HandshakeNeverStalls
  BY DEF SharedOriginIInv, OpenInv, WaitingOK, HandshakeNeverStalls, Scheduled
<1> QED BY <1>1, SharedOriginInvariant, PTL

(* A promise resolves to the first answer of its own window, for any       *)
(* number of windows of the vault's origin (web.ts 76, 99-103).            *)
THEOREM AnswersAreOwnTheorem == Spec => []AnswersAreOwn
<1>1. SharedOriginIInv => AnswersAreOwn
  BY DEF SharedOriginIInv, OpenInv, AnswersAreOwn
<1> QED BY <1>1, SharedOriginInvariant, PTL

(* A closed window is not reported before what it posted is (web.ts        *)
(* 113-125).                                                               *)
THEOREM AnswersAreNotLostTheorem == Spec => []AnswersAreNotLost
<1>1. SharedOriginIInv => AnswersAreNotLost
  BY DEF SharedOriginIInv, OpenInv, AnswersAreNotLost
<1> QED BY <1>1, SharedOriginInvariant, PTL

(* An answer or the end of a window always has a task to report it: the    *)
(* app never waits on for a page that is done (web.ts 99-127).             *)
THEOREM EndedPageTheorem == Spec => []EndedPageIsNoticed
<1>1. SharedOriginIInv => EndedPageIsNoticed
  BY DEF SharedOriginIInv, OpenInv, WaitingOK, EndedPageIsNoticed, Scheduled
<1> QED BY <1>1, SharedOriginInvariant, PTL

(* Nobody waits for what is not queued, on either side of the channel.     *)
THEOREM NobodyWaitsTheorem == Spec => []NobodyWaitsInVain
<1>1. HandshakeNeverStalls /\ EndedPageIsNoticed => NobodyWaitsInVain
  BY DEF NobodyWaitsInVain
<1> QED BY <1>1, HandshakeTheorem, EndedPageTheorem, PTL

(* What must not be signed is not put to a passkey (ceremony.ts runSign).  *)
THEOREM BlockedTheorem == Spec => []BlockedIsNeverPrompted
<1>1. SharedOriginIInv => BlockedIsNeverPrompted
  BY DEF SharedOriginIInv, SharedOriginTypeOK, VaultTypeOK, OpenInv, BlockedIsNeverPrompted
<1> QED BY <1>1, SharedOriginInvariant, PTL

(* Memory and storage agree about the account through every interleaving   *)
(* of connect(), logout() and a reload (connection.ts 71-105, 152-155).    *)
THEOREM ReloadKeepsAccountTheorem == Spec => []ReloadKeepsAccount
<1>1. SharedOriginIInv => ReloadKeepsAccount
  BY DEF SharedOriginIInv
<1> QED BY <1>1, SharedOriginInvariant, PTL
=============================================================================
