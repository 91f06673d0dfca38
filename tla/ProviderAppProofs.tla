-------------------------- MODULE ProviderAppProofs --------------------------
(***************************************************************************)
(* What is proved of an app around its connection (ProviderApp), for any   *)
(* requests, keys, wallets and chains, on both transports: sessions and    *)
(* promises belong together, the account comes only from this connect's    *)
(* own page and moves in the open, and a call that was reported included   *)
(* is included.                                                            *)
(***************************************************************************)
EXTENDS ProviderApp, FiniteSetTheorems, TLAPS

Verbs == {"none", "login", "requestAccounts", "sign", "send", "status"}
Stages == {"idle", "waiting", "verifying", "signed", "polling", "polled", "done", "failed"}
Included == {"confirmed", "failed"}
Fates == {"pending", "confirmed", "failed"}

-------------------------------------------------------------------------------
(* The inductive invariant. *)

AppTypes ==
  /\ running \in BOOLEAN
  /\ verb \in [Jobs -> Verbs]
  /\ stage \in [Jobs -> Stages]
  /\ reply \in [Jobs -> Answers \cup {NoAnswer}]
  /\ chainId \in Chains
  /\ dapp \in [connected : BOOLEAN, wallet : Wallets \cup {NoWallet}]

\* One session for each promise that waits, in every state; a native app has
\* one at most.
OneSessionEach ==
  /\ pages \subseteq Jobs
  /\ sessions = {j \in Jobs : stage[j] = "waiting"}
  /\ transport = "native" => \A i, j \in sessions : i = j

\* An answer says which page it came from by the challenge it signs; what is
\* verified is an account, and what was accepted for a signature is one.
AnswersFit ==
  \A j \in Jobs :
    /\ reply[j] # NoAnswer => reply[j].nonce = reply[j].from
    /\ stage[j] = "verifying" =>
         /\ verb[j] \in {"login", "requestAccounts"}
         /\ reply[j] # NoAnswer /\ reply[j].key # NoKey
    /\ stage[j] = "signed" => verb[j] = "send"
    /\ stage[j] \in {"polling", "polled"} => verb[j] = "status"
    /\ verb[j] \in {"sign", "send"} /\ stage[j] \in {"signed", "done"} /\ reply[j] # NoAnswer =>
         reply[j].kind = "sign" /\ reply[j].key # NoKey

\* A process that does not run remembers no account, and one that runs has
\* dropped what it cannot use.
AccountKept ==
  /\ current \in Keys \cup {NoKey}
  /\ stored \in Keys \cup {NoKey, Malformed}
  /\ ~running => current = NoKey
  /\ running /\ storage # "secure" => stored # Malformed
  /\ running => (snap.status <=> snap.key # NoKey)

\* What a poll holds, what the provider holds and what the dapp was told are
\* behind the chain and never ahead of it.
ReportsFollow ==
  /\ onchain \in [Jobs -> Fates \cup {"none"}]
  /\ calls \in [Jobs -> Fates \cup {"none"}]
  /\ told \in [Jobs -> Fates \cup {"none"}]
  /\ seen \in [Jobs -> {<<>>} \cup (Jobs \X Fates)]
  /\ \A j \in Jobs :
       /\ onchain[j] # "none" => stage[j] = "done"
       /\ calls[j] \in Included => onchain[j] = calls[j]
       /\ told[j] \in Included => onchain[j] = told[j]
       /\ stage[j] \in {"polling", "polled"} =>
            /\ seen[j] \in Jobs \X Fates
            /\ seen[j][2] \in Included => onchain[seen[j][1]] = seen[j][2]

AppIInv == AppTypes /\ OneSessionEach /\ AnswersFit /\ AccountKept /\ ReportsFollow

-------------------------------------------------------------------------------
(* Lemmas about what the actions share. *)

LEMMA AppInit == Init => AppIInv
<1> SUFFICES ASSUME Init PROVE AppIInv
  OBVIOUS
<1>1. AppTypes
  BY DEF Init, AppTypes, Verbs, Stages, NoView
<1>2. OneSessionEach
  BY DEF Init, ChannelInit, OneSessionEach
<1>3. AnswersFit
  BY DEF Init, AnswersFit
<1>4. AccountKept
  BY DEF Init, AccountKept, NoSnap
<1>5. ReportsFollow
  <2>1. seen \in [Jobs -> {<<>>} \cup (Jobs \X Fates)]
    BY DEF Init
  <2>2. \A j \in Jobs : onchain[j] = "none" /\ calls[j] = "none" /\ told[j] = "none" /\ stage[j] = "idle"
    BY DEF Init
  <2>3. /\ onchain \in [Jobs -> Fates \cup {"none"}]
        /\ calls \in [Jobs -> Fates \cup {"none"}]
        /\ told \in [Jobs -> Fates \cup {"none"}]
    BY DEF Init
  <2> QED
    BY <2>1, <2>2, <2>3 DEF ReportsFollow, Included
<1> QED
  BY <1>1, <1>2, <1>3, <1>4, <1>5 DEF AppIInv

\* What a client makes of the account in memory and in storage.
LEMMA AccountIs ==
  ASSUME current \in Keys \cup {NoKey}, stored \in Keys \cup {NoKey, Malformed}
  PROVE  /\ Account \in Keys \cup {NoKey}
         /\ Wallet(Account) \in Wallets \cup {NoWallet}
         /\ (storage # "secure" => stored # Malformed)
              => (Status <=> Account # NoKey)
BY ProviderAppAssumption DEF Account, Status, ResolveAccount, LoadAccount, Wallet, Wallets

LEMMA AccountIsNext ==
  ASSUME current' \in Keys \cup {NoKey}, stored' \in Keys \cup {NoKey, Malformed}
  PROVE  /\ Account' \in Keys \cup {NoKey}
         /\ Wallet(Account') \in Wallets \cup {NoWallet}
         /\ (storage' # "secure" => stored' # Malformed)
              => (Status' <=> Account' # NoKey)
BY ProviderAppAssumption DEF Account, Status, ResolveAccount, LoadAccount, Wallet, Wallets

\* A request that opens a session waits in it.
LEMMA AskStep ==
  ASSUME AppTypes, OneSessionEach, NEW j \in Jobs, NEW v, stage[j] = "idle", Ask(j, v)
  PROVE  /\ \E s \in {"waiting", "failed"} : stage' = [stage EXCEPT ![j] = s]
         /\ OneSessionEach'
<1>1. stage \in [Jobs -> Stages]
  BY DEF AppTypes
<1>2. CASE OpenSession(j) /\ To(j, "waiting") /\ ~Locked
  <2>1. stage' = [stage EXCEPT ![j] = "waiting"] /\ sessions' = sessions \cup {j}
        /\ pages' = pages \cup {j} /\ transport' = transport
    BY <1>2 DEF OpenSession, To
  <2>2. sessions' = {i \in Jobs : stage'[i] = "waiting"}
    BY <1>1, <2>1 DEF OneSessionEach
  <2> QED
    BY <1>2, <2>1, <2>2 DEF OneSessionEach, Locked
<1>3. CASE UNCHANGED channelVars /\ To(j, "failed")
  <2>1. stage' = [stage EXCEPT ![j] = "failed"] /\ UNCHANGED <<transport, sessions, pages>>
    BY <1>3 DEF To, channelVars
  <2>2. sessions' = {i \in Jobs : stage'[i] = "waiting"}
    BY <1>1, <2>1 DEF OneSessionEach
  <2> QED
    BY <2>1, <2>2 DEF OneSessionEach
<1> QED
  BY <1>2, <1>3 DEF Ask

\* A job leaves a stage that is not "waiting" for another that is not: the
\* sessions and what they wait for are the same.
LEMMA MoveOn ==
  ASSUME AppTypes, OneSessionEach, NEW j \in Jobs, stage[j] # "waiting",
         NEW s \in Stages \ {"waiting"}, To(j, s), UNCHANGED channelVars
  PROVE  OneSessionEach'
<1>1. stage' = [stage EXCEPT ![j] = s] /\ UNCHANGED <<transport, sessions, pages>>
  BY DEF To, channelVars
<1>2. sessions' = {i \in Jobs : stage'[i] = "waiting"}
  BY <1>1 DEF AppTypes, OneSessionEach
<1> QED
  BY <1>1, <1>2 DEF OneSessionEach

\* A request that starts takes its verb, and waits, fails or, for accounts the
\* client has, is answered.
LEMMA Begun ==
  ASSUME AppIInv, NEW j \in Jobs, NEW v \in Verbs, NEW s \in {"waiting", "failed", "done"},
         stage[j] = "idle", verb' = [verb EXCEPT ![j] = v], stage' = [stage EXCEPT ![j] = s],
         s = "done" => v = "requestAccounts",
         OneSessionEach', dapp' \in [connected : BOOLEAN, wallet : Wallets \cup {NoWallet}],
         UNCHANGED <<running, accountVars, reply, callVars, chainId, snap>>
  PROVE  AppIInv'
<1>1. AppTypes'
  BY DEF AppIInv, AppTypes, Stages
<1>2. AnswersFit'
  BY DEF AppIInv, AppTypes, AnswersFit
<1>3. AccountKept'
  BY DEF AppIInv, AccountKept, accountVars
<1>4. ReportsFollow'
  BY DEF AppIInv, AppTypes, ReportsFollow, callVars
<1> QED
  BY <1>1, <1>2, <1>3, <1>4 DEF AppIInv

-------------------------------------------------------------------------------
(* Every step keeps the invariant. *)

LEMMA RequestStep ==
  ASSUME AppIInv, NEW j \in Jobs,
         Login(j) \/ RequestAccounts(j) \/ SendCalls(j) \/ \E w \in Wallets : Sign(j, w)
  PROVE  AppIInv'
<1>1. AppTypes /\ OneSessionEach /\ AccountKept
  BY DEF AppIInv
<1>2. /\ dapp \in [connected : BOOLEAN, wallet : Wallets \cup {NoWallet}]
      /\ Wallet(Account) \in Wallets \cup {NoWallet}
  BY <1>1, AccountIs DEF AppTypes, AccountKept
<1>3. CASE Login(j)
  BY <1>1, <1>2, <1>3, AskStep, Begun DEF Login, Begin, viewVars, Verbs
<1>4. CASE SendCalls(j)
  <2>1. /\ stage[j] = "idle" /\ verb' = [verb EXCEPT ![j] = "send"]
        /\ UNCHANGED <<running, accountVars, reply, callVars, chainId, viewVars>>
    BY <1>4 DEF SendCalls, Begin
  <2>2. CASE Ask(j, "send")
    BY <1>1, <1>2, <2>1, <2>2, AskStep, Begun DEF viewVars, Verbs
  <2>3. CASE To(j, "failed") /\ UNCHANGED channelVars
    <3>1. OneSessionEach'
      BY <1>1, <2>1, <2>3, MoveOn DEF Stages
    <3> QED
      BY <1>2, <2>1, <2>3, <3>1, Begun DEF viewVars, Verbs, To
  <2> QED
    BY <1>4, <2>2, <2>3 DEF SendCalls
<1>5. ASSUME NEW w \in Wallets, Sign(j, w)
      PROVE  AppIInv'
  <2>1. /\ stage[j] = "idle" /\ verb' = [verb EXCEPT ![j] = "sign"]
        /\ UNCHANGED <<running, accountVars, reply, callVars, chainId, viewVars>>
    BY <1>5 DEF Sign, Begin
  <2>2. CASE Ask(j, "sign")
    BY <1>1, <1>2, <2>1, <2>2, AskStep, Begun DEF viewVars, Verbs
  <2>3. CASE To(j, "failed") /\ UNCHANGED channelVars
    <3>1. OneSessionEach'
      BY <1>1, <2>1, <2>3, MoveOn DEF Stages
    <3> QED
      BY <1>2, <2>1, <2>3, <3>1, Begun DEF viewVars, Verbs, To
  <2> QED
    BY <1>5, <2>2, <2>3 DEF Sign
<1>6. CASE RequestAccounts(j)
  <2>1. /\ stage[j] = "idle" /\ verb' = [verb EXCEPT ![j] = "requestAccounts"]
        /\ UNCHANGED <<running, accountVars, reply, callVars, chainId, snap>>
    BY <1>6 DEF RequestAccounts, Begin
  <2>2. CASE Ask(j, "requestAccounts") /\ UNCHANGED dapp
    BY <1>1, <1>2, <2>1, <2>2, AskStep, Begun DEF Verbs
  <2>3. CASE To(j, "done") /\ UNCHANGED channelVars /\ dapp' = [dapp EXCEPT !.wallet = Wallet(Account)]
    <3>1. OneSessionEach'
      BY <1>1, <2>1, <2>3, MoveOn DEF Stages
    <3>2. dapp' \in [connected : BOOLEAN, wallet : Wallets \cup {NoWallet}]
      BY <1>2, <2>3
    <3> QED
      BY <2>1, <2>3, <3>1, <3>2, Begun DEF Verbs, To
  <2> QED
    BY <1>6, <2>2, <2>3 DEF RequestAccounts
<1> QED
  BY <1>3, <1>4, <1>5, <1>6

\* Listeners see the account as it then is.
LEMMA NotifyStep ==
  ASSUME AppTypes, current' \in Keys \cup {NoKey}, stored' \in Keys \cup {NoKey, Malformed}, Notify
  PROVE  /\ dapp' \in [connected : BOOLEAN, wallet : Wallets \cup {NoWallet}]
         /\ snap' = [key |-> Account', status |-> Status']
<1>1. Wallet(Account') \in Wallets \cup {NoWallet}
  BY AccountIsNext
<1>2. dapp \in [connected : BOOLEAN, wallet : Wallets \cup {NoWallet}]
  BY DEF AppTypes
<1>3. (Status' /\ Account' # NoKey) \in BOOLEAN
  OBVIOUS
<1>4. /\ dapp' = [connected |-> IF (Status' /\ Account' # NoKey) # prev.connected
                                THEN (Status' /\ Account' # NoKey) ELSE dapp.connected,
                  wallet |-> IF Wallet(Account') # prev.wallet THEN Wallet(Account') ELSE dapp.wallet]
      /\ snap' = [key |-> Account', status |-> Status']
  BY DEF Notify
<1> QED
  BY <1>1, <1>2, <1>3, <1>4

\* A step that leaves jobs and answers alone.
LEMMA JobsFrame ==
  ASSUME AppIInv, UNCHANGED <<sessions, transport, verb, stage, reply>>, pages' = pages
  PROVE  OneSessionEach' /\ AnswersFit'
BY DEF AppIInv, OneSessionEach, AnswersFit

LEMMA ReportsFrame ==
  ASSUME AppIInv, UNCHANGED <<stage, callVars>>
  PROVE  ReportsFollow'
BY DEF AppIInv, ReportsFollow, callVars

LEMMA StartStep == ASSUME AppIInv, Start PROVE AppIInv'
<1>1. /\ AppTypes /\ AccountKept
      /\ running' = TRUE /\ storage' = storage /\ current' = current /\ current = NoKey
      /\ stored' = StoredAfterRestore /\ snap' = [key |-> Account', status |-> Status']
      /\ dapp' = NoView
      /\ UNCHANGED <<transport, sessions, pages, verb, stage, reply, callVars, chainId>>
  BY DEF AppIInv, Start, channelVars, AccountKept
<1>2. /\ stored' \in Keys \cup {NoKey, Malformed} /\ current' \in Keys \cup {NoKey}
      /\ storage' # "secure" => stored' # Malformed
  BY <1>1, ProviderAppAssumption DEF AccountKept, StoredAfterRestore, ResolveAccount, LoadAccount
<1>3. Status' <=> Account' # NoKey
  BY <1>2, AccountIsNext
<1>4. AccountKept'
  BY <1>1, <1>2, <1>3 DEF AccountKept
<1>5. AppTypes'
  BY <1>1 DEF AppTypes, NoView
<1> QED
  BY <1>1, <1>4, <1>5, JobsFrame, ReportsFrame DEF AppIInv

LEMMA DieStep == ASSUME AppIInv, Die PROVE AppIInv'
<1>1. /\ AppTypes /\ AccountKept /\ AnswersFit /\ ReportsFollow /\ OneSessionEach
      /\ running' = FALSE /\ sessions' = {} /\ UNCHANGED <<transport, pages>>
      /\ current' = NoKey /\ stored' = IF storage = "memory" THEN NoKey ELSE stored
      /\ stage' = [j \in Jobs |-> IF stage[j] \in {"idle", "done"} THEN stage[j] ELSE "failed"]
      /\ reply' = [j \in Jobs |-> NoAnswer] /\ seen' = [j \in Jobs |-> <<>>]
      /\ calls' = [j \in Jobs |-> "none"] /\ told' = [j \in Jobs |-> "none"]
      /\ dapp' = NoView /\ chainId' \in Chains
      /\ UNCHANGED <<storage, verb, onchain>>
  BY DEF AppIInv, Die, LoseSessions
<1>2. stage' \in [Jobs -> Stages] /\ \A j \in Jobs : stage'[j] \in {"idle", "done", "failed"}
  BY <1>1 DEF Stages
<1>3. AppTypes'
  BY <1>1, <1>2 DEF AppTypes, NoView
<1>4. OneSessionEach'
  BY <1>1, <1>2 DEF OneSessionEach
<1>5. AnswersFit'
  BY <1>1, <1>2 DEF AnswersFit
<1>6. AccountKept'
  BY <1>1 DEF AccountKept
<1>7. ReportsFollow'
  <2>1. /\ seen' \in [Jobs -> {<<>>} \cup (Jobs \X Fates)]
        /\ onchain' \in [Jobs -> Fates \cup {"none"}]
        /\ calls' \in [Jobs -> Fates \cup {"none"}]
        /\ told' \in [Jobs -> Fates \cup {"none"}]
    BY <1>1 DEF ReportsFollow
  <2>2. \A j \in Jobs : /\ onchain'[j] # "none" => stage'[j] = "done"
                        /\ calls'[j] = "none" /\ told'[j] = "none"
    BY <1>1 DEF ReportsFollow
  <2> QED
    BY <1>2, <2>1, <2>2 DEF ReportsFollow, Included
<1> QED
  BY <1>3, <1>4, <1>5, <1>6, <1>7 DEF AppIInv

LEMMA LogoutStep == ASSUME AppIInv, Logout PROVE AppIInv'
<1>1. /\ AppTypes /\ AccountKept
      /\ running /\ current' = NoKey /\ stored' = NoKey /\ storage' = storage /\ Notify
      /\ UNCHANGED <<transport, sessions, pages, running, verb, stage, reply, callVars, chainId>>
  BY DEF AppIInv, Logout, Forget, channelVars
<1>2. /\ dapp' \in [connected : BOOLEAN, wallet : Wallets \cup {NoWallet}]
      /\ snap' = [key |-> Account', status |-> Status']
  BY <1>1, NotifyStep
<1>3. Status' <=> Account' # NoKey
  BY <1>1, AccountIsNext, ProviderAppAssumption
<1>4. AccountKept'
  BY <1>1, <1>2, <1>3, ProviderAppAssumption DEF AccountKept
<1>5. AppTypes'
  BY <1>1, <1>2 DEF AppTypes
<1> QED
  BY <1>1, <1>4, <1>5, JobsFrame, ReportsFrame DEF AppIInv

LEMMA ViewStep ==
  ASSUME AppIInv, EthAccounts \/ (\E c \in Chains : SwitchEthereumChain(c)) \/ UNCHANGED vars
  PROVE  AppIInv'
<1>1. /\ UNCHANGED <<transport, sessions, pages, running, accountVars, verb, stage, reply, callVars, snap>>
      /\ dapp' = dapp \/ dapp' = [dapp EXCEPT !.wallet = Wallet(Account)]
      /\ chainId' = chainId \/ chainId' \in Chains
  BY DEF EthAccounts, SwitchEthereumChain, vars, channelVars, viewVars
<1>2. /\ dapp \in [connected : BOOLEAN, wallet : Wallets \cup {NoWallet}]
      /\ Wallet(Account) \in Wallets \cup {NoWallet}
  BY AccountIs DEF AppIInv, AppTypes, AccountKept
<1>3. dapp' \in [connected : BOOLEAN, wallet : Wallets \cup {NoWallet}]
  BY <1>1, <1>2
<1>4. AppTypes'
  BY <1>1, <1>3 DEF AppIInv, AppTypes
<1>5. AccountKept'
  BY <1>1 DEF AppIInv, AccountKept, accountVars
<1> QED
  BY <1>1, <1>4, <1>5, JobsFrame, ReportsFrame DEF AppIInv

LEMMA DismissStep == ASSUME AppIInv, NEW j \in Jobs, Dismiss(j) PROVE AppIInv'
<1>1. /\ AppTypes /\ AccountKept /\ AnswersFit /\ ReportsFollow /\ OneSessionEach
      /\ j \in sessions /\ sessions' = sessions \ {j} /\ pages' \subseteq pages /\ transport' = transport
      /\ stage' = [stage EXCEPT ![j] = "failed"]
      /\ UNCHANGED <<running, accountVars, verb, reply, callVars, chainId, viewVars>>
  BY DEF AppIInv, Dismiss, EndSession, To
<1>2. stage[j] = "waiting"
  BY <1>1 DEF OneSessionEach
<1>3. AppTypes'
  BY <1>1 DEF AppTypes, Stages, viewVars
<1>4. OneSessionEach'
  <2>1. sessions' = {i \in Jobs : stage'[i] = "waiting"}
    BY <1>1 DEF OneSessionEach, AppTypes
  <2> QED
    BY <1>1, <2>1 DEF OneSessionEach
<1>5. AnswersFit'
  BY <1>1, <1>2 DEF AnswersFit, AppTypes
<1>6. AccountKept'
  BY <1>1 DEF AccountKept, accountVars, viewVars
<1>7. ReportsFollow'
  BY <1>1, <1>2 DEF ReportsFollow, callVars, AppTypes
<1> QED
  BY <1>3, <1>4, <1>5, <1>6, <1>7 DEF AppIInv

\* What becomes of a job whose session a callback ends.
LEMMA HandledIs ==
  ASSUME NEW j \in Jobs, NEW answer \in Answers, verb \in [Jobs -> Verbs]
  PROVE  \/ Handled(j, answer) = "failed"
         \/ /\ Handled(j, answer) = "verifying" /\ verb[j] \in {"login", "requestAccounts"}
            /\ answer.kind = "authorize"
         \/ /\ answer.kind = "sign" /\ answer.key # NoKey
            /\ Handled(j, answer) = IF verb[j] = "send" THEN "signed" ELSE "done"
<1>1. answer.kind \in {"authorize", "sign"} /\ verb[j] \in Verbs
  BY DEF Answers
<1> QED
  BY <1>1 DEF Handled, KindMatches, OpFor, IsSignature, Verbs

LEMMA PageAnswersStep ==
  ASSUME AppIInv, NEW p \in Jobs, NEW key \in Keys \cup {NoKey}, PageAnswers(p, key)
  PROVE  AppIInv'
<1> DEFINE op == OpFor(verb[p])
           answer == AnswerOf(p, op, RandomNonce(p), key)
           R == ReceiversOf(p)
<1>1. /\ AppTypes /\ AccountKept /\ AnswersFit /\ ReportsFollow /\ OneSessionEach
      /\ pages' \subseteq pages /\ sessions' = sessions \ R /\ transport' = transport
      /\ MayAnswer(op, key)
      /\ stage' = [j \in Jobs |-> IF j \in R THEN Handled(j, answer) ELSE stage[j]]
      /\ reply' = [j \in Jobs |-> IF j \in R /\ stage'[j] # "failed" THEN answer ELSE reply[j]]
      /\ UNCHANGED <<running, accountVars, verb, callVars, chainId, viewVars>>
  BY DEF AppIInv, PageAnswers, CallBack
<1>2. /\ answer \in Answers /\ answer.nonce = p /\ answer.from = p /\ answer.key = key
      /\ answer.kind = "authorize" => key # NoKey
  BY <1>1 DEF AnswerOf, Answers, RandomNonce, MayAnswer
<1>3. R \subseteq sessions /\ \A j \in R : j \in Jobs /\ stage[j] = "waiting"
  BY <1>1 DEF ReceiversOf, OneSessionEach
<1>4. PICK a : a = answer
  OBVIOUS
<1>5. ASSUME NEW j \in R
      PROVE  /\ j \in Jobs
             /\ \/ stage'[j] = "failed"
                \/ stage'[j] = "verifying" /\ verb[j] \in {"login", "requestAccounts"} /\ a.key # NoKey
                \/ a.kind = "sign" /\ a.key # NoKey
                   /\ stage'[j] = IF verb[j] = "send" THEN "signed" ELSE "done"
  <2>1. stage'[j] = Handled(j, a)
    BY <1>1, <1>3, <1>4
  <2> HIDE DEF answer
  <2> QED
    BY <1>1, <1>2, <1>3, <1>4, <2>1, HandledIs DEF AppTypes
<1>6. /\ \A j \in Jobs \ R : stage'[j] = stage[j] /\ reply'[j] = reply[j]
      /\ \A j \in R : reply'[j] = IF stage'[j] # "failed" THEN a ELSE reply[j]
      /\ a \in Answers /\ a.nonce = a.from
      /\ DOMAIN stage' = Jobs /\ DOMAIN reply' = Jobs
      /\ stage' = [j \in Jobs |-> stage'[j]] /\ reply' = [j \in Jobs |-> reply'[j]]
  BY <1>1, <1>2, <1>3, <1>4
<1>7. a # NoAnswer
  BY <1>6 DEF Answers, NoAnswer
<1> HIDE DEF answer, R, op
<1>8. AppTypes'
  <2>1. \A j \in Jobs : stage'[j] \in Stages
    BY <1>1, <1>5, <1>6 DEF AppTypes, Stages
  <2>2. \A j \in Jobs : reply'[j] \in Answers \cup {NoAnswer}
    BY <1>1, <1>5, <1>6 DEF AppTypes
  <2>3. stage' \in [Jobs -> Stages] /\ reply' \in [Jobs -> Answers \cup {NoAnswer}]
    BY <1>6, <2>1, <2>2
  <2> QED
    BY <1>1, <2>3 DEF AppTypes, viewVars
<1>9. OneSessionEach'
  <2>1. sessions' = {i \in Jobs : stage'[i] = "waiting"}
    BY <1>1, <1>3, <1>5, <1>6 DEF OneSessionEach
  <2> QED
    BY <1>1, <2>1 DEF OneSessionEach
<1>10. AnswersFit'
  <2> SUFFICES ASSUME NEW j \in Jobs
               PROVE  /\ reply'[j] # NoAnswer => reply'[j].nonce = reply'[j].from
                      /\ stage'[j] = "verifying" =>
                           /\ verb[j] \in {"login", "requestAccounts"}
                           /\ reply'[j] # NoAnswer /\ reply'[j].key # NoKey
                      /\ stage'[j] = "signed" => verb[j] = "send"
                      /\ stage'[j] \in {"polling", "polled"} => verb[j] = "status"
                      /\ verb[j] \in {"sign", "send"} /\ stage'[j] \in {"signed", "done"}
                           /\ reply'[j] # NoAnswer => reply'[j].kind = "sign" /\ reply'[j].key # NoKey
    BY <1>1 DEF AnswersFit
  <2>1. CASE j \in R
    BY <1>1, <1>5, <1>6, <1>7, <2>1 DEF AnswersFit
  <2>2. CASE j \notin R
    BY <1>1, <1>6, <2>2 DEF AnswersFit
  <2> QED
    BY <2>1, <2>2
<1>11. AccountKept'
  BY <1>1 DEF AccountKept, accountVars, viewVars
<1>12. ReportsFollow'
  <2>1. \A j \in Jobs : /\ stage[j] = "done" => stage'[j] = "done"
                        /\ stage'[j] \in {"polling", "polled"} => stage[j] = stage'[j]
    BY <1>3, <1>5, <1>6
  <2> QED
    BY <1>1, <2>1 DEF ReportsFollow, callVars
<1> QED
  BY <1>8, <1>9, <1>10, <1>11, <1>12 DEF AppIInv

LEMMA VerifyStep == ASSUME AppIInv, NEW j \in Jobs, Verify(j) PROVE AppIInv'
<1>1. /\ AppTypes /\ AccountKept /\ AnswersFit /\ ReportsFollow /\ OneSessionEach
      /\ running /\ stage[j] = "verifying" /\ storage' = storage
      /\ reply' = [reply EXCEPT ![j] = NoAnswer]
      /\ UNCHANGED <<channelVars, running, verb, callVars, chainId>>
  BY DEF AppIInv, Verify
<1>2. reply[j] \in Answers /\ reply[j].key \in Keys
  BY <1>1 DEF AppTypes, AnswersFit, Answers
<1>3. PICK s \in {"done", "failed"} :
        /\ stage' = [stage EXCEPT ![j] = s] /\ To(j, s)
  BY <1>1 DEF Verify, To
<1>4. OneSessionEach'
  BY <1>1, <1>3, MoveOn DEF Stages
<1>5. AnswersFit'
  BY <1>1, <1>3 DEF AnswersFit, AppTypes
<1>6. ReportsFollow'
  <2>1. \A i \in Jobs : /\ stage[i] = "done" => stage'[i] = "done"
                        /\ stage'[i] \in {"polling", "polled"} => stage[i] = stage'[i]
    BY <1>1, <1>3 DEF AppTypes
  <2> QED
    BY <1>1, <2>1 DEF ReportsFollow, callVars
<1>7. /\ AccountKept'
      /\ dapp' \in [connected : BOOLEAN, wallet : Wallets \cup {NoWallet}]
  <2>1. CASE Verified(reply[j], j)
    <3>1. /\ current' = reply[j].key /\ stored' = reply[j].key
          /\ \/ Notify
             \/ dapp' = [dapp EXCEPT !.wallet = Wallet(Account')] /\ UNCHANGED <<prev, snap>>
      BY <1>1, <2>1 DEF Verify
    <3>2. /\ Wallet(Account') \in Wallets \cup {NoWallet}
          /\ Status' <=> Account' # NoKey
      BY <1>2, <3>1, AccountIsNext, ProviderAppAssumption
    <3>3. dapp' \in [connected : BOOLEAN, wallet : Wallets \cup {NoWallet}]
      BY <1>1, <1>2, <3>1, <3>2, NotifyStep DEF AppTypes
    <3>4. snap' = [key |-> Account', status |-> Status'] \/ snap' = snap
      BY <3>1 DEF Notify
    <3>5. stored' # Malformed /\ current' \in Keys /\ stored' \in Keys
      BY <1>2, <3>1, ProviderAppAssumption
    <3> QED
      BY <1>1, <3>2, <3>3, <3>4, <3>5 DEF AccountKept
  <2>2. CASE ~Verified(reply[j], j)
    BY <1>1, <2>2 DEF Verify, viewVars, AccountKept, AppTypes
  <2> QED
    BY <2>1, <2>2
<1>8. AppTypes'
  BY <1>1, <1>3, <1>7 DEF AppTypes, Stages
<1> QED
  BY <1>4, <1>5, <1>6, <1>7, <1>8 DEF AppIInv

LEMMA SendResolvesStep == ASSUME AppIInv, NEW j \in Jobs, SendResolves(j) PROVE AppIInv'
<1>1. /\ AppTypes /\ AccountKept /\ AnswersFit /\ ReportsFollow /\ OneSessionEach
      /\ stage[j] = "signed"
      /\ UNCHANGED <<channelVars, running, accountVars, verb, reply, seen, told, chainId, viewVars>>
  BY DEF AppIInv, SendResolves
<1>2. PICK s \in {"done", "failed"} :
        /\ stage' = [stage EXCEPT ![j] = s] /\ To(j, s)
        /\ s = "done" => /\ onchain' = [onchain EXCEPT ![j] = "pending"]
                         /\ calls' = [calls EXCEPT ![j] = "pending"]
        /\ s = "failed" => UNCHANGED <<onchain, calls>>
  BY DEF SendResolves, To
<1>3. AppTypes'
  BY <1>1, <1>2 DEF AppTypes, Stages, viewVars
<1>4. OneSessionEach'
  BY <1>1, <1>2, MoveOn DEF Stages
<1>5. AnswersFit'
  BY <1>1, <1>2 DEF AnswersFit, AppTypes
<1>6. AccountKept'
  BY <1>1 DEF AccountKept, accountVars, viewVars
<1>7. ReportsFollow'
  <2>1. onchain[j] = "none"
    BY <1>1 DEF ReportsFollow
  <2>2. \A i \in Jobs : /\ i # j => /\ stage'[i] = stage[i] /\ onchain'[i] = onchain[i]
                                    /\ calls'[i] = calls[i]
                        /\ stage'[j] = s
                        /\ s = "done" => onchain'[j] = "pending" /\ calls'[j] = "pending"
                        /\ s = "failed" => onchain'[j] = "none" /\ calls'[j] = calls[j]
    BY <1>1, <1>2, <2>1 DEF AppTypes, ReportsFollow
  <2>3. /\ onchain' \in [Jobs -> Fates \cup {"none"}]
        /\ calls' \in [Jobs -> Fates \cup {"none"}]
    BY <1>1, <1>2 DEF ReportsFollow, Fates
  <2>4. \A i \in Jobs : onchain[i] \in Included => onchain'[i] = onchain[i]
    BY <1>1, <2>1, <2>2 DEF Included
  <2>5. \A i \in Jobs : stage'[i] \in {"polling", "polled"} =>
          /\ seen'[i] \in Jobs \X Fates
          /\ seen'[i][2] \in Included => onchain'[seen'[i][1]] = seen'[i][2]
    <3> SUFFICES ASSUME NEW i \in Jobs, stage'[i] \in {"polling", "polled"}
                 PROVE  /\ seen'[i] \in Jobs \X Fates
                        /\ seen'[i][2] \in Included => onchain'[seen'[i][1]] = seen'[i][2]
      OBVIOUS
    <3>1. stage'[i] = stage[i] /\ seen' = seen
      BY <1>1, <1>2, <2>2
    <3>2. seen[i] \in Jobs \X Fates /\ (seen[i][2] \in Included => onchain[seen[i][1]] = seen[i][2])
      BY <1>1, <3>1 DEF ReportsFollow
    <3> QED
      BY <2>4, <3>1, <3>2
  <2>6. \A i \in Jobs : /\ onchain'[i] # "none" => stage'[i] = "done"
                        /\ calls'[i] \in Included => onchain'[i] = calls'[i]
                        /\ told'[i] \in Included => onchain'[i] = told'[i]
    BY <1>1, <1>2, <2>1, <2>2 DEF ReportsFollow, Included
  <2> QED
    BY <1>1, <2>3, <2>5, <2>6 DEF ReportsFollow
<1> QED
  BY <1>3, <1>4, <1>5, <1>6, <1>7 DEF AppIInv

LEMMA MineStep == ASSUME AppIInv, NEW j \in Jobs, Mine(j) PROVE AppIInv'
<1>1. /\ AppTypes /\ AccountKept /\ AnswersFit /\ ReportsFollow /\ OneSessionEach
      /\ onchain[j] = "pending"
      /\ UNCHANGED <<channelVars, running, accountVars, verb, stage, reply, seen, calls, told,
                     chainId, viewVars>>
  BY DEF AppIInv, Mine
<1>2. PICK fate \in Included : onchain' = [onchain EXCEPT ![j] = fate]
  BY DEF Mine, Included
<1>3. AppTypes' /\ AccountKept'
  BY <1>1 DEF AppTypes, AccountKept, accountVars, viewVars
<1>4. OneSessionEach' /\ AnswersFit'
  BY <1>1, JobsFrame DEF channelVars
<1>5. ReportsFollow'
  <2>1. onchain' \in [Jobs -> Fates \cup {"none"}]
    BY <1>1, <1>2 DEF ReportsFollow, Fates, Included
  <2>2. \A i \in Jobs : /\ onchain[i] \in Included => onchain'[i] = onchain[i]
                        /\ onchain[i] = "none" => onchain'[i] = "none"
    BY <1>1, <1>2 DEF Included, ReportsFollow
  <2>3. \A i \in Jobs : stage'[i] \in {"polling", "polled"} =>
          /\ seen'[i] \in Jobs \X Fates
          /\ seen'[i][2] \in Included => onchain'[seen'[i][1]] = seen'[i][2]
    <3> SUFFICES ASSUME NEW i \in Jobs, stage[i] \in {"polling", "polled"}
                 PROVE  /\ seen[i] \in Jobs \X Fates
                        /\ seen[i][2] \in Included => onchain'[seen[i][1]] = seen[i][2]
      BY <1>1
    <3>2. seen[i] \in Jobs \X Fates /\ (seen[i][2] \in Included => onchain[seen[i][1]] = seen[i][2])
      BY <1>1 DEF ReportsFollow
    <3> QED
      BY <2>2, <3>2
  <2> QED
    BY <1>1, <2>1, <2>2, <2>3 DEF ReportsFollow
<1> QED
  BY <1>3, <1>4, <1>5 DEF AppIInv

LEMMA GetCallsStatusStep ==
  ASSUME AppIInv, NEW j \in Jobs, NEW id \in Jobs, GetCallsStatus(j, id)
  PROVE  AppIInv'
<1>1. /\ AppTypes /\ AccountKept /\ AnswersFit /\ ReportsFollow /\ OneSessionEach
      /\ stage[j] = "idle" /\ verb' = [verb EXCEPT ![j] = "status"]
      /\ UNCHANGED <<channelVars, running, accountVars, reply, onchain, calls, told, chainId, viewVars>>
  BY DEF AppIInv, GetCallsStatus, Begin
<1>2. PICK s \in {"polling", "failed"} :
        /\ stage' = [stage EXCEPT ![j] = s] /\ To(j, s)
        /\ s = "polling" => calls[id] # "none" /\ seen' = [seen EXCEPT ![j] = <<id, calls[id]>>]
        /\ s = "failed" => seen' = seen
  BY DEF GetCallsStatus, To
<1>3. AppTypes'
  BY <1>1, <1>2 DEF AppTypes, Stages, Verbs, viewVars
<1>4. OneSessionEach'
  BY <1>1, <1>2, MoveOn DEF Stages
<1>5. AnswersFit'
  BY <1>1, <1>2 DEF AnswersFit, AppTypes
<1>6. AccountKept'
  BY <1>1 DEF AccountKept, accountVars, viewVars
<1>7. ReportsFollow'
  <2>1. PICK c : c = calls[id]
    OBVIOUS
  <2>2. s = "polling" => c \in Fates /\ (c \in Included => onchain[id] = c)
    BY <1>1, <1>2, <2>1 DEF ReportsFollow
  <2>3. s = "polling" => seen' = [seen EXCEPT ![j] = <<id, c>>] /\ <<id, c>> \in Jobs \X Fates
    BY <1>2, <2>1, <2>2
  <2>4. seen' \in [Jobs -> {<<>>} \cup (Jobs \X Fates)]
    BY <1>1, <1>2, <2>3 DEF ReportsFollow
  <2>5. \A i \in Jobs : /\ i # j => seen'[i] = seen[i] /\ stage'[i] = stage[i]
                        /\ s = "polling" => seen'[j] = <<id, c>>
                        /\ stage'[j] = s
    BY <1>1, <1>2, <2>3 DEF ReportsFollow, AppTypes
  <2>6. \A i \in Jobs : stage'[i] \in {"polling", "polled"} =>
          /\ seen'[i] \in Jobs \X Fates
          /\ seen'[i][2] \in Included => onchain'[seen'[i][1]] = seen'[i][2]
    <3> SUFFICES ASSUME NEW i \in Jobs, stage'[i] \in {"polling", "polled"}
                 PROVE  /\ seen'[i] \in Jobs \X Fates
                        /\ seen'[i][2] \in Included => onchain[seen'[i][1]] = seen'[i][2]
      BY <1>1
    <3>1. CASE i = j
      BY <2>2, <2>3, <2>5, <3>1
    <3>2. CASE i # j
      BY <1>1, <2>5, <3>2 DEF ReportsFollow
    <3> QED
      BY <3>1, <3>2
  <2>7. \A i \in Jobs : onchain[i] # "none" => stage'[i] = "done"
    BY <1>1, <2>5 DEF ReportsFollow
  <2> QED
    BY <1>1, <2>4, <2>6, <2>7 DEF ReportsFollow
<1> QED
  BY <1>3, <1>4, <1>5, <1>6, <1>7 DEF AppIInv

LEMMA EndpointAnswersStep == ASSUME AppIInv, NEW j \in Jobs, EndpointAnswers(j) PROVE AppIInv'
<1>1. /\ AppTypes /\ AccountKept /\ AnswersFit /\ ReportsFollow /\ OneSessionEach
      /\ stage[j] = "polling" /\ stage' = [stage EXCEPT ![j] = "polled"] /\ To(j, "polled")
      /\ UNCHANGED <<channelVars, running, accountVars, verb, reply, onchain, calls, told, chainId, viewVars>>
  BY DEF AppIInv, EndpointAnswers, To
<1>2. seen[j] \in Jobs \X Fates /\ (seen[j][2] \in Included => onchain[seen[j][1]] = seen[j][2])
  BY <1>1 DEF ReportsFollow
<1>3. PICK id \in Jobs, known \in Fates : seen[j] = <<id, known>>
  BY <1>2
<1>4. known \in Included => onchain[id] = known
  BY <1>2, <1>3
<1>5. PICK now \in Fates :
        /\ seen' = [seen EXCEPT ![j] = <<id, now>>]
        /\ now \in Included => onchain[id] = now
  <2>1. PICK upToDate \in BOOLEAN :
          seen' = [seen EXCEPT ![j][2] = IF upToDate THEN Polled(@, onchain[seen[j][1]]) ELSE @]
    BY DEF EndpointAnswers
  <2>2. PICK new : new = IF upToDate THEN Polled(known, onchain[id]) ELSE known
    OBVIOUS
  <2>3. seen' = [seen EXCEPT ![j] = [<<id, known>> EXCEPT ![2] = new]]
    BY <1>1, <1>3, <2>1, <2>2 DEF ReportsFollow
  <2>4. [<<id, known>> EXCEPT ![2] = new] = <<id, new>>
    OBVIOUS
  <2>5. new \in Fates /\ (new \in Included => onchain[id] = new)
    BY <1>4, <2>2 DEF Polled, Fates, Included
  <2> QED
    BY <2>3, <2>4, <2>5
<1>6. AppTypes'
  BY <1>1 DEF AppTypes, Stages, viewVars
<1>7. OneSessionEach'
  BY <1>1, MoveOn DEF Stages
<1>8. AnswersFit'
  BY <1>1 DEF AnswersFit, AppTypes
<1>9. AccountKept'
  BY <1>1 DEF AccountKept, accountVars, viewVars
<1>10. ReportsFollow'
  <2>1. seen' \in [Jobs -> {<<>>} \cup (Jobs \X Fates)]
    BY <1>1, <1>5 DEF ReportsFollow
  <2>2. \A i \in Jobs : /\ i # j => seen'[i] = seen[i] /\ stage'[i] = stage[i]
                        /\ seen'[j] = <<id, now>> /\ stage'[j] = "polled"
    BY <1>1, <1>5 DEF ReportsFollow, AppTypes
  <2>3. \A i \in Jobs : stage'[i] \in {"polling", "polled"} =>
          /\ seen'[i] \in Jobs \X Fates
          /\ seen'[i][2] \in Included => onchain'[seen'[i][1]] = seen'[i][2]
    <3> SUFFICES ASSUME NEW i \in Jobs, stage'[i] \in {"polling", "polled"}
                 PROVE  /\ seen'[i] \in Jobs \X Fates
                        /\ seen'[i][2] \in Included => onchain[seen'[i][1]] = seen'[i][2]
      BY <1>1
    <3>1. CASE i = j
      BY <1>5, <2>2, <3>1
    <3>2. CASE i # j
      BY <1>1, <2>2, <3>2 DEF ReportsFollow
    <3> QED
      BY <3>1, <3>2
  <2>4. \A i \in Jobs : onchain[i] # "none" => stage'[i] = "done"
    BY <1>1, <2>2 DEF ReportsFollow
  <2> QED
    BY <1>1, <2>1, <2>3, <2>4 DEF ReportsFollow
<1> QED
  BY <1>6, <1>7, <1>8, <1>9, <1>10 DEF AppIInv

LEMMA ToCallsStatusStep == ASSUME AppIInv, NEW j \in Jobs, ToCallsStatus(j) PROVE AppIInv'
<1>1. /\ AppTypes /\ AccountKept /\ AnswersFit /\ ReportsFollow /\ OneSessionEach
      /\ stage[j] = "polled" /\ stage' = [stage EXCEPT ![j] = "done"] /\ To(j, "done")
      /\ calls' = [calls EXCEPT ![seen[j][1]] = seen[j][2]]
      /\ told' = [told EXCEPT ![seen[j][1]] = seen[j][2]]
      /\ seen' = [seen EXCEPT ![j] = <<>>]
      /\ UNCHANGED <<channelVars, running, accountVars, verb, reply, onchain, chainId, viewVars>>
  BY DEF AppIInv, ToCallsStatus, To
<1>2. seen[j] \in Jobs \X Fates /\ (seen[j][2] \in Included => onchain[seen[j][1]] = seen[j][2])
  BY <1>1 DEF ReportsFollow
<1>3. PICK id \in Jobs, known \in Fates : seen[j] = <<id, known>>
  BY <1>2
<1>4. /\ known \in Included => onchain[id] = known
      /\ calls' = [calls EXCEPT ![id] = known] /\ told' = [told EXCEPT ![id] = known]
  BY <1>1, <1>2, <1>3
<1>5. AppTypes'
  BY <1>1 DEF AppTypes, Stages, viewVars
<1>6. OneSessionEach'
  BY <1>1, MoveOn DEF Stages
<1>7. AnswersFit'
  BY <1>1 DEF AnswersFit, AppTypes
<1>8. AccountKept'
  BY <1>1 DEF AccountKept, accountVars, viewVars
<1>9. ReportsFollow'
  <2>1. /\ seen' \in [Jobs -> {<<>>} \cup (Jobs \X Fates)]
        /\ calls' \in [Jobs -> Fates \cup {"none"}]
        /\ told' \in [Jobs -> Fates \cup {"none"}]
    BY <1>1, <1>4 DEF ReportsFollow
  <2>2. \A i \in Jobs : /\ i # j => seen'[i] = seen[i] /\ stage'[i] = stage[i]
                        /\ stage'[j] = "done"
    BY <1>1 DEF ReportsFollow, AppTypes
  <2>3. \A i \in Jobs : stage'[i] \in {"polling", "polled"} =>
          /\ seen'[i] \in Jobs \X Fates
          /\ seen'[i][2] \in Included => onchain'[seen'[i][1]] = seen'[i][2]
    BY <1>1, <2>2 DEF ReportsFollow
  <2>4. \A i \in Jobs : onchain[i] # "none" => stage'[i] = "done"
    BY <1>1, <2>2 DEF ReportsFollow
  <2>5. \A i \in Jobs : /\ calls'[i] \in Included => onchain[i] = calls'[i]
                        /\ told'[i] \in Included => onchain[i] = told'[i]
    BY <1>1, <1>4 DEF ReportsFollow
  <2> QED
    BY <1>1, <2>1, <2>3, <2>4, <2>5 DEF ReportsFollow
<1> QED
  BY <1>5, <1>6, <1>7, <1>8, <1>9 DEF AppIInv

LEMMA AppNext == AppIInv /\ [Next]_vars => AppIInv'
<1> SUFFICES ASSUME AppIInv, [Next]_vars PROVE AppIInv'
  OBVIOUS
<1>1. ASSUME NEW j \in Jobs, Requests(j) \/ Dismiss(j) \/ Code(j) \/ Mine(j)
      PROVE  AppIInv'
  BY <1>1, RequestStep, GetCallsStatusStep, DismissStep, VerifyStep, SendResolvesStep,
     EndpointAnswersStep, ToCallsStatusStep, MineStep DEF Requests, Code
<1>2. CASE Start \/ Die \/ Logout
  BY <1>2, StartStep, DieStep, LogoutStep
<1>3. CASE EthAccounts \/ (\E c \in Chains : SwitchEthereumChain(c)) \/ UNCHANGED vars
  BY <1>3, ViewStep
<1> QED
  BY <1>1, <1>2, <1>3, PageAnswersStep DEF Next

LEMMA AppInvariant == Spec => []AppIInv
  BY AppInit, AppNext, PTL DEF Spec

-------------------------------------------------------------------------------
(* Theorems. *)

LEMMA AppIInvImplies == AppIInv => ProviderInv
<1> SUFFICES ASSUME AppIInv PROVE ProviderInv
  OBVIOUS
<1>1. AppTypes /\ AccountKept /\ AnswersFit /\ ReportsFollow /\ OneSessionEach
  BY DEF AppIInv
<1>2. transport = "native" => Cardinality(sessions) <= 1
  <2> SUFFICES ASSUME transport = "native" PROVE Cardinality(sessions) <= 1
    OBVIOUS
  <2>1. CASE sessions = {}
    BY <2>1, FS_EmptySet
  <2>2. CASE sessions # {}
    <3>1. PICK j : sessions = {j}
      BY <1>1, <2>2 DEF OneSessionEach
    <3>2. Cardinality({j}) = 1
      BY FS_Singleton
    <3> QED
      BY <3>1, <3>2
  <2> QED
    BY <2>1, <2>2
<1>3. ProviderTypeOK
  <2>1. \A j \in Jobs : reply[j] \in Answers \cup {NoAnswer}
    BY <1>1 DEF AppTypes
  <2>2. sessions \subseteq Jobs /\ pages \subseteq Jobs
    BY <1>1 DEF OneSessionEach
  <2> QED
    BY <1>1, <1>2, <2>1, <2>2 DEF ProviderTypeOK, AppTypes, AccountKept, ReportsFollow, Verbs, Stages, Fates
<1>4. SessionsAreAwaited /\ SignedIsASignature
  BY <1>1 DEF SessionsAreAwaited, SignedIsASignature, OneSessionEach, AnswersFit
<1>5. StatusHasAccount
  BY <1>1, AccountIs DEF StatusHasAccount, AccountKept
<1>6. ReportedIsTrue
  BY <1>1 DEF ReportedIsTrue, ReportsFollow, Included
<1> QED
  BY <1>3, <1>4, <1>5, <1>6 DEF ProviderInv

\* What every state of an app keeps (client.ts, eip1193-methods.ts, native.ts):
\* each session has its promise and each promise its session, a request that
\* resolved holds a signature, the status has an account, and what the dapp was
\* told of a call is true of the chain - for any number of overlapping requests
\* and polls, of late pages and dead processes, on both transports.
THEOREM AppIsSound == Spec => []ProviderInv
  BY AppInvariant, AppIInvImplies, PTL

LEMMA AccountStep ==
  ASSUME AppIInv, [Next]_vars
  PROVE  \/ UNCHANGED <<current, stored, storage>>
         \/ Start \/ Die \/ Logout \/ \E j \in Jobs : Verify(j)
<1>1. ASSUME UNCHANGED accountVars PROVE UNCHANGED <<current, stored, storage>>
  BY <1>1 DEF accountVars
<1>2. ASSUME NEW j \in Jobs, Requests(j) \/ Dismiss(j) \/ Code(j) \/ Mine(j)
      PROVE  UNCHANGED accountVars \/ Verify(j)
  <2>1. ASSUME Requests(j) PROVE UNCHANGED accountVars
    BY <2>1 DEF Requests, Login, RequestAccounts, SendCalls, Sign, GetCallsStatus
  <2>2. ASSUME Dismiss(j) \/ Mine(j) PROVE UNCHANGED accountVars
    BY <2>2 DEF Dismiss, Mine
  <2>3. ASSUME Code(j) PROVE UNCHANGED accountVars \/ Verify(j)
    BY <2>3 DEF Code, SendResolves, EndpointAnswers, ToCallsStatus
  <2> QED
    BY <1>2, <2>1, <2>2, <2>3
<1>3. ASSUME NEW p \in Jobs, NEW key \in Keys \cup {NoKey}, PageAnswers(p, key)
      PROVE  UNCHANGED accountVars
  BY <1>3 DEF PageAnswers
<1>4. CASE EthAccounts \/ (\E c \in Chains : SwitchEthereumChain(c)) \/ UNCHANGED vars
  <2>1. UNCHANGED accountVars
    BY <1>4 DEF EthAccounts, SwitchEthereumChain, vars
  <2> QED
    BY <1>1, <2>1
<1> QED
  BY <1>1, <1>2, <1>3, <1>4 DEF Next

LEMMA ProvenStep ==
  ASSUME AppIInv, [Next]_vars, current' # current, current' # NoKey
  PROVE  \E j \in Jobs : /\ stage[j] = "verifying" /\ stage'[j] = "done"
                         /\ reply[j].from = j /\ current' = reply[j].key
<1>1. PICK j \in Jobs : Verify(j)
  BY AccountStep DEF Start, Die, Logout, Forget
<1>2. /\ stage[j] = "verifying" /\ Verified(reply[j], j) /\ current' = reply[j].key
      /\ stage' = [stage EXCEPT ![j] = "done"]
  BY <1>1 DEF Verify, To
<1>3. reply[j].nonce = j /\ reply[j].from = j /\ stage'[j] = "done"
  BY <1>2 DEF AppIInv, AppTypes, AnswersFit, Verified, RandomNonce
<1> QED
  BY <1>2, <1>3

\* connect() (connection.ts): the account an app is connected to is one that the
\* page of this very connect() was answered with - never that of a page whose
\* session was dismissed, of a process that died, or of another request.
THEOREM ConnectIsProven == Spec => ConnectedIsProven
<1>1. AppIInv /\ [Next]_vars =>
        [ current' # current /\ current' # NoKey =>
            \E j \in Jobs : /\ stage[j] = "verifying" /\ stage'[j] = "done"
                            /\ reply[j].from = j /\ current' = reply[j].key ]_vars
  BY ProvenStep
<1> QED
  BY <1>1, AppInvariant, PTL DEF Spec, ConnectedIsProven

\* Account depends on what is in memory and in storage.
LEMMA SameAccount == UNCHANGED <<current, stored, storage>> => Account' = Account
  BY DEF Account, ResolveAccount, LoadAccount

LEMMA StartMoves ==
  ASSUME AppIInv, Start
  PROVE  Account' = Account
<1>1. /\ current = NoKey /\ current' = NoKey /\ storage' = storage /\ stored' = StoredAfterRestore
  BY DEF AppIInv, AccountKept, Start
<1> QED
  BY <1>1, ProviderAppAssumption DEF StoredAfterRestore, Account, ResolveAccount, LoadAccount

LEMMA DieMoves ==
  ASSUME AppIInv, Die, Account = NoKey
  PROVE  Account' = NoKey
<1>1. /\ current \in Keys \cup {NoKey} /\ current' = NoKey /\ storage' = storage
      /\ stored' = IF storage = "memory" THEN NoKey ELSE stored
  BY DEF AppIInv, AccountKept, Die
<1>2. current = NoKey
  BY <1>1, ProviderAppAssumption DEF Account, ResolveAccount
<1> QED
  BY <1>1, <1>2, ProviderAppAssumption DEF Account, ResolveAccount, LoadAccount

LEMMA LogoutMoves ==
  ASSUME Logout
  PROVE  Account' = NoKey
BY ProviderAppAssumption DEF Logout, Forget, Account, ResolveAccount, LoadAccount

LEMMA NotifiedSees ==
  ASSUME Notify
  PROVE  snap'.key = Account' /\ prev'.wallet = Wallet(Account')
BY DEF Notify

LEMMA OpenlyStep ==
  ASSUME AppIInv, [Next]_vars
  PROVE  /\ Account' # Account /\ running' =>
              \/ snap'.key = Account' /\ prev'.wallet = Wallet(Account')
              \/ \E j \in Jobs : verb[j] = "requestAccounts" /\ stage'[j] = "done"
         /\ Logout => Account' = NoKey
         /\ Account = NoKey /\ Account' # NoKey => \E j \in Jobs : stage[j] = "verifying"
<1>1. CASE UNCHANGED <<current, stored, storage>>
  BY <1>1, SameAccount, LogoutMoves
<1>2. CASE Start
  BY <1>2, StartMoves, LogoutMoves
<1>3. CASE Die
  BY <1>3, DieMoves, LogoutMoves DEF Die
<1>4. CASE Logout
  BY <1>4, LogoutMoves, NotifiedSees DEF Logout
<1>5. ASSUME NEW j \in Jobs, Verify(j)
      PROVE  /\ stage[j] = "verifying"
             /\ Account' # Account =>
                  \/ snap'.key = Account' /\ prev'.wallet = Wallet(Account')
                  \/ verb[j] = "requestAccounts" /\ stage'[j] = "done"
  <2>1. stage[j] = "verifying" /\ verb[j] \in {"login", "requestAccounts"}
    BY <1>5 DEF Verify, AppIInv, AnswersFit
  <2>2. CASE ~Verified(reply[j], j)
    BY <1>5, <2>1, <2>2, SameAccount DEF Verify
  <2>3. CASE Verified(reply[j], j) /\ verb[j] = "login"
    BY <1>5, <2>1, <2>3, NotifiedSees DEF Verify
  <2>4. CASE Verified(reply[j], j) /\ verb[j] # "login"
    BY <1>5, <2>1, <2>4 DEF Verify, To, AppIInv, AppTypes
  <2> QED
    BY <2>1, <2>2, <2>3, <2>4
<1> QED
  BY <1>1, <1>2, <1>3, <1>4, <1>5, LogoutMoves, AccountStep

\* The account moves in the open: what the client's own verbs change its
\* subscribers see, a logout signs out, and only a ceremony signs in - not a
\* restart, not what storage kept, not a late answer.
THEOREM AccountsMoveInTheOpen == Spec => AccountMovesInTheOpen
<1>1. AppIInv /\ [Next]_vars =>
        /\ [ Account' # Account /\ running' =>
               \/ snap'.key = Account' /\ prev'.wallet = Wallet(Account')
               \/ \E j \in Jobs : verb[j] = "requestAccounts" /\ stage'[j] = "done" ]_vars
        /\ [ /\ Logout => Account' = NoKey
             /\ Account = NoKey /\ Account' # NoKey => \E j \in Jobs : stage[j] = "verifying" ]_vars
  BY OpenlyStep
<1> QED
  BY <1>1, AppInvariant, PTL DEF Spec, AccountMovesInTheOpen, ClientVerbsAreSeen, LoggedOutStaysOut
==============================================================================
