----------------------------- MODULE RecoveryVote -----------------------------
(***************************************************************************)
(* What guardian recovery promises, without the counters, mappings, hashes *)
(* and nonces that contracts/src/GuardianLogic.sol keeps it with: a vote   *)
(* among the current electorate on one candidate at a time; a clock that   *)
(* only a quorum starts, that stops when a voter leaves and too few stay,  *)
(* runs on when the quorum is raised above the votes, and is destroyed by  *)
(* a veto; and one promotion per vote, after the clock has run.            *)
(***************************************************************************)
EXTENDS Integers, FiniteSets

CONSTANTS
  Guardian,   \* possible members of the electorate
  Key,        \* possible candidates
  NoKey,      \* no candidate
  MinDelay    \* the shortest clock

VARIABLES
  now,
  electorate, \* the guardians of this moment
  quorum,     \* how many of them must vote
  round,      \* votes that have ended
  candidate,  \* the key voted on
  votes,      \* who voted for it
  clock,      \* when it may be promoted; 0 while no clock runs
  keys        \* promoted keys that still are keys of the wallet

ballot == <<round, candidate, votes, clock>>
vars == <<now, electorate, quorum, ballot, keys>>

Init ==
  /\ now = 1
  /\ electorate = {}
  /\ quorum = 0
  /\ round = 0
  /\ candidate = NoKey
  /\ votes = {}
  /\ clock = 0
  /\ keys = {}

\* A member votes, once.  The first vote names the candidate.
Vote(g, k) ==
  /\ g \in electorate \ votes
  /\ k \in Key
  /\ votes # {} => k = candidate
  /\ candidate' = k
  /\ votes' = votes \cup {g}
  /\ \/ clock' = clock
     \/ Cardinality(votes') >= quorum /\ clock' >= now + MinDelay
  /\ UNCHANGED <<now, electorate, quorum, round, keys>>

\* The electorate or the quorum changes, never to a quorum it cannot reach.
\* Members who leave take their vote with them, and if too few votes are left
\* they stop the clock; a quorum that is raised does not.
Reform ==
  /\ electorate' \subseteq Guardian
  /\ quorum' \in 1..Cardinality(electorate')
  /\ votes' = votes \cap electorate'
  /\ clock' = IF votes' # votes /\ Cardinality(votes') < quorum' THEN 0 ELSE clock
  /\ UNCHANGED <<now, round, candidate, keys>>

EndRound ==
  /\ candidate # NoKey
  /\ round' = round + 1
  /\ candidate' = NoKey
  /\ votes' = {}
  /\ clock' = 0
  /\ UNCHANGED <<now, electorate, quorum>>

Veto == EndRound /\ UNCHANGED keys

Promote ==
  /\ clock # 0
  /\ now >= clock
  /\ keys' = keys \cup {candidate}
  /\ EndRound

Revoke(k) ==
  /\ keys' = keys \ {k}
  /\ UNCHANGED <<now, electorate, quorum, ballot>>

Elapse ==
  /\ now' > now
  /\ UNCHANGED <<electorate, quorum, ballot, keys>>

Next ==
  \/ \E g \in Guardian, k \in Key : Vote(g, k)
  \/ Reform
  \/ Veto
  \/ Promote
  \/ \E k \in Key : Revoke(k)
  \/ Elapse

Spec == Init /\ [][Next]_vars
===============================================================================
