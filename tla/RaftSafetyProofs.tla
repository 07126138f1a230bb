-------------------------- MODULE RaftSafetyProofs --------------------------
(***************************************************************************)
(* One leader per term, logs that match, and commands that are applied     *)
(* once and for all, for any number of peers, elections, losses and        *)
(* restarts, provided that a call ends before a timer of its caller fires  *)
(* and that a crash loses no promise.  And a peer with its ticker and its  *)
(* waiting handlers implements Raft.                                       *)
(***************************************************************************)
EXTENDS RaftLeaderProofs, RaftProofs, FiniteSetTheorems

\* Leaves are first-order unless they say otherwise.
USE ZenonT(60)

-----------------------------------------------------------------------------
(* Counting peers.                                                         *)

\* There are finitely many peers.
LEMMA Counts == Counting
  <1>1. \A x : Cardinality({x}) = 1
    BY FS_Singleton
  <1>2. ASSUME NEW S \in SUBSET Server
        PROVE  IsFiniteSet(S) /\ Cardinality(S) \in Nat
    BY ServerAssumption, FS_Subset, FS_CardinalityType
  <1>3. ASSUME NEW S \in SUBSET Server, NEW T \in SUBSET Server, S \subseteq T
        PROVE  Cardinality(S) <= Cardinality(T)
    BY <1>2, <1>3, FS_Subset
  <1>4. ASSUME NEW S \in SUBSET Server, NEW p \in Server \ S
        PROVE  Cardinality(S \cup {p}) = Cardinality(S) + 1
    BY <1>2, FS_AddElement
  <1>5. QED  BY <1>1, <1>2, <1>3, <1>4 DEF Counting

\* Two quorums have a peer in common.
LEMMA MajoritiesMeet == QuorumsMeet
  <1> SUFFICES ASSUME NEW Q \in Quorums, NEW R \in Quorums
               PROVE  \E p \in Q : p \in R
    BY DEF QuorumsMeet
  <1>1. Q \subseteq Server /\ R \subseteq Server
    BY DEF Quorums
  <1>2. IsFiniteSet(Server) /\ IsFiniteSet(Q) /\ IsFiniteSet(R)
    BY <1>1, ServerAssumption, FS_Subset
  <1>3. Cardinality(Server) \in Nat /\ Cardinality(Q) \in Nat /\ Cardinality(R) \in Nat
    BY <1>2, FS_CardinalityType
  <1>4. /\ Cardinality(Q) > Cardinality(Server) \div 2
        /\ Cardinality(R) > Cardinality(Server) \div 2
    BY DEF Quorums, Majority
  <1>5. Cardinality(Q) + Cardinality(R) > Cardinality(Server)
    BY <1>3, <1>4, SMTT(60)
  <1>6. Q \cap R # {}
    BY <1>1, <1>2, <1>5, FS_MajoritiesIntersect
  <1>7. QED  BY <1>6

-----------------------------------------------------------------------------
(* The past goes on.                                                       *)

\* A candidate that becomes leader was elected by a quorum.
LEMMA AgreementSendRequestVote ==
  ASSUME StructInv, StructInv', LogTermsOrdered, NEW V, NEW h, Ballots(V),
         Agreement(V, h), NEW U, U = Recall(V), NEW c \in CallsIn(replies),
         sendRequestVote(c)
  PROVE  (\E g : Agreement(U, g)') /\ \A j \in Server : Retains(j)
  <1>1. PICK i : i = c.req.src
    OBVIOUS
  <1>2. i \in Server /\ c \in VoteReplies
    BY <1>1, ReplyType DEF sendRequestVote, VoteReplies
  <1>3. CASE ~(state[i] = "Candidate" /\ BecomeLeader(i))
    <2>1. ~(state[c.req.src] = "Candidate" /\ BecomeLeader(c.req.src))
      BY <1>1, <1>3
    <2>2. QED  BY <2>1, AgreementVoteReply
  <1>4. CASE state[i] = "Candidate" /\ BecomeLeader(i)
    <2>1. /\ replies' = Take(replies, c) /\ log' = log /\ UNCHANGED applyVars
          /\ \/ StepDown(i, c.term)
             \/ c.ok /\ CountVote(i)
             \/ UNCHANGED electionVars
      BY <1>1 DEF sendRequestVote
    <2>2. state'[i] = "Leader"
      BY <1>2, <1>4, StructParts DEF BecomeLeader, ElectionTypes
    <2>3. ~StepDown(i, c.term)
      BY <1>2, <2>2, StructParts DEF StepDown, ElectionTypes
    <2>4. c.ok /\ CountVote(i) /\ Majority(votes[i] + 1)
      BY <1>4, <2>1, <2>2, <2>3 DEF CountVote, electionVars
    <2>5. Standing(i)
      BY <1>4 DEF Standing
    <2>6. PICK t : t = currentTerm[i]
      OBVIOUS
    <2>7. t >= 1 /\ WonBy(V, t, i)
      <3>1. currentTerm[i] >= 1 /\ WonBy(V, currentTerm[i], i)
        BY <1>1, <1>2, <2>4, <2>5, Counts, VoteWins
      <3>2. QED  BY <2>6, <3>1
    <2>8. QED
      BY <1>2, <1>4, <2>1, <2>6, <2>7, MajoritiesMeet, AgreementElect
  <1>5. QED  BY <1>3, <1>4

\* Every step continues the past, and no peer but a restarted one gives up
\* what it knows to be committed.
LEMMA AgreementStep ==
  ASSUME Prompt, ~LossyCrash, StructInv, StructInv', LogTermsOrdered, NEW V, NEW h,
         Ballots(V), Agreement(V, h), NEW U, U = Recall(V), Next
  PROVE  /\ \E g : Agreement(U, g)'
         /\ restarts' = restarts => \A i \in Server : Retains(i)
  <1> DEFINE Goal == /\ \E g : Agreement(U, g)'
                     /\ restarts' = restarts => \A i \in Server : Retains(i)
  <1>1. restarts' = restarts => \A j \in Server : Promise(j)
    BY PromiseStep
  <1>2. ASSUME NEW i \in Server, NEW command \in Command, Start(i, command)
        PROVE  Goal
    BY <1>2, AgreementStart
  <1>3. ASSUME NEW i \in Server, persist(i)
        PROVE  Goal
    <2>1. UNCHANGED <<electionVars, log, indexVars, applyVars, callVars>>
      BY <1>3 DEF persist
    <2>2. QED  BY <2>1, AgreementSame
  <1>4. ASSUME NEW i \in Server, becomeCandidate(i)
        PROVE  Goal
    <2>1. restarts' = restarts
      BY <1>4 DEF becomeCandidate
    <2>2. QED  BY <1>1, <1>4, <2>1, AgreementCandidate
  <1>5. ASSUME NEW i \in Server, sendHeartBeats(i)
        PROVE  Goal
    BY <1>5, AgreementHeartBeats
  <1>6. ASSUME NEW r \in CallsIn(requests), RequestVote(r)
        PROVE  Goal
    <2>1. restarts' = restarts
      BY <1>6 DEF RequestVote, boundVars
    <2>2. QED  BY <1>1, <1>6, <2>1, AgreementRequestVote
  <1>7. ASSUME NEW r \in CallsIn(requests), AppendEntries(r)
        PROVE  Goal
    BY <1>7, MajoritiesMeet, AgreementAppendEntries
  <1>8. ASSUME NEW c \in CallsIn(replies), sendRequestVote(c)
        PROVE  Goal
    BY <1>8, AgreementSendRequestVote
  <1>9. ASSUME NEW c \in CallsIn(replies), sendAppendEntries(c)
        PROVE  Goal
    BY <1>9, AgreementSendAppendEntries
  <1>10. ASSUME NEW i \in Server, LoseCalls(i)
         PROVE  Goal
    BY <1>10, AgreementLoseCalls
  <1>11. ASSUME NEW i \in Server, Restart(i)
         PROVE  Goal
    <2>1. restarts' = restarts + 1 /\ restarts \in Nat
      BY <1>11, StructParts DEF Restart, CountTypes
    <2>2. restarts' # restarts
      BY <2>1, SMTT(60)
    <2>3. Agreement(U, h)'
      BY <1>11, AgreementRestart
    <2>4. QED  BY <2>2, <2>3
  <1> HIDE DEF Goal
  <1>12. Goal
    BY <1>2, <1>3, <1>4, <1>5, <1>6, <1>7, <1>8, <1>9, <1>10, <1>11 DEF Next
  <1>13. QED  BY <1>12 DEF Goal

\* A history of no leader.
NoLeadersYet ==
  [leader |-> [t \in Nat |-> Nil], base |-> [t \in Nat |-> <<>>],
   log |-> [t \in Nat |-> <<>>], ack |-> [t \in Nat |-> [p \in Server |-> 0]]]

\* Nobody has been leader, and nobody has taken anything over, at the start.
LEMMA AgreementInit == StructInv /\ Init => Agreement(NoVotesYet, NoLeadersYet)
  <1> SUFFICES ASSUME StructInv, Init PROVE Agreement(NoVotesYet, NoLeadersYet)
    OBVIOUS
  <1>1. PICK V : V = NoVotesYet
    OBVIOUS
  <1>2. PICK h : h = NoLeadersYet
    OBVIOUS
  <1>3. Recorded(V)
    BY <1>1, BallotsInit DEF Ballots
  <1>4. /\ h.leader = [t \in Nat |-> Nil] /\ h.base = [t \in Nat |-> <<>>]
        /\ h.log = [t \in Nat |-> <<>>] /\ h.ack = [t \in Nat |-> [p \in Server |-> 0]]
    BY <1>2 DEF NoLeadersYet
  <1>5. h \in Histories
    <2>1. 0 \in Nat /\ <<>> \in Seq(Entry)
      BY SMTT(60)
    <2>2. /\ [t \in Nat |-> Nil] \in [Nat -> Server \cup {Nil}]
          /\ [t \in Nat |-> <<>>] \in [Nat -> Seq(Entry)]
          /\ [t \in Nat |-> [p \in Server |-> 0]] \in [Nat -> [Server -> Nat]]
      BY <2>1
    <2>3. QED  BY <1>2, <2>2 DEF NoLeadersYet, Histories
  <1>6. \A t \in Nat : ~Led(h, t) /\ \A p \in Server : h.ack[t][p] = 0
    BY <1>4, SMTT(60) DEF Led
  <1>7. \A t \in Nat, p, i \in Server : V[t][p] # i
    BY <1>1, NilAssumption DEF NoVotesYet
  <1>8. /\ \A i \in Server : state[i] = "Follower" /\ log[i] = <<Dummy>>
        /\ \A i \in Server : commitIndex[i] = 0
        /\ delivered = {} /\ CallsIn(requests) = {} /\ CallsIn(replies) = {}
    BY NoneYet DEF Init
  <1>9. PeersInv(V, h)
    <2>1. Known(V)
      BY <1>7 DEF Known
    <2>2. Elected(V, h)
      BY <1>6, <1>8 DEF Elected
    <2>3. LeaderLogs(h)
      BY <1>6 DEF LeaderLogs
    <2>4. PeerLogs(h)
      <3>1. Len(<<Dummy>>) >= 1 /\ At(<<Dummy>>, 0) = Dummy /\ 1..LastIndex(<<Dummy>>) = {}
        BY SMTT(60) DEF At, LastIndex
      <3>2. QED  BY <1>8, <3>1 DEF PeerLogs, Genuine
    <2>5. Holds(h)
      <3>1. \A u \in Nat, p \in Server : ~(h.ack[u][p] > 0)
        BY <1>6, SMTT(60)
      <3>2. \A p \in Server : AckAt(h, p)
        BY <1>6, <3>1 DEF AckAt
      <3>3. \A p \in Server : KeptAt(h, p)
        BY <1>6 DEF KeptAt, Own
      <3>4. QED  BY <3>2, <3>3 DEF Holds
    <2>6. Complete(h)
      BY <1>6 DEF Complete
    <2>7. Convinced(V, h)
      BY <1>7 DEF Convinced
    <2>8. QED  BY <1>5, <2>1, <2>2, <2>3, <2>4, <2>5, <2>6, <2>7 DEF PeersInv
  <1>10. CallsInv(h)
    BY <1>8 DEF CallsInv, EntryRequests, EntryReplies
  <1>11. Indexes(h) /\ Commits(h)
    BY <1>8 DEF Indexes, Commits, Applies, CommitAt
  <1>12. QED  BY <1>1, <1>2, <1>3, <1>9, <1>10, <1>11 DEF Agreement

-----------------------------------------------------------------------------
(* The theorems.                                                           *)

\* The peers have a past that explains their votes, their logs, what they know
\* of each other and what is under way.
Past == \E V, h : Ballots(V) /\ Agreement(V, h)

\* Nothing has happened in an initial state.
LEMMA PastInit == StructInv /\ Init => Past
  BY BallotsInit, AgreementInit DEF Past

\* A step adds to the past, and changes no committed prefix unless a peer restarts.
LEMMA PastStep ==
  ASSUME Prompt, ~LossyCrash, StructInv, StructInv', LogTermsOrdered, Past, [Next]_vars
  PROVE  /\ Past'
         /\ [\A i \in Server : restarts' # restarts \/ Keeps(i)]_vars
  <1>1. PICK V, h : Ballots(V) /\ Agreement(V, h)
    BY DEF Past
  <1>2. PICK U : U = Recall(V)
    OBVIOUS
  <1>3. CASE UNCHANGED vars
    <2>1. UNCHANGED <<electionVars, log, indexVars, applyVars, callVars>>
      BY <1>3 DEF vars
    <2>2. Ballots(U)'
      BY <1>1, <1>2, <1>3, Counts, BallotsStutter
    <2>3. Agreement(U, h)'
      BY <1>1, <1>2, <2>1, AgreementSame
    <2>4. QED  BY <1>3, <2>2, <2>3 DEF Past
  <1>4. CASE Next
    <2>1. Ballots(U)'
      BY <1>1, <1>2, <1>4, Counts, BallotsStep
    <2>2. /\ \E g : Agreement(U, g)'
          /\ restarts' = restarts => \A i \in Server : Retains(i)
      BY <1>1, <1>2, <1>4, AgreementStep
    <2>3. Past'
      BY <2>1, <2>2 DEF Past
    <2>4. \A i \in Server : restarts' # restarts \/ Keeps(i)
      BY <2>2, RetainsKeeps
    <2>5. QED  BY <2>3, <2>4
  <1>5. QED  BY <1>3, <1>4

\* The past says what is safe.
LEMMA PastSafe ==
  ASSUME StructInv, Past
  PROVE  /\ ElectionSafety /\ LogMatching /\ StateMachineSafety
         /\ LeaderCompleteness /\ MatchIndexSound
  BY Counts, MajoritiesMeet, OneLeader, LogsMatch, AppliedOnce, LeaderComplete,
     MatchesSound DEF Past

\* In every reachable state the peers have such a past.
LEMMA PastAlways ==
  ASSUME Prompt, ~LossyCrash
  PROVE  Spec => []Past
  <1>1. StructInv /\ StructInv' /\ LogTermsOrdered /\ Past /\ [Next]_vars => Past'
    BY PastStep
  <1>2. QED  BY <1>1, PastInit, Structure, LogTermsAreOrdered, PTL DEF Spec

\* Two peers that are leader in the same term are the same peer, however many
\* peers there are and whatever calls are lost or orphaned by restarts: as long
\* as a call ends before a timer of its caller fires (sendRequestVote counts a
\* vote whatever term it was granted in) and a crash loses no vote.
THEOREM ElectionsAreSafe ==
  ASSUME Prompt, ~LossyCrash
  PROVE  Spec => []ElectionSafety
  <1>1. StructInv /\ Past => ElectionSafety
    BY PastSafe
  <1>2. QED  BY <1>1, PastAlways, Structure, PTL

\* Two logs with an entry of the same index and term are the same up to it,
\* although AppendEntries of raft.go drops what follows prevLogIndex whether or
\* not it conflicts; under the assumptions of ElectionsAreSafe.
THEOREM LogsAreMatching ==
  ASSUME Prompt, ~LossyCrash
  PROVE  Spec => []LogMatching
  <1>1. StructInv /\ Past => LogMatching
    BY PastSafe
  <1>2. QED  BY <1>1, PastAlways, Structure, PTL

\* No two peers, and no two incarnations of one, send different commands with
\* the same index to applyCh, under the assumptions of ElectionsAreSafe.
THEOREM StateMachinesAreSafe ==
  ASSUME Prompt, ~LossyCrash
  PROVE  Spec => []StateMachineSafety
  <1>1. StructInv /\ Past => StateMachineSafety
    BY PastSafe
  <1>2. QED  BY <1>1, PastAlways, Structure, PTL

\* A leader that nobody has outrun has every entry that was applied anywhere,
\* under the assumptions of ElectionsAreSafe.
THEOREM LeadersAreComplete ==
  ASSUME Prompt, ~LossyCrash
  PROVE  Spec => []LeaderCompleteness
  <1>1. StructInv /\ Past => LeaderCompleteness
    BY PastSafe
  <1>2. QED  BY <1>1, PastAlways, Structure, PTL

\* matchIndex, which a leader sets from what it sent and not from what it is
\* told, never claims too much of a peer of its term, under the assumptions of
\* ElectionsAreSafe.
THEOREM MatchIndexesAreSound ==
  ASSUME Prompt, ~LossyCrash
  PROVE  Spec => []MatchIndexSound
  <1>1. StructInv /\ Past => MatchIndexSound
    BY PastSafe
  <1>2. QED  BY <1>1, PastAlways, Structure, PTL

\* No peer that is not restarted gives up an entry it knows to be committed or
\* moves its commitIndex back, though AppendEntries cuts its log; under the
\* assumptions of ElectionsAreSafe.
THEOREM CommittedEntriesStay ==
  ASSUME Prompt, ~LossyCrash
  PROVE  Spec => CommittedStays
  <1>1. StructInv /\ StructInv' /\ LogTermsOrdered /\ Past /\ [Next]_vars =>
          [\A i \in Server :
             \/ restarts' # restarts
             \/ /\ commitIndex'[i] >= commitIndex[i]
                /\ commitIndex[i] <= LastIndex(log'[i])
                /\ Upto(log'[i], commitIndex[i] + 1) = Upto(log[i], commitIndex[i] + 1)]_vars
    BY PastStep DEF Keeps
  <1>2. QED
    BY <1>1, PastAlways, Structure, LogTermsAreOrdered, PTL DEF Spec, CommittedStays

-----------------------------------------------------------------------------
(* The ticker.                                                             *)

\* A step of the ticker, of a handler or of a caller is a step of Raft or
\* changes nothing that Raft sees.
LEMMA TickerStep == [TickerNext]_tickerVars => [Next]_vars
  <1> SUFFICES ASSUME [TickerNext]_tickerVars PROVE [Next]_vars
    OBVIOUS
  <1>1. ASSUME NEW i \in Server, TickerTop(i)
        PROVE  [Next]_vars
    BY <1>1 DEF TickerTop, Next
  <1>2. ASSUME NEW i \in Server, NEW b, TickerReceive(i, b)
        PROVE  [Next]_vars
    BY <1>2 DEF TickerReceive
  <1>3. ASSUME NEW i \in Server, ElectionTimeout(i)
        PROVE  [Next]_vars
    BY <1>3 DEF ElectionTimeout, Next
  <1>4. ASSUME NEW i \in Server, HeartBeatTimeout(i)
        PROVE  [Next]_vars
    BY <1>4 DEF HeartBeatTimeout, Next
  <1>5. ASSUME NEW r \in CallsIn(requests), Handle(r)
        PROVE  [Next]_vars
    BY <1>5 DEF Handle, Next
  <1>6. ASSUME NEW c \in CallsIn(replies), CallReturns(c)
        PROVE  [Next]_vars
    BY <1>6 DEF CallReturns, Next
  <1>7. ASSUME NEW i \in Server, NEW command \in Command, TickerStart(i, command)
        PROVE  [Next]_vars
    BY <1>7 DEF TickerStart, Next
  <1>8. ASSUME NEW i \in Server, TickerLoseCalls(i)
        PROVE  [Next]_vars
    BY <1>8 DEF TickerLoseCalls, Next
  <1>9. ASSUME NEW i \in Server, TickerRestart(i)
        PROVE  [Next]_vars
    BY <1>9 DEF TickerRestart, Next
  <1>10. CASE UNCHANGED tickerVars
    BY <1>10 DEF tickerVars
  <1>11. QED
    BY <1>1, <1>2, <1>3, <1>4, <1>5, <1>6, <1>7, <1>8, <1>9, <1>10
       DEF TickerNext, ReliableNext

\* Each step of a peer with its ticker is one of Raft, or of the ticker alone, so
\* that what holds of Raft holds with the ticker.
LEMMA TickerIsRaft == TickerSpec => Spec
  <1>1. TickerInit => Init
    BY DEF TickerInit
  <1>2. QED  BY <1>1, TickerStep, PTL DEF TickerSpec, Spec

\* So a peer whose handlers wait for its ticker keeps its promises and applies
\* in order, on any network and over any crash.
COROLLARY TickerKeepsOrder ==
  TickerSpec => PromisesKept /\ []AppliedInOrder /\ []LogTermsOrdered
  BY TickerIsRaft, PromisesAreKept, AppliesInOrder, LogTermsAreOrdered, PTL

\* A row of n copies has n of them.
LEMMA RowsCount == Rows
  <1> SUFFICES ASSUME NEW x, NEW n \in Nat
               PROVE  Cardinality({x} \X (1..n)) = n
    BY DEF Rows
  <1>1. IsFiniteSet(1..n) /\ Cardinality(1..n) = n
    <2>1. IsFiniteSet(1..n) /\ Cardinality(1..n) = IF 1 > n THEN 0 ELSE n - 1 + 1
      BY FS_Interval, SMTT(60)
    <2>2. QED  BY <2>1, SMTT(60)
  <1>2. IsFiniteSet({x}) /\ Cardinality({x}) = 1
    BY FS_Singleton
  <1>3. Cardinality({x} \X (1..n)) = 1 * n
    BY <1>1, <1>2, FS_Product
  <1>4. QED  BY <1>3, SMTT(60)

\* A caller never gets the reply of a handler that still waits for the ticker
\* of its peer, although labrpc hands over the reply of any handler like it,
\* loses calls and orphans the handlers of a peer that is restarted.
THEOREM HandlersReplyLater == TickerSpec => []TickerTypeOK
  <1>1. StructInv => \A r \in CallsIn(requests) : r.dst \in Server
    <2>1. ASSUME StructInv, NEW r \in CallsIn(requests)
          PROVE  r.dst \in Server
      BY <2>1, RequestType
    <2>2. QED  BY <2>1
  <1>2. StructInv /\ Waiting /\ [TickerNext]_tickerVars => Waiting'
    BY <1>1, RowsCount, WaitingStep
  <1>3. TickerInit => Waiting
    BY WaitingInit
  <1>4. Waiting => TickerTypeOK
    BY WaitingTyped
  <1>5. QED  BY <1>2, <1>3, <1>4, TickerIsRaft, Structure, PTL DEF TickerSpec

\* All of this holds of the peers with their tickers, channels and waiting
\* handlers.
COROLLARY TickerIsSafe ==
  ASSUME Prompt, ~LossyCrash
  PROVE  TickerSpec => /\ [](ElectionSafety /\ LogMatching /\ StateMachineSafety)
                       /\ [](LeaderCompleteness /\ MatchIndexSound)
                       /\ CommittedStays
  <1>1. StructInv /\ Past => /\ ElectionSafety /\ LogMatching /\ StateMachineSafety
                             /\ LeaderCompleteness /\ MatchIndexSound
    BY PastSafe
  <1>2. QED
    BY <1>1, TickerIsRaft, PastAlways, Structure, CommittedEntriesStay, PTL

=============================================================================
