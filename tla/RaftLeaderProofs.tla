-------------------------- MODULE RaftLeaderProofs --------------------------
(***************************************************************************)
(* The steps of a peer that stands for election, leads, or hears the       *)
(* answers to its calls, for any number of peers, elections, losses and    *)
(* restarts: the history of the leaders still explains the logs, the calls *)
(* under way, what leaders know of the other peers, and what is committed. *)
(***************************************************************************)
EXTENDS RaftFollowerProofs

\* Leaves are first-order unless they say otherwise.
USE ZenonT(60)

-----------------------------------------------------------------------------
(* Elections, heartbeats, commands and answers.                            *)

\* The election timer fires, and no call of the peer is under way.
LEMMA AgreementCandidate ==
  ASSUME StructInv, StructInv', LogTermsOrdered, Prompt, NEW V, NEW h, Agreement(V, h),
         NEW U, U = Recall(V), \A p \in Server : Promise(p), NEW i \in Server,
         becomeCandidate(i)
  PROVE  Agreement(U, h)' /\ \A j \in Server : Retains(j)
  <1>1. /\ Quiet(i) /\ log' = log /\ UNCHANGED indexVars /\ replies' = replies
        /\ commitIndex' = commitIndex /\ delivered' = delivered
        /\ state' = [state EXCEPT ![i] = "Candidate"]
        /\ currentTerm' = [currentTerm EXCEPT ![i] = @ + 1]
    BY DEF becomeCandidate, applyVars
  <1>2. /\ Recorded(V) /\ PeersInv(V, h) /\ CallsInv(h) /\ Indexes(h) /\ Commits(h)
        /\ h \in Histories /\ LeaderLogs(h)
    BY DEF Agreement, PeersInv
  <1>3. /\ state'[i] = "Candidate" /\ currentTerm'[i] = currentTerm[i] + 1
        /\ \A j \in Server : j # i => state'[j] = state[j] /\ currentTerm'[j] = currentTerm[j]
    BY <1>1, StructParts DEF ElectionTypes
  <1>4. PeersInv(U, h)'
    BY <1>2, PeersCandidate
  <1>5. Recorded(U)' /\ Rising
    BY <1>2, VotesRecalled
  <1>6. Evolves(h, h)
    BY <1>2, <1>5, EvolvesSelf
  <1>7. \A j \in Server : state'[j] = "Leader" => SameIndexes(j)
    BY <1>1, <1>3 DEF SameIndexes, indexVars
  <1>8. CallsInv(h)'
    <2>1. SteadyCalls
      <3>1. ASSUME NEW r, r \in Request, r.rpc = "AppendEntries", r.src # i
            PROVE  Steady(r)
        BY <1>3, <3>1, EntryCall DEF Steady, Settled
      <3>2. \A r \in EntryRequests : r.src # i
        BY <1>1 DEF Quiet, EntryRequests
      <3>3. \A c \in EntryReplies : c.req.src # i
        BY <1>1 DEF Quiet, EntryReplies
      <3>4. QED  BY <3>1, <3>2, <3>3, EntryCalls DEF SteadyCalls
    <2>2. SameOffice(h)
      BY <1>3 DEF SameOffice
    <2>3. AcksKnown(h)
      BY <1>2 DEF AcksKnown, CallsInv, GoodRequest
    <2>4. LaterRuns(h, h)
      <3>1. ASSUME NEW j \in Server, NEW t \in Nat, Runs(h, j, t)'
            PROVE  (Runs(h, j, t) /\ log'[j] = log[j]) \/ t > currentTerm[j]
        <4>1. CASE j = i
          <5>1. t = currentTerm[i] + 1
            BY <1>3, <3>1, <4>1 DEF Runs
          <5>2. currentTerm[i] \in Nat
            BY FieldTypes
          <5>3. t > currentTerm[i]
            BY <5>1, <5>2, SMTT(60)
          <5>4. QED  BY <4>1, <5>3
        <4>2. CASE j # i
          BY <1>1, <1>3, <3>1, <4>2 DEF Runs, Led
        <4>3. QED  BY <4>1, <4>2
      <3>2. QED  BY <3>1 DEF LaterRuns
    <2>5. PICK S : S = {[rpc |-> "RequestVote", src |-> i, dst |-> j,
                         term |-> currentTerm[i] + 1, candidateId |-> i,
                         lastLogIndex |-> LastIndex(log[i]),
                         lastLogTerm |-> At(log[i], LastIndex(log[i])).term] : j \in Peers(i)}
      OBVIOUS
    <2>6. CallsIn(requests') = CallsIn(requests) \cup S
      <3>1. requests' = Send(requests, S)
        BY <2>5 DEF becomeCandidate
      <3>2. QED  BY <3>1, SentCalls
    <2>7. \A r \in S : /\ r.rpc = "RequestVote" /\ r.term = currentTerm'[i]
                       /\ r.candidateId = i /\ r.lastLogIndex = LastIndex(log'[i])
                       /\ r.lastLogTerm = At(log'[i], LastIndex(log'[i])).term
      <3>1. \A r \in S : /\ r.rpc = "RequestVote" /\ r.term = currentTerm[i] + 1
                         /\ r.candidateId = i /\ r.lastLogIndex = LastIndex(log[i])
                         /\ r.lastLogTerm = At(log[i], LastIndex(log[i])).term
        <4>1. TAKE r \in S
        <4>2. PICK j : r = [rpc |-> "RequestVote", src |-> i, dst |-> j,
                            term |-> currentTerm[i] + 1, candidateId |-> i,
                            lastLogIndex |-> LastIndex(log[i]),
                            lastLogTerm |-> At(log[i], LastIndex(log[i])).term]
          BY <2>5
        <4>3. QED  BY <4>2
      <3>2. log'[i] = log[i] /\ currentTerm'[i] = currentTerm[i] + 1
        BY <1>1, <1>3
      <3>3. QED  BY <3>1, <3>2
    <2>8. NewEntryRequests(h)
      BY <2>6, <2>7 DEF NewEntryRequests, EntryRequests
    <2>9. NewEntryReplies(h)
      BY <1>1, NoNewReplies
    <2>10. NewVoteRequests(h)
      <3>1. ASSUME NEW r \in S
            PROVE  Asked(h, r)'
        <4>1. currentTerm'[i] <= currentTerm'[i]
          <5>1. currentTerm'[i] \in Nat
            BY FieldTypesPrime
          <5>2. QED  BY <5>1, SMTT(60)
        <4>2. QED  BY <2>7, <3>1, <4>1 DEF Asked, LastTerm
      <3>2. QED  BY <2>6, <3>1 DEF NewVoteRequests
    <2>11. QED
      BY <1>2, <1>6, <2>1, <2>2, <2>3, <2>4, <2>8, <2>9, <2>10, CallsGoOn
  <1>9. Indexes(h)'
    BY <1>2, <1>4, <1>6, <1>7, IndexesGoOn
  <1>10. Commits(h)'
    <2>1. \A j \in Server : Agree(log'[j], log[j], commitIndex[j])
      BY <1>1, <1>2, RetainsLog
    <2>2. QED  BY <1>1, <1>2, <1>6, <2>1, CommitsGoOn
  <1>11. QED  BY <1>1, <1>2, <1>4, <1>5, <1>8, <1>9, <1>10, RetainsSame DEF Agreement

\* What a heartbeat carries.
LEMMA HeartBeatCarries ==
  ASSUME StructInv, NEW V, NEW h, PeersInv(V, h), Indexes(h), NEW i \in Server,
         state[i] = "Leader", NEW j \in Server, i # j, NEW r, r = HeartBeat(i, j)
  PROVE  Beats(h, i, j, r)
  <1>1. PICK l : l = log[i]
    OBVIOUS
  <1>2. PICK next : next = nextIndex[i][j]
    OBVIOUS
  <1>3. l \in Seq(Entry) /\ Len(l) \in Nat /\ next \in Nat /\ next >= 1 /\ next <= Len(l)
    <2>1. l \in Seq(Entry) /\ next \in Nat \ {0}
      BY <1>1, <1>2, FieldTypes
    <2>2. next <= Len(l)
      BY <1>1, <1>2 DEF Indexes, IndexesAt
    <2>3. QED  BY <2>1, <2>2, SMTT(60)
  <1>4. /\ r.rpc = "AppendEntries" /\ r.src = i /\ r.dst = j /\ r.term = currentTerm[i]
        /\ r.prevLogIndex = next - 1 /\ r.prevLogTerm = PrevLogTerm(l, next)
        /\ r.entries = (IF next < Len(l) THEN From(l, next) ELSE <<>>)
        /\ r.leaderCommit = commitIndex[i]
    BY <1>1, <1>2 DEF HeartBeat
  <1>5. /\ currentTerm[i] \in Nat /\ Led(h, currentTerm[i])
        /\ h.leader[currentTerm[i]] = i /\ l = h.log[currentTerm[i]]
    <2>1. Leads(h, i)
      BY <1>1, LeaderLed
    <2>2. QED  BY <1>1, <2>1 DEF Leads
  <1>6. /\ Len(r.entries) + (next - 1) = Len(l) - 1
        /\ \A x \in 1..Len(r.entries) : r.entries[x] = l[next - 1 + x + 1]
    <2>1. CASE next < Len(l)
      <3>1. r.entries = SubSeq(l, next + 1, Len(l))
        BY <1>4, <2>1 DEF From
      <3>2. QED  BY <1>3, <2>1, <3>1, SMTT(60)
    <2>2. CASE ~(next < Len(l))
      <3>1. r.entries = <<>> /\ next = Len(l)
        <4>1. next = Len(l)
          BY <1>3, <2>2, SMTT(60)
        <4>2. QED  BY <1>4, <2>2, <4>1
      <3>2. QED  BY <1>3, <3>1, SMTT(60)
    <2>3. QED  BY <2>1, <2>2
  <1>7. Replicated(r) = LastIndex(l)
    BY <1>4, <1>6 DEF Replicated, LastIndex
  <1>8. r.prevLogTerm = At(l, r.prevLogIndex).term
    <2>1. CASE next < Len(l)
      BY <1>4, <2>1 DEF PrevLogTerm
    <2>2. CASE ~(next < Len(l))
      <3>1. LastIndex(l) = next - 1
        BY <1>3, <2>2, SMTT(60) DEF LastIndex
      <3>2. QED  BY <1>4, <2>2, <3>1 DEF PrevLogTerm
    <2>3. QED  BY <2>1, <2>2
  <1>9. /\ Replicated(r) <= LastIndex(l)
        /\ LastIndex(h.base[currentTerm[i]]) <= Replicated(r)
    <2>1. h \in Histories /\ Agree(h.base[currentTerm[i]], l, LastIndex(h.base[currentTerm[i]]))
      BY <1>5 DEF PeersInv, LeaderLogs, LeaderLog
    <2>2. h.base[currentTerm[i]] \in Seq(Entry)
      BY <1>5, <2>1, HistoryType
    <2>3. LastIndex(h.base[currentTerm[i]]) \in Int
      BY <2>2, SMTT(60) DEF LastIndex
    <2>4. LastIndex(h.base[currentTerm[i]]) < Len(l)
      BY <2>1 DEF Agree
    <2>5. LastIndex(l) = Len(l) - 1
      BY DEF LastIndex
    <2>6. QED  BY <1>3, <1>7, <2>3, <2>4, <2>5, SMTT(60)
  <1>10. \A x \in 1..Len(r.entries) : r.entries[x] = At(l, r.prevLogIndex + x)
    BY <1>4, <1>6 DEF At
  <1>11. Carries(h, r)
    BY <1>4, <1>5, <1>8, <1>9, <1>10 DEF Carries
  <1>12. QED  BY <1>1, <1>4, <1>7, <1>11 DEF Beats

\* What its leader commits is committed.
LEMMA HeartBeatGood ==
  ASSUME StructInv, NEW V, NEW h, Agreement(V, h), NEW i \in Server,
         state[i] = "Leader", NEW j \in Server, i # j, NEW r, r = HeartBeat(i, j)
  PROVE  GoodRequest(h, r) /\ ByLeader(r)
  <1>1. PeersInv(V, h) /\ Indexes(h) /\ Commits(h) /\ Holds(h)
    BY DEF Agreement, PeersInv
  <1>2. /\ Carries(h, r) /\ Replicated(r) = LastIndex(log[i])
        /\ r.src = i /\ r.dst = j /\ r.term = currentTerm[i]
        /\ r.leaderCommit = commitIndex[i]
    <2>1. Beats(h, i, j, r)
      BY <1>1, HeartBeatCarries
    <2>2. QED  BY <2>1 DEF Beats
  <1>3. /\ currentTerm[i] \in Nat /\ Led(h, currentTerm[i])
        /\ h.leader[currentTerm[i]] = i /\ log[i] = h.log[currentTerm[i]]
    <2>1. Leads(h, i)
      BY <1>1, LeaderLed
    <2>2. QED  BY <2>1 DEF Leads
  <1>4. h.ack[currentTerm[i]][j] <= LastIndex(h.log[currentTerm[i]])
    BY <1>1, <1>3 DEF Holds, AckAt
  <1>5. Committed(h, h.log[currentTerm[i]], commitIndex[i], currentTerm[i])
    <2>1. CommitAt(h, i)
      BY <1>1 DEF Commits
    <2>2. CASE commitIndex[i] = 0
      BY <2>2 DEF Committed
    <2>3. CASE commitIndex[i] # 0
      <3>1. PICK u \in Nat, n \in Nat :
              /\ u <= currentTerm[i] /\ commitIndex[i] <= n /\ Chosen(h, u, n)
              /\ Agree(log[i], h.log[u], commitIndex[i])
        BY <2>1, <2>3 DEF CommitAt
      <3>2. QED  BY <1>3, <3>1 DEF Committed
    <2>4. QED  BY <2>2, <2>3
  <1>6. ASSUME NEW k \in Server, state[k] = "Leader", currentTerm[k] = currentTerm[i]
        PROVE  k = i
    <2>1. h.leader[currentTerm[k]] = k
      <3>1. Leads(h, k)
        BY <1>1, <1>6, LeaderLed
      <3>2. QED  BY <3>1 DEF Leads
    <2>2. QED  BY <1>3, <1>6, <2>1
  <1>7. GoodRequest(h, r)
    <2>1. h.ack[r.term][r.dst] <= Replicated(r)
      BY <1>2, <1>3, <1>4
    <2>2. Committed(h, h.log[r.term], r.leaderCommit, r.term)
      BY <1>2, <1>5
    <2>3. \A k \in Server : state[k] = "Leader" /\ r.term = currentTerm[k] => r.src = k
      BY <1>2, <1>6
    <2>4. QED  BY <1>2, <2>1, <2>2, <2>3 DEF GoodRequest
  <1>8. QED  BY <1>2, <1>7 DEF ByLeader

\* It does so whoever is leader, as long as nobody is elected.
LEMMA GoodRequestSame ==
  ASSUME NEW h, NEW r, GoodRequest(h, r), ByLeader(r), UNCHANGED electionVars
  PROVE  GoodRequest(h, r)' /\ ByLeader(r)'
  <1>1. state' = state /\ currentTerm' = currentTerm
    BY DEF electionVars
  <1>2. ByLeader(r)'
    BY <1>1 DEF ByLeader, Standing, Empty
  <1>3. CASE Empty(r)
    BY <1>2, <1>3 DEF GoodRequest, Empty
  <1>4. CASE ~Empty(r)
    <2>1. /\ Carries(h, r) /\ h.ack[r.term][r.dst] <= Replicated(r)
          /\ Committed(h, h.log[r.term], r.leaderCommit, r.term)
          /\ \A i \in Server : state[i] = "Leader" /\ r.term = currentTerm[i] => r.src = i
      BY <1>4 DEF GoodRequest
    <2>2. Carries(h, r)'
      BY <2>1 DEF Carries, Replicated, LastIndex, Led, At
    <2>3. (h.ack[r.term][r.dst] <= Replicated(r))'
      BY <2>1 DEF Replicated
    <2>4. Committed(h, h.log[r.term], r.leaderCommit, r.term)'
      BY <2>1 DEF Committed, Chosen, Own, Led, Agree, Quorums, Majority, LastIndex, At
    <2>5. \A i \in Server : state'[i] = "Leader" /\ r.term = currentTerm'[i] => r.src = i
      BY <1>1, <2>1
    <2>6. QED  BY <1>2, <2>2, <2>3, <2>4, <2>5 DEF GoodRequest
  <1>5. QED  BY <1>3, <1>4

\* The heartbeat timer fires, and no call of the leader is under way.
LEMMA AgreementHeartBeats ==
  ASSUME StructInv, StructInv', LogTermsOrdered, Prompt, NEW V, NEW h, Agreement(V, h),
         NEW U, U = Recall(V), NEW i \in Server, sendHeartBeats(i)
  PROVE  Agreement(U, h)' /\ \A j \in Server : Retains(j)
  <1>1. /\ state[i] = "Leader" /\ Quiet(i) /\ UNCHANGED electionVars /\ log' = log
        /\ UNCHANGED indexVars /\ commitIndex' = commitIndex /\ delivered' = delivered
        /\ requests' = Send(requests, {HeartBeat(i, j) : j \in Peers(i)})
        /\ replies' = replies
    BY DEF sendHeartBeats, applyVars
  <1>2. PeersInv(V, h) /\ CallsInv(h) /\ Indexes(h) /\ Commits(h)
    BY DEF Agreement
  <1>3. Calm
    BY <1>1, CalmUnchanged
  <1>4. CallsIn(requests') = CallsIn(requests) \cup {HeartBeat(i, j) : j \in Peers(i)}
    BY <1>1, SentCalls
  <1>5. ASSUME NEW r \in EntryRequests, NEW q, q.term = currentTerm[i]
        PROVE  ~(r.term = q.term)
    <2>1. currentTerm[i] \in Nat /\ currentTerm[i] >= 1
      <3>1. currentTerm[i] \in Nat /\ Led(h, currentTerm[i])
        <4>1. Leads(h, i)
          BY <1>1, <1>2, LeaderLed
        <4>2. QED  BY <4>1 DEF Leads
      <3>2. QED  BY <1>2, <3>1 DEF PeersInv, Elected
    <2>2. currentTerm[i] # 0
      BY <2>1, SMTT(60)
    <2>3. ASSUME r.term = currentTerm[i]
          PROVE  FALSE
      <3>1. ~Empty(r)
        BY <2>2, <2>3 DEF Empty
      <3>2. r.src = i
        BY <1>1, <1>2, <2>3, <3>1 DEF CallsInv, GoodRequest
      <3>3. QED  BY <1>1, <3>2 DEF Quiet, EntryRequests
    <2>4. QED  BY <1>5, <2>3
  <1>6. ASSUME NEW r \in CallsIn(requests')
        PROVE  \/ r \in CallsIn(requests)
               \/ \E j \in Server : i # j /\ r = HeartBeat(i, j)
    BY <1>4, <1>6 DEF Peers
  <1>7. ASSUME NEW j \in Server, i # j, NEW r, r = HeartBeat(i, j)
        PROVE  /\ GoodRequest(h, r)' /\ ByLeader(r)' /\ r.rpc = "AppendEntries"
               /\ Replicated(r) = LastIndex(log[i]) /\ r.term = currentTerm[i]
    <2>1. /\ r.rpc = "AppendEntries" /\ Replicated(r) = LastIndex(log[i])
          /\ r.term = currentTerm[i]
      <3>1. Beats(h, i, j, r)
        BY <1>1, <1>2, <1>7, HeartBeatCarries
      <3>2. QED  BY <3>1 DEF Beats
    <2>2. GoodRequest(h, r) /\ ByLeader(r)
      BY <1>1, <1>7, HeartBeatGood
    <2>3. QED  BY <1>1, <2>1, <2>2, GoodRequestSame
  <1>8. NewEntryRequests(h)
    <2>1. SUFFICES ASSUME NEW r \in EntryRequests', r \notin EntryRequests
                   PROVE  /\ GoodRequest(h, r)' /\ ByLeader(r)'
                          /\ \A q \in EntryRequests' : Alike(r, q)
      BY DEF NewEntryRequests
    <2>2. PICK j \in Server : i # j /\ r = HeartBeat(i, j)
      BY <1>6, <2>1 DEF EntryRequests
    <2>3. /\ GoodRequest(h, r)' /\ ByLeader(r)'
          /\ Replicated(r) = LastIndex(log[i]) /\ r.term = currentTerm[i]
      BY <1>7, <2>2
    <2>4. ASSUME NEW q \in EntryRequests'
          PROVE  Alike(r, q)
      <3>1. CASE q \in EntryRequests
        BY <1>5, <2>3, <3>1 DEF Alike
      <3>2. CASE q \notin EntryRequests
        <4>1. PICK k \in Server : i # k /\ q = HeartBeat(i, k)
          BY <1>6, <2>4, <3>2 DEF EntryRequests
        <4>2. Replicated(q) = LastIndex(log[i])
          BY <1>7, <4>1
        <4>3. QED  BY <2>3, <4>2 DEF Alike
      <3>3. QED  BY <3>1, <3>2
    <2>5. QED  BY <2>3, <2>4
  <1>9. NewVoteRequests(h)
    <2>1. ASSUME NEW r \in CallsIn(requests'), r.rpc = "RequestVote"
          PROVE  r \in CallsIn(requests)
      BY <1>6, <1>7, <2>1
    <2>2. QED  BY <2>1 DEF NewVoteRequests
  <1>10. NewEntryReplies(h)
    BY <1>1, NoNewReplies
  <1>11. NoCommits
    BY <1>1 DEF NoCommits
  <1>12. Agreement(U, h)'
    BY <1>1, <1>3, <1>8, <1>9, <1>10, <1>11, CalmIndexes, CalmGoesOn
  <1>13. QED  BY <1>1, <1>2, <1>12, RetainsSame

\* A leader appends a command.
LEMMA AgreementStart ==
  ASSUME StructInv, StructInv', NEW V, NEW h, Agreement(V, h), NEW U, U = Recall(V),
         NEW i \in Server, NEW command \in Command, Start(i, command)
  PROVE  (\E g : Agreement(U, g)') /\ \A j \in Server : Retains(j)
  <1>1. /\ state[i] = "Leader" /\ UNCHANGED electionVars
        /\ commitIndex' = commitIndex /\ delivered' = delivered
        /\ requests' = requests /\ replies' = replies
        /\ matchIndex' = [matchIndex EXCEPT ![i][i] = Len(log[i])]
        /\ nextIndex' = [nextIndex EXCEPT ![i][i] = Len(log[i]) + 1]
    BY DEF Start, applyVars, callVars
  <1>2. /\ Recorded(V) /\ PeersInv(V, h) /\ CallsInv(h) /\ Indexes(h) /\ Commits(h)
        /\ h \in Histories
    BY DEF Agreement, PeersInv
  <1>3. Calm
    BY <1>1, CalmUnchanged
  <1>4. PICK t : t = currentTerm[i]
    OBVIOUS
  <1>5. PICK l : l = log'[i]
    OBVIOUS
  <1>6. PICK g : Appends(h, g, i)
    BY DEF Appends, Made
  <1>7. Appended(h, g, t, l, i)
    BY <1>2, <1>4, <1>5, <1>6, StartHistory
  <1>8. PeersInv(U, g)' /\ Evolves(h, g)
    BY <1>1, <1>2, <1>3, <1>7, PeersStart
  <1>9. Recorded(U)' /\ Rising
    BY <1>2, <1>3, CalmVotes, VotesRecalled
  <1>10. /\ g.leader = h.leader /\ t \in Nat /\ h.leader[t] = i /\ log'[i] = l
         /\ \A q \in Server : q # i => log'[q] = log[q]
         /\ g.ack[t][i] = LastIndex(l) /\ LastIndex(l) = Len(log[i])
         /\ \A u \in Nat, q \in Server : u # t \/ q # i => g.ack[u][q] = h.ack[u][q]
         /\ Len(log[i]) \in Nat
    BY <1>7 DEF Appended
  <1>11. state' = state /\ currentTerm' = currentTerm
    BY <1>1 DEF electionVars
  <1>12. CallsInv(g)'
    <2>1. SameOffice(h)
      BY <1>11 DEF SameOffice
    <2>2. SteadyCalls
      BY <1>3, SettledSteady DEF Calm
    <2>3. AcksKnown(g)
      <3>1. ASSUME NEW r \in EntryRequests, ~Empty(r)
            PROVE  g.ack[r.term][r.dst] <= Replicated(r)
        <4>1. h.ack[r.term][r.dst] <= Replicated(r) /\ r.dst # h.leader[r.term]
          BY <1>2, <3>1 DEF CallsInv, GoodRequest, Carries
        <4>2. r.term \in Nat /\ r.dst \in Server
          BY EntryCalls, EntryCall
        <4>3. r.term # t \/ r.dst # i
          BY <1>10, <4>1
        <4>4. QED  BY <1>10, <4>1, <4>2, <4>3
      <3>2. QED  BY <3>1 DEF AcksKnown
    <2>4. LaterRuns(h, g)
      <3>1. ASSUME NEW j \in Server, NEW u \in Nat, Runs(g, j, u)'
            PROVE  Runs(h, j, u) /\ log'[j] = log[j]
        <4>1. Runs(h, j, u)
          BY <1>10, <1>11, <3>1 DEF Runs, Led
        <4>2. j # i
          BY <1>1, <4>1 DEF Runs
        <4>3. QED  BY <1>10, <4>1, <4>2
      <3>2. QED  BY <3>1 DEF LaterRuns
    <2>5. NewEntryRequests(g) /\ NewVoteRequests(g) /\ NewEntryReplies(g)
      BY <1>1, NoNewCalls, NoNewReplies
    <2>6. QED  BY <1>2, <1>8, <2>1, <2>2, <2>3, <2>4, <2>5, CallsGoOn
  <1>13. /\ matchIndex \in [Server -> [Server -> Nat]]
         /\ nextIndex \in [Server -> [Server -> Nat \ {0}]]
    BY FieldTypes, StructParts DEF IndexTypes
  <1>14. ASSUME NEW j \in Server, state'[j] = "Leader", j # i
         PROVE  IndexesAt(g, j)'
    <2>1. nextIndex'[j] = nextIndex[j] /\ matchIndex'[j] = matchIndex[j]
      BY <1>1, <1>13, <1>14
    <2>2. SameIndexes(j)
      BY <1>10, <1>11, <1>14, <2>1 DEF SameIndexes
    <2>3. QED  BY <1>2, <1>8, <1>14, <2>2, IndexKept
  <1>15. IndexesAt(g, i)'
    <2>1. IndexesAt(h, i)
      BY <1>1, <1>2 DEF Indexes
    <2>2. /\ matchIndex'[i][i] = Len(log[i])
          /\ \A k \in Server : k # i => /\ matchIndex'[i][k] = matchIndex[i][k]
                                        /\ nextIndex'[i][k] = nextIndex[i][k]
      BY <1>1, <1>13
    <2>3. \A k \in Server : matchIndex'[i][k] <= g.ack[t][k]
      <3>1. ASSUME NEW k \in Server, k # i
            PROVE  matchIndex'[i][k] <= g.ack[t][k]
        <4>1. matchIndex[i][k] <= h.ack[t][k]
          BY <1>4, <2>1 DEF IndexesAt
        <4>2. g.ack[t][k] = h.ack[t][k]
          BY <1>10, <3>1
        <4>3. QED  BY <2>2, <3>1, <4>1, <4>2
      <3>2. matchIndex'[i][i] <= g.ack[t][i]
        <4>1. Len(log[i]) <= Len(log[i])
          BY <1>10, SMTT(60)
        <4>2. QED  BY <1>10, <2>2, <4>1
      <3>3. QED  BY <3>1, <3>2
    <2>4. ASSUME NEW k \in Server, i # k
          PROVE  nextIndex'[i][k] <= Len(log'[i])
      <3>1. nextIndex[i][k] <= Len(log[i]) /\ nextIndex[i][k] \in Nat
        BY <1>13, <2>1, <2>4 DEF IndexesAt
      <3>2. Len(l) - 1 = Len(log[i]) /\ Len(l) \in Nat
        <4>1. l \in Seq(Entry)
          BY <1>7 DEF Appended
        <4>2. Len(l) \in Nat
          BY <4>1, SMTT(60)
        <4>3. QED  BY <1>10, <4>2 DEF LastIndex
      <3>3. nextIndex[i][k] <= Len(l)
        BY <1>10, <3>1, <3>2, SMTT(60)
      <3>4. QED  BY <1>10, <2>2, <2>4, <3>3
    <2>5. g.ack[currentTerm'[i]][i] = LastIndex(log'[i])
      BY <1>4, <1>10, <1>11
    <2>6. \A k \in Server : matchIndex'[i][k] <= g.ack[currentTerm'[i]][k]
      BY <1>4, <1>11, <2>3
    <2>7. QED  BY <2>4, <2>5, <2>6 DEF IndexesAt
  <1>16. Indexes(g)'
    BY <1>14, <1>15 DEF Indexes
  <1>17. \A q \in Server : Agree(log'[q], log[q], commitIndex[q])
    <2>1. Agree(log'[i], log[i], commitIndex[i])
      <3>1. CommitAt(h, i)
        BY <1>2 DEF Commits
      <3>2. commitIndex[i] < Len(log[i])
        BY <3>1, CommitInLog
      <3>3. commitIndex[i] \in Int
        BY FieldTypes, SMTT(60)
      <3>4. QED  BY <1>7, <1>10, <3>2, <3>3 DEF Appended
    <2>2. QED  BY <1>2, <1>10, <2>1, OthersRetain
  <1>18. Commits(g)'
    BY <1>1, <1>2, <1>8, <1>17, CommitsGoOn
  <1>19. \A j \in Server : Retains(j)
    <2>1. \A j \in Server : commitIndex[j] >= commitIndex[j]
      BY FieldTypes, SMTT(60)
    <2>2. QED  BY <1>1, <1>17, <2>1 DEF Retains
  <1>20. Agreement(U, g)'
    BY <1>8, <1>9, <1>12, <1>16, <1>18 DEF Agreement
  <1>21. QED  BY <1>19, <1>20

\* A candidate with the votes of a quorum becomes leader.
LEMMA AgreementElect ==
  ASSUME StructInv, StructInv', LogTermsOrdered, QuorumsMeet, NEW V, NEW h,
         Agreement(V, h), NEW U, U = Recall(V), NEW i \in Server,
         state[i] = "Candidate", NEW t, t = currentTerm[i], t >= 1, WonBy(V, t, i),
         BecomeLeader(i), NEW c, replies' = Take(replies, c), log' = log,
         UNCHANGED applyVars
  PROVE  (\E g : Agreement(U, g)') /\ \A j \in Server : Retains(j)
  <1>1. /\ state' = [state EXCEPT ![i] = "Leader"]
        /\ currentTerm' = currentTerm /\ votedFor' = votedFor
        /\ nextIndex' = [nextIndex EXCEPT ![i] = [j \in Server |-> Len(log[i])]]
        /\ matchIndex' = [matchIndex EXCEPT ![i] = [j \in Server |-> 0]]
        /\ commitIndex' = commitIndex /\ delivered' = delivered
    BY DEF BecomeLeader, applyVars
  <1>2. /\ Recorded(V) /\ PeersInv(V, h) /\ CallsInv(h) /\ Indexes(h) /\ Commits(h)
        /\ h \in Histories /\ \A u \in Nat : Led(h, u) => u >= 1
    BY DEF Agreement, PeersInv, Elected
  <1>3. state'[i] = "Leader" /\ \A j \in Server : j # i => state'[j] = state[j]
    BY <1>1, StructParts DEF ElectionTypes
  <1>4. VotesStay(V, U) /\ Recorded(U)' /\ Rising
    <2>1. \A p \in Server : Promise(p)
      BY <1>1 DEF Promise
    <2>2. QED  BY <1>2, <2>1, VotesRecalled
  <1>5. NoVotes(V, U)
    <2>1. ASSUME NEW u \in Nat, NEW p \in Server
          PROVE  U[u][p] = V[u][p]
      <3>1. U[u][p] = IF u = currentTerm'[p] THEN votedFor'[p] ELSE V[u][p]
        BY DEF Recall
      <3>2. V[currentTerm[p]][p] = votedFor[p]
        BY <1>2 DEF Recorded
      <3>3. currentTerm'[p] = currentTerm[p] /\ votedFor'[p] = votedFor[p]
        BY <1>1
      <3>4. QED  BY <3>1, <3>2, <3>3
    <2>2. QED  BY <2>1 DEF NoVotes
  <1>6. PICK g : Elects(h, g, i)
    BY DEF Elects, Made
  <1>7. Installed(h, g, t, i)
    BY <1>2, <1>6, ElectHistory
  <1>8. PeersInv(U, g)' /\ Evolves(h, g)
    BY <1>1, <1>2, <1>4, <1>5, <1>7, PeersElect
  <1>9. /\ t \in Nat /\ ~Led(h, t) /\ g.leader[t] = i
        /\ \A u \in Nat : u # t => g.leader[u] = h.leader[u]
        /\ g.ack[t][i] = LastIndex(log[i])
        /\ \A u \in Nat, q \in Server : u # t \/ q # i => g.ack[u][q] = h.ack[u][q]
    BY <1>7 DEF Installed
  <1>10. PICK S : S = {[rpc |-> "AppendEntries", src |-> i, dst |-> j, term |-> 0,
                        prevLogIndex |-> 0, prevLogTerm |-> 0, entries |-> <<>>,
                        leaderCommit |-> 0] : j \in Peers(i)}
    OBVIOUS
  <1>11. CallsIn(requests') = CallsIn(requests) \cup S
    <2>1. requests' = Send(requests, S)
      BY <1>10 DEF BecomeLeader
    <2>2. QED  BY <2>1, SentCalls
  <1>12. ASSUME NEW r \in S
         PROVE  r.rpc = "AppendEntries" /\ r.src = i /\ Empty(r) /\ Replicated(r) = 0
    <2>1. PICK j : r = [rpc |-> "AppendEntries", src |-> i, dst |-> j, term |-> 0,
                        prevLogIndex |-> 0, prevLogTerm |-> 0, entries |-> <<>>,
                        leaderCommit |-> 0]
      BY <1>10, <1>12
    <2>2. /\ r.rpc = "AppendEntries" /\ r.src = i /\ r.term = 0 /\ r.prevLogIndex = 0
          /\ r.prevLogTerm = 0 /\ r.entries = <<>> /\ r.leaderCommit = 0
      BY <2>1
    <2>3. Len(<<>>) + 0 = 0
      BY SMTT(60)
    <2>4. QED  BY <2>2, <2>3 DEF Empty, Replicated
  <1>13. ASSUME NEW r \in EntryRequests, r.term = 0
         PROVE  Replicated(r) = 0
    <2>1. ~Led(h, 0)
      <3>1. ~(0 >= 1)
        BY SMTT(60)
      <3>2. QED  BY <1>2, <3>1
    <2>2. Empty(r)
      BY <1>2, <1>13, <2>1 DEF CallsInv, GoodRequest, Carries
    <2>3. Len(<<>>) + 0 = 0
      BY SMTT(60)
    <2>4. QED  BY <2>2, <2>3 DEF Empty, Replicated
  <1>14. CallsInv(g)'
    <2>1. SameOffice(h)
      BY <1>1, <1>3, <1>9 DEF SameOffice
    <2>2. SteadyCalls
      <3>1. ASSUME NEW r, r \in Request, r.rpc = "AppendEntries", ByLeader(r)
            PROVE  Steady(r)
        <4>1. r.src # i
          BY <3>1, NilAssumption DEF ByLeader, Standing
        <4>2. QED  BY <1>1, <1>3, <3>1, <4>1, EntryCall DEF Steady, Settled
      <3>2. \A r \in EntryRequests : ByLeader(r)
        BY <1>2 DEF CallsInv
      <3>3. \A d \in EntryReplies : ByLeader(d.req)
        BY <1>2 DEF CallsInv
      <3>4. QED  BY <3>1, <3>2, <3>3, EntryCalls DEF SteadyCalls
    <2>3. AcksKnown(g)
      <3>1. ASSUME NEW r \in EntryRequests, ~Empty(r)
            PROVE  g.ack[r.term][r.dst] <= Replicated(r)
        <4>1. h.ack[r.term][r.dst] <= Replicated(r) /\ Led(h, r.term)
          BY <1>2, <3>1 DEF CallsInv, GoodRequest, Carries
        <4>2. r.term \in Nat /\ r.dst \in Server
          BY EntryCalls, EntryCall
        <4>3. r.term # t
          BY <1>9, <4>1
        <4>4. QED  BY <1>9, <4>1, <4>2, <4>3
      <3>2. QED  BY <3>1 DEF AcksKnown
    <2>4. LaterRuns(h, g)
      <3>1. ASSUME NEW j \in Server, NEW u \in Nat, Runs(g, j, u)'
            PROVE  Runs(h, j, u) /\ log'[j] = log[j]
        <4>1. state'[j] = "Candidate" /\ currentTerm'[j] = u /\ ~Led(g, u)
          BY <3>1 DEF Runs, Led
        <4>2. j # i
          BY <1>3, <4>1
        <4>3. u # t
          BY <1>9, <4>1, NilAssumption DEF Led
        <4>4. ~Led(h, u)
          BY <1>9, <4>1, <4>3 DEF Led
        <4>5. QED  BY <1>1, <1>3, <4>1, <4>2, <4>4 DEF Runs
      <3>2. QED  BY <3>1 DEF LaterRuns
    <2>5. NewEntryRequests(g)
      <3>1. SUFFICES ASSUME NEW r \in EntryRequests', r \notin EntryRequests
                     PROVE  /\ GoodRequest(g, r)' /\ ByLeader(r)'
                            /\ \A q \in EntryRequests' : Alike(r, q)
        BY DEF NewEntryRequests
      <3>2. r \in S
        BY <1>11, <3>1 DEF EntryRequests
      <3>3. r.src = i /\ Empty(r) /\ Replicated(r) = 0 /\ r.term = 0
        BY <1>12, <3>2 DEF Empty
      <3>4. GoodRequest(g, r)' /\ ByLeader(r)'
        BY <1>3, <3>3 DEF GoodRequest, ByLeader, Empty
      <3>5. ASSUME NEW q \in EntryRequests'
            PROVE  Alike(r, q)
        <4>1. CASE q \in EntryRequests
          BY <1>13, <3>3, <4>1 DEF Alike
        <4>2. CASE q \notin EntryRequests
          <5>1. q \in S
            BY <1>11, <3>5, <4>2 DEF EntryRequests
          <5>2. QED  BY <1>12, <3>3, <5>1 DEF Alike
        <4>3. QED  BY <4>1, <4>2
      <3>6. QED  BY <3>4, <3>5
    <2>6. NewVoteRequests(g)
      BY <1>11, <1>12 DEF NewVoteRequests
    <2>7. NewEntryReplies(g)
      <3>1. CallsIn(replies') \subseteq CallsIn(replies)
        BY TakenCalls
      <3>2. QED  BY <3>1, NoNewReplies
    <2>8. QED
      BY <1>2, <1>8, <2>1, <2>2, <2>3, <2>4, <2>5, <2>6, <2>7, CallsGoOn
  <1>15. Indexes(g)'
    <2>1. /\ matchIndex \in [Server -> [Server -> Nat]]
          /\ nextIndex \in [Server -> [Server -> Nat \ {0}]]
      BY FieldTypes, StructParts DEF IndexTypes
    <2>2. ASSUME NEW j \in Server, state'[j] = "Leader", j # i
          PROVE  IndexesAt(g, j)'
      <3>1. nextIndex'[j] = nextIndex[j] /\ matchIndex'[j] = matchIndex[j]
        BY <1>1, <2>1, <2>2
      <3>2. SameIndexes(j)
        BY <1>1, <1>3, <2>2, <3>1 DEF SameIndexes
      <3>3. QED  BY <1>2, <1>8, <2>2, <3>2, IndexKept
    <2>3. IndexesAt(g, i)'
      <3>1. \A k \in Server : matchIndex'[i][k] = 0 /\ nextIndex'[i][k] = Len(log[i])
        BY <1>1, <2>1
      <3>2. \A k \in Server : 0 <= g.ack[t][k]
        <4>1. g \in Histories
          BY <1>8 DEF Evolves
        <4>2. \A k \in Server : g.ack[t][k] \in Nat
          BY <1>9, <4>1, HistoryType
        <4>3. \A n \in Nat : 0 <= n
          BY SMTT(60)
        <4>4. QED  BY <4>2, <4>3
      <3>3. Len(log[i]) <= Len(log[i])
        <4>1. log[i] \in Seq(Entry)
          BY FieldTypes
        <4>2. QED  BY <4>1, SMTT(60)
      <3>4. log'[i] = log[i] /\ currentTerm'[i] = t
        BY <1>1
      <3>5. QED  BY <1>9, <3>1, <3>2, <3>3, <3>4 DEF IndexesAt
    <2>4. QED  BY <2>2, <2>3 DEF Indexes
  <1>16. Commits(g)'
    <2>1. \A j \in Server : Agree(log'[j], log[j], commitIndex[j])
      BY <1>2, RetainsLog
    <2>2. QED  BY <1>1, <1>2, <1>8, <2>1, CommitsGoOn
  <1>17. Agreement(U, g)'
    BY <1>4, <1>8, <1>14, <1>15, <1>16 DEF Agreement
  <1>18. QED  BY <1>1, <1>2, <1>17, RetainsSame

\* A leader learns how much a follower has, or that it should try with less.
LEMMA ReplyIndexes ==
  ASSUME StructInv, NEW V, NEW h, Agreement(V, h), NEW c \in EntryReplies,
         NEW i \in Server, i = c.req.src, state[i] = "Leader", NEW j \in Server,
         j = c.req.dst, BackOff(c) \/ Matched(c), log' = log, currentTerm' = currentTerm
  PROVE  IndexesAt(h, i)'
  <1>1. PICK t \in Nat : t = currentTerm[i]
    BY FieldTypes
  <1>2. PICK l \in Seq(Entry) : l = log[i]
    BY FieldTypes
  <1>3. PeersInv(V, h) /\ CallsInv(h) /\ Indexes(h) /\ h \in Histories
    BY DEF Agreement, PeersInv
  <1>4. IndexesAt(h, i)
    BY <1>3 DEF Indexes
  <1>5. h.ack[t] \in [Server -> Nat] /\ Len(l) \in Nat /\ Len(l) >= 1
    <2>1. h.ack[t] \in [Server -> Nat]
      BY <1>3, HistoryType
    <2>2. Len(l) >= 1
      BY <1>2, StructParts DEF DummyKept
    <2>3. Len(l) \in Nat
      BY SMTT(60)
    <2>4. QED  BY <2>1, <2>2, <2>3
  <1>6. /\ matchIndex \in [Server -> [Server -> Nat]]
        /\ nextIndex \in [Server -> [Server -> Nat \ {0}]]
    BY FieldTypes, StructParts DEF IndexTypes
  <1>7. /\ matchIndex[i][j] <= h.ack[t][j]
        /\ i # j => nextIndex[i][j] <= Len(l)
    BY <1>1, <1>2, <1>4 DEF IndexesAt
  <1>8. PICK r : r = c.req
    OBVIOUS
  <1>9. c.ok => Replicated(r) \in Nat /\ Replicated(r) <= h.ack[t][j] /\ Replicated(r) + 1 <= Len(l)
    <2>1. HAVE c.ok
    <2>2. GoodReply(h, c) /\ ByLeader(c.req)
      BY <1>3 DEF CallsInv
    <2>3. Replicated(r) \in Nat
      BY <1>8, EntryCalls, EntryCall
    <2>4. CASE Empty(r)
      <3>1. Len(<<>>) + 0 = 0
        BY SMTT(60)
      <3>2. Replicated(r) = 0
        BY <2>4, <3>1 DEF Empty, Replicated
      <3>3. h.ack[t][j] \in Nat
        BY <1>5
      <3>4. QED  BY <1>5, <3>2, <3>3, SMTT(60)
    <2>5. CASE ~Empty(r)
      <3>1. r.term = t
        BY <1>1, <1>8, <2>2, <2>5, NilAssumption DEF ByLeader, Standing
      <3>2. Replicated(r) <= h.ack[r.term][r.dst] /\ Replicated(r) <= LastIndex(h.log[r.term])
        BY <1>8, <2>1, <2>2, <2>5 DEF GoodReply, Carries
      <3>3. h.log[t] = l
        <4>1. log[i] = h.log[currentTerm[i]]
          <5>1. Leads(h, i)
            BY <1>3, LeaderLed
          <5>2. QED  BY <5>1 DEF Leads
        <4>2. QED  BY <1>1, <1>2, <4>1
      <3>4. Replicated(r) <= h.ack[t][j] /\ Replicated(r) <= LastIndex(l)
        BY <1>8, <3>1, <3>2, <3>3
      <3>5. Replicated(r) + 1 <= Len(l)
        BY <1>5, <2>3, <3>4, SMTT(60) DEF LastIndex
      <3>6. QED  BY <2>3, <3>4, <3>5
    <2>6. QED  BY <2>4, <2>5
  <1>10. /\ matchIndex'[i][j] <= h.ack[t][j]
         /\ i # j => nextIndex'[i][j] <= Len(l)
         /\ \A k \in Server : k # j => /\ matchIndex'[i][k] = matchIndex[i][k]
                                       /\ nextIndex'[i][k] = nextIndex[i][k]
    <2>1. CASE BackOff(c)
      <3>1. /\ matchIndex' = matchIndex
            /\ nextIndex' = [nextIndex EXCEPT ![i][j] = Half(nextIndex[i][j])]
        BY <2>1 DEF BackOff
      <3>2. /\ nextIndex'[i][j] = Half(nextIndex[i][j])
            /\ \A k \in Server : k # j => nextIndex'[i][k] = nextIndex[i][k]
        BY <1>6, <3>1
      <3>3. \A n \in Nat : n <= Len(l) => Half(n) <= Len(l)
        BY <1>5, SMTT(60) DEF Half
      <3>4. nextIndex[i][j] \in Nat
        BY <1>6
      <3>5. QED  BY <1>7, <3>1, <3>2, <3>3, <3>4
    <2>2. CASE Matched(c) /\ c.ok
      <3>1. /\ matchIndex' = [matchIndex EXCEPT ![i][j] = Replicated(r)]
            /\ nextIndex' = [nextIndex EXCEPT ![i][j] = Replicated(r) + 1]
        BY <1>8, <2>2 DEF Matched
      <3>2. QED  BY <1>6, <1>9, <2>2, <3>1
    <2>3. CASE Matched(c) /\ ~c.ok
      <3>1. /\ matchIndex' = [matchIndex EXCEPT ![i][j] = matchIndex[i][j]]
            /\ nextIndex' = [nextIndex EXCEPT ![i][j] = nextIndex[i][j]]
        BY <2>3 DEF Matched
      <3>2. QED  BY <1>6, <1>7, <3>1
    <2>4. QED  BY <2>1, <2>2, <2>3
  <1>11. \A k \in Server : matchIndex'[i][k] <= h.ack[t][k]
    <2>1. \A k \in Server : matchIndex[i][k] <= h.ack[t][k]
      BY <1>1, <1>4 DEF IndexesAt
    <2>2. QED  BY <1>10, <2>1
  <1>12. \A k \in Server : i # k => nextIndex'[i][k] <= Len(l)
    <2>1. \A k \in Server : i # k => nextIndex[i][k] <= Len(l)
      BY <1>2, <1>4 DEF IndexesAt
    <2>2. QED  BY <1>10, <2>1
  <1>13. h.ack[t][i] = LastIndex(l)
    BY <1>1, <1>2, <1>4 DEF IndexesAt
  <1>14. log'[i] = l /\ currentTerm'[i] = t
    BY <1>1, <1>2
  <1>15. QED  BY <1>11, <1>12, <1>13, <1>14 DEF IndexesAt

\* What a leader commits a quorum has taken over.
LEMMA CommittableChosen ==
  ASSUME StructInv, NEW V, NEW h, PeersInv(V, h), NEW i \in Server,
         state[i] = "Leader", NEW match,
         \A j \in Server : match[j] \in Nat /\ match[j] <= h.ack[currentTerm[i]][j],
         NEW n \in Committable(i, match)
  PROVE  /\ Chosen(h, currentTerm[i], n) /\ n \in Nat /\ n >= commitIndex[i]
         /\ n <= LastIndex(log[i])
  <1>1. /\ currentTerm[i] \in Nat /\ Led(h, currentTerm[i]) /\ h \in Histories
        /\ log[i] = h.log[currentTerm[i]]
    <2>1. Leads(h, i)
      BY LeaderLed
    <2>2. QED  BY <2>1 DEF Leads, PeersInv
  <1>2. commitIndex[i] \in Nat /\ LastIndex(log[i]) \in Int
    <2>1. log[i] \in Seq(Entry) /\ commitIndex[i] \in Nat
      BY FieldTypes
    <2>2. LastIndex(log[i]) \in Int
      BY <2>1, SMTT(60) DEF LastIndex
    <2>3. QED  BY <2>1, <2>2
  <1>3. PICK Q : Q = {j \in Server : match[j] >= n}
    OBVIOUS
  <1>4. /\ n \in commitIndex[i]..LastIndex(log[i])
        /\ At(log[i], n).term = currentTerm[i] /\ Majority(Cardinality(Q))
    BY <1>3 DEF Committable
  <1>5. n \in Nat /\ n >= commitIndex[i] /\ n <= LastIndex(log[i])
    BY <1>2, <1>4, SMTT(60)
  <1>6. Own(h, currentTerm[i], n)
    BY <1>1, <1>4, <1>5 DEF Own
  <1>7. Q \in Quorums
    BY <1>3, <1>4 DEF Quorums
  <1>8. ASSUME NEW p \in Q
        PROVE  h.ack[currentTerm[i]][p] >= n
    <2>1. p \in Server /\ match[p] >= n
      BY <1>3, <1>8
    <2>2. match[p] \in Nat /\ match[p] <= h.ack[currentTerm[i]][p]
      BY <2>1
    <2>3. h.ack[currentTerm[i]][p] \in Nat
      BY <1>1, <2>1, HistoryType
    <2>4. QED  BY <1>5, <2>1, <2>2, <2>3, SMTT(60)
  <1>9. QED  BY <1>5, <1>6, <1>7, <1>8 DEF Chosen

\* A leader gets a reply from a follower of its term.
LEMMA AgreementMatched ==
  ASSUME StructInv, StructInv', LogTermsOrdered, NEW V, NEW h, Agreement(V, h),
         NEW U, U = Recall(V), NEW c \in EntryReplies, state[c.req.src] = "Leader",
         BackOff(c) \/ Matched(c), replies' = Take(replies, c),
         log' = log, requests' = requests
  PROVE  Agreement(U, h)' /\ \A j \in Server : Retains(j)
  <1>1. PICK i \in Server : i = c.req.src
    BY ReplyType DEF EntryReplies
  <1>2. PICK j \in Server : j = c.req.dst
    BY ReplyType DEF EntryReplies
  <1>3. UNCHANGED electionVars /\ state' = state /\ currentTerm' = currentTerm
    BY DEF BackOff, Matched, electionVars
  <1>4. Calm
    BY <1>3, CalmUnchanged
  <1>5. NewEntryRequests(h) /\ NewEntryReplies(h) /\ NewVoteRequests(h)
    <2>1. CallsIn(replies') \subseteq CallsIn(replies)
      BY TakenCalls
    <2>2. QED  BY <2>1, NoNewCalls, NoNewReplies
  <1>6. Recorded(U)' /\ PeersInv(U, h)' /\ CallsInv(h)' /\ Evolves(h, h)
    BY <1>4, <1>5, CalmCalls
  <1>7. PeersInv(V, h) /\ Indexes(h) /\ Commits(h) /\ h \in Histories
    BY DEF Agreement, PeersInv
  <1>8. IndexesAt(h, i)'
    BY <1>1, <1>2, <1>3, ReplyIndexes
  <1>9. /\ matchIndex \in [Server -> [Server -> Nat]]
        /\ nextIndex \in [Server -> [Server -> Nat \ {0}]]
        /\ matchIndex' \in [Server -> [Server -> Nat]]
    BY FieldTypes, StructParts, StructPartsPrime DEF IndexTypes
  <1>10. Indexes(h)'
    <2>1. ASSUME NEW k \in Server, state'[k] = "Leader", k # i
          PROVE  IndexesAt(h, k)'
      <3>1. nextIndex'[k] = nextIndex[k] /\ matchIndex'[k] = matchIndex[k]
        BY <1>1, <1>9, <2>1 DEF BackOff, Matched
      <3>2. SameIndexes(k)
        BY <1>3, <2>1, <3>1 DEF SameIndexes
      <3>3. QED  BY <1>6, <1>7, <2>1, <3>2, IndexKept
    <2>2. QED  BY <1>8, <2>1 DEF Indexes
  <1>11. CASE UNCHANGED applyVars
    <2>1. commitIndex' = commitIndex /\ delivered' = delivered
      BY <1>11 DEF applyVars
    <2>2. \A k \in Server : Agree(log'[k], log[k], commitIndex[k])
      BY <1>7, RetainsLog
    <2>3. Commits(h)'
      BY <1>6, <1>7, <2>1, <2>2, CommitsGoOn
    <2>4. QED  BY <1>6, <1>7, <1>10, <2>1, <2>3, RetainsSame DEF Agreement
  <1>12. CASE \E n \in Committable(i, matchIndex'[i]) : ApplyUpTo(i, log[i], n)
    <2>1. PICK n \in Committable(i, matchIndex'[i]) : ApplyUpTo(i, log[i], n)
      BY <1>12
    <2>2. \A k \in Server :
            matchIndex'[i][k] \in Nat /\ matchIndex'[i][k] <= h.ack[currentTerm[i]][k]
      <3>1. \A k \in Server : matchIndex'[i][k] <= h.ack[currentTerm'[i]][k]
        BY <1>8 DEF IndexesAt
      <3>2. QED  BY <1>3, <1>9, <3>1
    <2>3. /\ Chosen(h, currentTerm[i], n) /\ n \in Nat /\ n >= commitIndex[i]
          /\ n <= LastIndex(log[i])
      BY <1>1, <1>7, <2>2, CommittableChosen
    <2>4. /\ currentTerm[i] \in Nat /\ log[i] = h.log[currentTerm[i]]
          /\ log[i] \in Seq(Entry)
      <3>1. Leads(h, i)
        BY <1>1, <1>7, LeaderLed
      <3>2. QED  BY <3>1, FieldTypes DEF Leads
    <2>5. n <= n /\ currentTerm[i] <= currentTerm[i] /\ n < Len(log[i])
      <3>1. Len(log[i]) \in Nat
        BY <2>4, SMTT(60)
      <3>2. QED  BY <2>3, <2>4, <3>1, SMTT(60) DEF LastIndex
    <2>6. Agree(log[i], h.log[currentTerm[i]], n)
      BY <2>4, <2>5, AgreeRefl
    <2>7. n <= h.ack[currentTerm[i]][i]
      BY <1>1, <1>7, <2>3 DEF Indexes, IndexesAt
    <2>8. Commits(h)'
      BY <1>3, <1>6, <1>7, <2>1, <2>3, <2>4, <2>5, <2>6, <2>7, CommitsMore
    <2>9. \A k \in Server : commitIndex'[k] >= commitIndex[k]
      <3>1. commitIndex' = [commitIndex EXCEPT ![i] = n] /\ commitIndex \in [Server -> Nat]
        BY <2>1, FieldTypes DEF ApplyUpTo
      <3>2. \A k \in Server : commitIndex[k] >= commitIndex[k]
        BY <3>1, SMTT(60)
      <3>3. QED  BY <2>3, <3>1, <3>2
    <2>10. \A k \in Server : Agree(log'[k], log[k], commitIndex[k])
      BY <1>7, RetainsLog
    <2>11. QED  BY <1>6, <1>10, <2>8, <2>9, <2>10 DEF Agreement, Retains
  <1>13. UNCHANGED applyVars \/ \E n \in Committable(i, matchIndex'[i]) : ApplyUpTo(i, log[i], n)
    BY <1>1 DEF BackOff, Matched, AdvanceCommit
  <1>14. QED  BY <1>11, <1>12, <1>13

\* What its caller does with the reply.
LEMMA AgreementSendAppendEntries ==
  ASSUME StructInv, StructInv', LogTermsOrdered, NEW V, NEW h, Agreement(V, h),
         NEW U, U = Recall(V), NEW c \in CallsIn(replies), sendAppendEntries(c)
  PROVE  Agreement(U, h)' /\ \A i \in Server : Retains(i)
  <1>1. /\ replies' = Take(replies, c) /\ log' = log /\ requests' = requests
        /\ c \in EntryReplies
    BY DEF sendAppendEntries, EntryReplies
  <1>2. c.req.src \in Server /\ c.term \in Nat
    BY ReplyType
  <1>3. CASE UNCHANGED <<electionVars, indexVars, applyVars>>
    <2>1. Calm
      BY <1>3, CalmUnchanged
    <2>2. QED  BY <1>1, <1>3, <2>1, AgreementReply
  <1>4. CASE LeaderStepsDown(c)
    <2>1. Calm
      BY <1>2, <1>4, CalmStepDown DEF LeaderStepsDown
    <2>2. QED  BY <1>1, <1>4, <2>1, AgreementReply DEF LeaderStepsDown
  <1>5. CASE state[c.req.src] = "Leader" /\ (BackOff(c) \/ Matched(c))
    BY <1>1, <1>5, AgreementMatched
  <1>6. QED  BY <1>3, <1>4, <1>5 DEF sendAppendEntries

\* The reply to a call of RequestVote that makes nobody leader.
LEMMA AgreementVoteReply ==
  ASSUME StructInv, StructInv', LogTermsOrdered, NEW V, NEW h, Agreement(V, h),
         NEW U, U = Recall(V), NEW c \in CallsIn(replies), sendRequestVote(c),
         ~(state[c.req.src] = "Candidate" /\ BecomeLeader(c.req.src))
  PROVE  Agreement(U, h)' /\ \A i \in Server : Retains(i)
  <1>1. replies' = Take(replies, c) /\ UNCHANGED <<log, applyVars>>
    BY DEF sendRequestVote
  <1>2. c.req.src \in Server /\ c.term \in Nat
    BY ReplyType
  <1>3. CASE /\ c.term > currentTerm[c.req.src] /\ StepDown(c.req.src, c.term)
             /\ UNCHANGED <<indexVars, requests>>
    <2>1. Calm
      BY <1>2, <1>3, CalmStepDown
    <2>2. QED  BY <1>1, <1>3, <2>1, AgreementReply
  <1>4. CASE UNCHANGED <<electionVars, indexVars, requests>>
    <2>1. Calm
      BY <1>4, CalmUnchanged
    <2>2. QED  BY <1>1, <1>4, <2>1, AgreementReply
  <1>5. QED  BY <1>3, <1>4 DEF sendRequestVote, CountVote

=============================================================================
