------------------------- MODULE RaftFollowerProofs -------------------------
(***************************************************************************)
(* The steps of a peer that answers calls, restarts or loses them, for any *)
(* number of peers, elections, losses and restarts: the history of the     *)
(* leaders still explains the logs, the calls of AppendEntries under way,  *)
(* what leaders know of the other peers, and what is committed.  And what  *)
(* the history says of the logs and of what is applied.                    *)
(***************************************************************************)
EXTENDS RaftLogProofs

\* Leaves are first-order unless they say otherwise.
USE ZenonT(60)

-----------------------------------------------------------------------------
(* Calls from before a step.                                               *)

\* The arguments of AppendEntries.
LEMMA EntryCall ==
  ASSUME NEW r \in Request, r.rpc = "AppendEntries"
  PROVE  /\ r \in AppendEntriesArgs /\ r.src \in Server \cup {Nil} /\ r.dst \in Server
         /\ r.term \in Nat /\ r.prevLogIndex \in Nat /\ r.prevLogTerm \in Nat
         /\ r.entries \in Seq(Entry) /\ Len(r.entries) \in Nat
         /\ r.leaderCommit \in Nat /\ Replicated(r) \in Nat
         /\ r.prevLogIndex <= Replicated(r)
  <1>1. r \in AppendEntriesArgs
    BY DEF Request, RequestVoteArgs
  <1>2. /\ r.src \in Server \cup {Nil} /\ r.dst \in Server
        /\ r.term \in Nat /\ r.prevLogIndex \in Nat /\ r.prevLogTerm \in Nat
        /\ r.entries \in Seq(Entry) /\ r.leaderCommit \in Nat
    BY <1>1 DEF AppendEntriesArgs
  <1>3. Len(r.entries) \in Nat /\ Replicated(r) \in Nat /\ r.prevLogIndex <= Replicated(r)
    BY <1>2, SMTT(60) DEF Replicated
  <1>4. QED  BY <1>1, <1>2, <1>3

\* Those under way are such calls.
LEMMA EntryCalls ==
  ASSUME StructInv
  PROVE  /\ \A r \in EntryRequests : r \in Request /\ r.rpc = "AppendEntries"
         /\ \A c \in EntryReplies : c.req \in Request /\ c.req.rpc = "AppendEntries"
  BY RequestType, ReplyType DEF EntryRequests, EntryReplies

\* What a heartbeat carries stays in the log of its leader.
LEMMA CarriesStays ==
  ASSUME NEW h \in Histories, NEW g \in Histories, Continues(h, g),
         NEW r \in Request, r.rpc = "AppendEntries", Carries(h, r)
  PROVE  Carries(g, r)
  <1> DEFINE t == r.term
             k == r.prevLogIndex
             n == Replicated(r)
             l == h.log[t]
             m == g.log[t]
  <1>1. /\ t \in Nat /\ k \in Nat /\ n \in Nat /\ k <= n /\ Len(r.entries) \in Nat
        /\ Led(h, t) /\ r.dst # h.leader[t] /\ n <= LastIndex(l)
        /\ LastIndex(h.base[t]) <= n /\ r.prevLogTerm = At(l, k).term
        /\ \A x \in 1..Len(r.entries) : r.entries[x] = At(l, k + x)
    BY EntryCall DEF Carries
  <1>2. l \in Seq(Entry) /\ m \in Seq(Entry)
    BY <1>1, HistoryType
  <1>3. n = Len(r.entries) + k
    BY DEF Replicated
  <1>4. /\ Led(g, t) /\ g.leader[t] = h.leader[t] /\ g.base[t] = h.base[t]
        /\ LastIndex(l) <= LastIndex(m)
        /\ \A y \in 0..LastIndex(l) : At(m, y) = At(l, y)
    <2>1. t \in Nat /\ Led(h, t)
      BY <1>1
    <2>2. QED  BY <2>1, ContinuesAgree
  <1> HIDE DEF t, k, n, l, m
  <1>5. LastIndex(l) \in Int /\ LastIndex(m) \in Int
    BY <1>2, SMTT(60) DEF LastIndex
  <1>6. n <= LastIndex(m) /\ k \in 0..LastIndex(l)
    BY <1>1, <1>4, <1>5, SMTT(60)
  <1>7. ASSUME NEW x \in 1..Len(r.entries)
        PROVE  r.entries[x] = At(m, k + x)
    <2>1. k + x \in 0..LastIndex(l)
      BY <1>1, <1>3, <1>5, SMTT(60)
    <2>2. QED  BY <1>1, <1>4, <2>1
  <1>8. r.prevLogTerm = At(m, k).term
    BY <1>1, <1>4, <1>6
  <1>9. QED  BY <1>1, <1>4, <1>6, <1>7, <1>8 DEF Carries, t, k, n, m

\* What is committed in a leader's log stays committed in it.
LEMMA LeaderCommitted ==
  ASSUME NEW h \in Histories, NEW g \in Histories, Continues(h, g), NEW t \in Nat,
         Led(h, t), NEW k \in Nat, Committed(h, h.log[t], k, t)
  PROVE  Committed(g, g.log[t], k, t)
  <1>1. h.log[t] \in Seq(Entry) /\ g.log[t] \in Seq(Entry)
    BY HistoryType
  <1>2. CASE k = 0
    BY <1>2 DEF Committed
  <1>3. CASE k # 0
    <2>1. Committed(g, h.log[t], k, t)
      BY <1>1, CommittedStaysSo
    <2>2. PICK u, n \in Nat :
            u <= t /\ k <= n /\ Chosen(g, u, n) /\ Agree(h.log[t], g.log[u], k)
      BY <1>3, <2>1 DEF Committed
    <2>3. k < Len(h.log[t]) /\ k \in Int /\ k <= k
      BY <2>2, SMTT(60) DEF Agree
    <2>4. Agree(h.log[t], g.log[t], k)
      BY <1>1, <2>3, AgreeRefl, ContinuesAgree
    <2>5. g.log[u] \in Seq(Entry)
      BY <2>2, HistoryType
    <2>6. Agree(g.log[t], g.log[u], k)
      BY <1>1, <2>2, <2>3, <2>4, <2>5, AgreeSym, AgreeVia
    <2>7. QED  BY <2>2, <2>6 DEF Committed
  <1>4. QED  BY <1>2, <1>3

\* A request is as good as before.
LEMMA RequestKept ==
  ASSUME NEW h, NEW g, Evolves(h, g), SameOffice(h), NEW r \in Request,
         r.rpc = "AppendEntries", GoodRequest(h, r),
         Empty(r) \/ g.ack[r.term][r.dst] <= Replicated(r)
  PROVE  GoodRequest(g, r)'
  <1>1. CASE Empty(r)
    BY <1>1 DEF GoodRequest, Empty
  <1>2. CASE ~Empty(r)
    <2>1. /\ h \in Histories /\ g \in Histories /\ Continues(h, g)
          /\ r.term \in Nat /\ r.leaderCommit \in Nat
      BY EntryCall DEF Evolves
    <2>2. /\ Carries(h, r) /\ Led(h, r.term)
          /\ Committed(h, h.log[r.term], r.leaderCommit, r.term)
      BY <1>2 DEF GoodRequest, Carries
    <2>3. Carries(g, r) /\ Committed(g, g.log[r.term], r.leaderCommit, r.term)
      BY <2>1, <2>2, CarriesStays, LeaderCommitted
    <2>4. ASSUME NEW i \in Server, state'[i] = "Leader", r.term = currentTerm'[i]
          PROVE  r.src = i
      BY <1>2, <2>2, <2>4 DEF SameOffice, GoodRequest
    <2>5. QED
      BY <1>2, <2>3, <2>4 DEF GoodRequest, Carries, Committed, Chosen, Own, Led,
         Agree, Quorums, Majority
  <1>3. QED  BY <1>1, <1>2

\* So is a reply.
LEMMA ReplyKept ==
  ASSUME NEW h, NEW g, Evolves(h, g), NEW c, c.req \in Request,
         c.req.rpc = "AppendEntries", GoodReply(h, c)
  PROVE  GoodReply(g, c)
  <1> DEFINE r == c.req
  <1>1. CASE Empty(r)
    BY <1>1 DEF GoodReply
  <1>2. CASE ~Empty(r)
    <2>1. /\ h \in Histories /\ g \in Histories /\ Continues(h, g)
          /\ r.term \in Nat /\ r.dst \in Server /\ Replicated(r) \in Nat
      BY EntryCall DEF Evolves
    <2>2. Carries(h, r) /\ Led(h, r.term)
      BY <1>2 DEF GoodReply, Carries
    <2>3. Carries(g, r)
      BY <2>1, <2>2, CarriesStays
    <2>4. h.ack[r.term][r.dst] <= g.ack[r.term][r.dst]
      BY <2>1, <2>2 DEF Continues
    <2>5. h.ack[r.term][r.dst] \in Nat /\ g.ack[r.term][r.dst] \in Nat
      BY <2>1, HistoryType
    <2>6. c.ok => Replicated(r) <= h.ack[r.term][r.dst]
      BY <1>2 DEF GoodReply
    <2>7. c.ok => Replicated(r) <= g.ack[r.term][r.dst]
      BY <2>1, <2>4, <2>5, <2>6, SMTT(60)
    <2>8. QED  BY <2>3, <2>7 DEF GoodReply
  <1>3. QED  BY <1>1, <1>2

\* The caller is as much a leader as before.
LEMMA ByLeaderKept ==
  ASSUME NEW r, ByLeader(r), Steady(r)
  PROVE  ByLeader(r)'
  BY DEF ByLeader, Steady, Settled, Standing, Empty

\* A vote is asked for as before.
LEMMA AskedKept ==
  ASSUME StructInv, StructInv', NEW h, NEW g, Rising, LaterRuns(h, g),
         NEW r \in CallsIn(requests), r.rpc = "RequestVote", Asked(h, r)
  PROVE  Asked(g, r)'
  <1> DEFINE i == r.candidateId
             t == r.term
  <1>1. i \in Server /\ t \in Nat
    <2>1. r \in RequestVoteArgs
      BY RequestType DEF Request, AppendEntriesArgs
    <2>2. QED  BY <2>1 DEF RequestVoteArgs
  <1>2. currentTerm[i] \in Nat /\ currentTerm'[i] \in Nat
    BY <1>1, FieldTypes, StructPartsPrime DEF ElectionTypes
  <1>3. t <= currentTerm[i] /\ currentTerm'[i] >= currentTerm[i]
    BY <1>1 DEF Asked, Rising
  <1>4. t <= currentTerm'[i] /\ ~(t > currentTerm[i])
    BY <1>1, <1>2, <1>3, SMTT(60)
  <1>5. Runs(g, i, t)' => Runs(h, i, t) /\ log'[i] = log[i]
    BY <1>1, <1>4 DEF LaterRuns
  <1>6. Runs(g, i, t)' => /\ r.lastLogIndex = LastIndex(log'[i])
                          /\ r.lastLogTerm = LastTerm(log'[i])
    BY <1>5 DEF Asked
  <1>7. QED  BY <1>4, <1>6 DEF Asked, LastTerm, LastIndex, At, Runs, Led

\* The calls that are left and the new ones are as they should be.
LEMMA CallsGoOn ==
  ASSUME StructInv, StructInv', NEW h, NEW g, Evolves(h, g), CallsInv(h),
         SameOffice(h), SteadyCalls, AcksKnown(g), LaterRuns(h, g),
         NewEntryRequests(g), NewEntryReplies(g), NewVoteRequests(g)
  PROVE  CallsInv(g)'
  <1>1. ASSUME NEW r \in EntryRequests
        PROVE  GoodRequest(g, r)' /\ ByLeader(r)'
    <2>1. r \in Request /\ r.rpc = "AppendEntries" /\ Steady(r)
      BY EntryCalls DEF SteadyCalls
    <2>2. GoodRequest(h, r) /\ ByLeader(r)
      BY DEF CallsInv
    <2>3. Empty(r) \/ g.ack[r.term][r.dst] <= Replicated(r)
      BY DEF AcksKnown
    <2>4. QED  BY <2>1, <2>2, <2>3, RequestKept, ByLeaderKept
  <1>2. ASSUME NEW c \in EntryReplies
        PROVE  GoodReply(g, c)' /\ ByLeader(c.req)'
    <2>1. c.req \in Request /\ c.req.rpc = "AppendEntries" /\ Steady(c.req)
      BY EntryCalls DEF SteadyCalls
    <2>2. GoodReply(h, c) /\ ByLeader(c.req)
      BY DEF CallsInv
    <2>3. GoodReply(g, c) /\ ByLeader(c.req)'
      BY <2>1, <2>2, ReplyKept, ByLeaderKept
    <2>4. QED  BY <2>3 DEF GoodReply, Empty, Carries, Replicated, LastIndex, Led, At
  <1>3. Rising
    BY DEF Evolves
  <1>4. \A r \in EntryRequests' : GoodRequest(g, r)' /\ ByLeader(r)'
    BY <1>1 DEF NewEntryRequests
  <1>5. \A c \in EntryReplies' : GoodReply(g, c)' /\ ByLeader(c.req)'
    BY <1>2 DEF NewEntryReplies
  <1>6. ASSUME NEW r \in EntryRequests', NEW q \in EntryRequests'
        PROVE  Alike(r, q)
    <2>1. CASE r \in EntryRequests /\ q \in EntryRequests
      BY <2>1 DEF CallsInv
    <2>2. CASE r \notin EntryRequests
      BY <2>2 DEF NewEntryRequests
    <2>3. CASE q \notin EntryRequests
      <3>1. Alike(q, r)
        BY <2>3 DEF NewEntryRequests
      <3>2. QED  BY <3>1 DEF Alike
    <2>4. QED  BY <2>1, <2>2, <2>3
  <1>7. ASSUME NEW r \in CallsIn(requests'), r.rpc = "RequestVote"
        PROVE  Asked(g, r)'
    <2>1. CASE r \in CallsIn(requests)
      <3>1. Asked(h, r)
        BY <1>7, <2>1 DEF CallsInv
      <3>2. QED  BY <1>3, <1>7, <2>1, <3>1, AskedKept
    <2>2. CASE r \notin CallsIn(requests)
      BY <1>7, <2>2 DEF NewVoteRequests
    <2>3. QED  BY <2>1, <2>2
  <1>8. QED  BY <1>4, <1>5, <1>6, <1>7 DEF CallsInv, Alike, Replicated

-----------------------------------------------------------------------------
(* What a leader knows of the others.                                      *)

\* A leader is the leader of its term.
LEMMA LeaderLed ==
  ASSUME StructInv, NEW V, NEW h, PeersInv(V, h), NEW i \in Server, state[i] = "Leader"
  PROVE  Leads(h, i)
  <1>1. Elected(V, h)
    BY DEF PeersInv
  <1>2. h.leader[currentTerm[i]] = i /\ log[i] = h.log[currentTerm[i]]
    BY <1>1 DEF Elected
  <1>3. QED  BY <1>2, FieldTypes, NilAssumption DEF Led, Leads

\* The same of the next state.
LEMMA LeaderLedPrime ==
  ASSUME StructInv', NEW V, NEW h, PeersInv(V, h)', NEW i \in Server, state'[i] = "Leader"
  PROVE  /\ currentTerm'[i] \in Nat /\ Led(h, currentTerm'[i])
         /\ h.leader[currentTerm'[i]] = i /\ log'[i] = h.log[currentTerm'[i]]
  <1>1. Elected(V, h)'
    BY DEF PeersInv
  <1>2. h.leader[currentTerm'[i]] = i /\ log'[i] = h.log[currentTerm'[i]]
    BY <1>1 DEF Elected
  <1>3. QED  BY <1>2, StructPartsPrime, NilAssumption DEF Led, ElectionTypes

\* A leader that stays leader with the same log has all of it.
LEMMA AckOfLeader ==
  ASSUME StructInv, StructInv', NEW h, NEW g, Evolves(h, g), NEW V, PeersInv(V, h),
         NEW U, PeersInv(U, g)', NEW i \in Server, state'[i] = "Leader",
         state[i] = "Leader", currentTerm'[i] = currentTerm[i], log'[i] = log[i],
         IndexesAt(h, i)
  PROVE  g.ack[currentTerm'[i]][i] = LastIndex(log'[i])
  <1> DEFINE t == currentTerm[i]
  <1>1. /\ h \in Histories /\ g \in Histories /\ Continues(h, g) /\ t \in Nat
        /\ log[i] \in Seq(Entry)
    BY FieldTypes DEF Evolves
  <1>2. Led(h, t) /\ Led(g, t) /\ log[i] = g.log[t]
    <2>1. Led(h, t)
      <3>1. Leads(h, i)
        BY LeaderLed
      <3>2. QED  BY <3>1 DEF Leads
    <2>2. Led(g, t) /\ log'[i] = g.log[t]
      BY LeaderLedPrime
    <2>3. QED  BY <2>1, <2>2
  <1>3. g.ack[t][i] <= LastIndex(log[i])
    <2>1. AckAt(g, i)'
      BY DEF PeersInv, Holds
    <2>2. QED  BY <1>1, <1>2, <2>1 DEF AckAt, Led, LastIndex
  <1>4. h.ack[t][i] <= g.ack[t][i] /\ h.ack[t][i] = LastIndex(log[i])
    BY <1>1, <1>2 DEF Continues, IndexesAt
  <1>5. LastIndex(log[i]) \in Int /\ g.ack[t][i] \in Nat
    BY <1>1, HistoryType, SMTT(60) DEF LastIndex
  <1>6. QED  BY <1>3, <1>4, <1>5, SMTT(60)

\* What it knew of the others is still so.
LEMMA IndexKept ==
  ASSUME StructInv, StructInv', NEW h, NEW g, Evolves(h, g), NEW V, PeersInv(V, h),
         Indexes(h), NEW U, PeersInv(U, g)', NEW i \in Server, state'[i] = "Leader",
         SameIndexes(i)
  PROVE  IndexesAt(g, i)'
  <1> DEFINE t == currentTerm[i]
  <1>1. /\ state[i] = "Leader" /\ currentTerm'[i] = t /\ log'[i] = log[i]
        /\ nextIndex'[i] = nextIndex[i] /\ matchIndex'[i] = matchIndex[i]
    BY DEF SameIndexes
  <1>2. IndexesAt(h, i)
    BY <1>1 DEF Indexes
  <1>3. g.ack[currentTerm'[i]][i] = LastIndex(log'[i])
    BY <1>1, <1>2, AckOfLeader
  <1>4. /\ h \in Histories /\ g \in Histories /\ Continues(h, g) /\ t \in Nat
        /\ Led(h, t)
    <2>1. Leads(h, i)
      BY <1>1, LeaderLed
    <2>2. QED  BY <2>1 DEF Leads, Evolves
  <1>5. ASSUME NEW j \in Server
        PROVE  matchIndex[i][j] <= g.ack[t][j]
    <2>1. matchIndex[i][j] <= h.ack[t][j]
      BY <1>2 DEF IndexesAt
    <2>2. h.ack[t][j] <= g.ack[t][j]
      BY <1>4 DEF Continues
    <2>3. matchIndex[i][j] \in Nat /\ h.ack[t][j] \in Nat /\ g.ack[t][j] \in Nat
      BY <1>4, HistoryType, StructParts DEF IndexTypes
    <2>4. QED  BY <2>1, <2>2, <2>3, SMTT(60)
  <1>6. \A j \in Server : i # j => nextIndex[i][j] <= Len(log[i])
    BY <1>2 DEF IndexesAt
  <1>7. g.ack[t][i] = LastIndex(log'[i])
    BY <1>1, <1>3
  <1> HIDE DEF t
  <1>8. QED  BY <1>1, <1>5, <1>6, <1>7 DEF IndexesAt

\* So it is of every leader.
LEMMA IndexesGoOn ==
  ASSUME StructInv, StructInv', NEW h, NEW g, Evolves(h, g), NEW V, PeersInv(V, h),
         Indexes(h), NEW U, PeersInv(U, g)',
         \A i \in Server : state'[i] = "Leader" => SameIndexes(i)
  PROVE  Indexes(g)'
  <1>1. ASSUME NEW i \in Server, state'[i] = "Leader"
        PROVE  IndexesAt(g, i)'
    BY <1>1, IndexKept
  <1>2. QED  BY <1>1 DEF Indexes

-----------------------------------------------------------------------------
(* What is committed.                                                      *)

\* A peer has what it knows to be committed.
LEMMA CommitInLog ==
  ASSUME StructInv, NEW h, NEW i \in Server, CommitAt(h, i)
  PROVE  commitIndex[i] < Len(log[i]) /\ Agree(log[i], log[i], commitIndex[i])
  <1>1. CASE commitIndex[i] = 0
    <2>1. Anchored(log[i])
      BY LogAnchored
    <2>2. commitIndex[i] < Len(log[i])
      BY <1>1, <2>1, SMTT(60) DEF Anchored
    <2>3. QED  BY <2>2, AgreeRefl
  <1>2. CASE commitIndex[i] # 0
    BY <1>2, AgreeRefl DEF CommitAt, Agree
  <1>3. QED  BY <1>1, <1>2

\* What it knew to be committed is, as long as it keeps it.
LEMMA CommitKept ==
  ASSUME StructInv, StructInv', NEW h, NEW g, Evolves(h, g), NEW i \in Server,
         CommitAt(h, i), commitIndex'[i] = commitIndex[i],
         Agree(log'[i], log[i], commitIndex[i])
  PROVE  CommitAt(g, i)'
  <1> DEFINE k == commitIndex[i]
  <1>1. CASE k = 0
    BY <1>1 DEF CommitAt
  <1>2. CASE k # 0
    <2>1. PICK u, n \in Nat : /\ u <= currentTerm[i] /\ k <= n /\ Chosen(h, u, n)
                              /\ Agree(log[i], h.log[u], k)
                              /\ u = currentTerm[i] => k <= h.ack[u][i]
      BY <1>2 DEF CommitAt
    <2>2. /\ h \in Histories /\ g \in Histories /\ Continues(h, g) /\ Led(h, u)
          /\ currentTerm'[i] >= currentTerm[i] /\ currentTerm[i] \in Nat
          /\ currentTerm'[i] \in Nat /\ k \in Nat
          /\ log[i] \in Seq(Entry) /\ log'[i] \in Seq(Entry)
      BY <2>1, FieldTypes, StructPartsPrime
         DEF Evolves, Rising, Chosen, Own, ElectionTypes, LogTypes
    <2>3. Chosen(g, u, n)
      BY <2>1, <2>2, ChosenStays
    <2>4. k \in Int /\ k <= k
      BY <2>2, SMTT(60)
    <2>5. h.log[u] \in Seq(Entry)
      BY <2>1, <2>2, HistoryType
    <2>6. Agree(log'[i], h.log[u], k)
      BY <2>1, <2>2, <2>4, <2>5, AgreeVia
    <2>7. Agree(log'[i], g.log[u], k)
      BY <2>1, <2>2, <2>4, <2>6, ContinuesAgree
    <2>8. h.ack[u][i] <= g.ack[u][i] /\ h.ack[u][i] \in Nat /\ g.ack[u][i] \in Nat
      BY <2>1, <2>2, HistoryType DEF Continues
    <2> HIDE DEF k
    <2>9. u <= currentTerm'[i] /\ (u = currentTerm'[i] => k <= g.ack[u][i])
      BY <2>1, <2>2, <2>8, SMTT(60)
    <2>10. QED
      BY <2>1, <2>3, <2>7, <2>9 DEF CommitAt, k, Chosen, Own, Led, Agree, Quorums, Majority
  <1>3. QED  BY <1>1, <1>2

\* What was applied was chosen and is so.
LEMMA AppliesGoOn ==
  ASSUME StructInv, NEW h, NEW g, Evolves(h, g), Applies(h)
  PROVE  Applies(g)
  <1> SUFFICES ASSUME NEW d \in delivered
               PROVE  \E u, n \in Nat :
                 Chosen(g, u, n) /\ d[1] <= n /\ At(g.log[u], d[1]).command = d[2]
    BY DEF Applies
  <1>1. PICK u, n \in Nat :
          Chosen(h, u, n) /\ d[1] <= n /\ At(h.log[u], d[1]).command = d[2]
    BY DEF Applies
  <1>2. /\ h \in Histories /\ g \in Histories /\ Continues(h, g) /\ Led(h, u)
        /\ n <= LastIndex(h.log[u]) /\ h.log[u] \in Seq(Entry)
    BY <1>1, HistoryType DEF Evolves, Chosen, Own
  <1>3. d[1] \in Nat
    BY StructParts DEF ApplyTypes
  <1>4. d[1] \in 0..LastIndex(h.log[u])
    BY <1>1, <1>2, <1>3, SMTT(60) DEF LastIndex
  <1>5. At(g.log[u], d[1]) = At(h.log[u], d[1])
    BY <1>1, <1>2, <1>4, ContinuesAgree
  <1>6. Chosen(g, u, n)
    BY <1>1, <1>2, ChosenStays
  <1>7. QED  BY <1>1, <1>5, <1>6

\* What a peer applies is chosen.
LEMMA AppliesMore ==
  ASSUME StructInv, NEW h, NEW g, Evolves(h, g), Applies(h), NEW i \in Server,
         NEW l \in Seq(Entry), NEW c \in Nat, ApplyUpTo(i, l, c), Fixed(g, l, c)
  PROVE  Applies(g)'
  <1> DEFINE from == NextToApply(i) - 1
  <1>1. from \in Nat
    BY StructParts, SMTT(60) DEF ApplyTypes, NextToApply
  <1>2. delivered' = delivered \cup
          {<<from + k, At(l, from + k).command>> : k \in 1..(c - from)}
    BY DEF ApplyUpTo
  <1> HIDE DEF from
  <1>3. PICK u, n \in Nat : Chosen(g, u, n) /\ c <= n /\ Agree(l, g.log[u], c)
    BY DEF Fixed
  <1>4. ASSUME NEW k \in 1..(c - from)
        PROVE  from + k <= n /\ At(g.log[u], from + k) = At(l, from + k)
    <2>1. from + k <= n /\ from + k \in 0..c
      BY <1>1, <1>3, SMTT(60)
    <2>2. QED  BY <1>3, <2>1, AgreeAt
  <1>5. ASSUME NEW d \in delivered'
        PROVE  \E v, m \in Nat :
                 Chosen(g, v, m) /\ d[1] <= m /\ At(g.log[v], d[1]).command = d[2]
    <2>1. CASE d \in delivered
      <3>1. Applies(g)
        BY AppliesGoOn
      <3>2. QED  BY <2>1, <3>1 DEF Applies
    <2>2. CASE d \notin delivered
      <3>1. PICK k \in 1..(c - from) : d = <<from + k, At(l, from + k).command>>
        BY <1>2, <2>2
      <3>2. d[1] = from + k /\ d[2] = At(l, from + k).command
        BY <3>1
      <3>3. QED  BY <1>3, <1>4, <3>2
    <2>3. QED  BY <2>1, <2>2
  <1>6. QED  BY <1>5 DEF Applies, Chosen, Own, Led, Quorums, Majority, At, LastIndex

\* Nothing is applied, and no peer gives up what it knows to be committed.
LEMMA CommitsGoOn ==
  ASSUME StructInv, StructInv', NEW h, NEW g, Evolves(h, g), Commits(h),
         delivered' = delivered,
         \A i \in Server : \/ commitIndex'[i] = 0
                           \/ /\ commitIndex'[i] = commitIndex[i]
                              /\ Agree(log'[i], log[i], commitIndex[i])
  PROVE  Commits(g)'
  <1>1. Applies(g)'
    <2>1. Applies(g)
      BY AppliesGoOn DEF Commits
    <2>2. QED  BY <2>1 DEF Applies, Chosen, Own, Led, Quorums, Majority, At, LastIndex
  <1>2. ASSUME NEW i \in Server
        PROVE  CommitAt(g, i)'
    <2>1. CASE commitIndex'[i] = 0
      BY <2>1 DEF CommitAt
    <2>2. CASE /\ commitIndex'[i] = commitIndex[i]
               /\ Agree(log'[i], log[i], commitIndex[i])
      BY <2>2, CommitKept DEF Commits
    <2>3. QED  BY <2>1, <2>2
  <1>3. QED  BY <1>1, <1>2 DEF Commits

\* A peer that has not outrun the leader of a term has what it knows to be
\* committed in common with it, and either took it over from that leader or the
\* leader was elected with it.
LEMMA CommitHeld ==
  ASSUME StructInv, QuorumsMeet, NEW V, NEW h, PeersInv(V, h), NEW p \in Server,
         CommitAt(h, p), NEW t \in Nat, Led(h, t), t >= currentTerm[p]
  PROVE  /\ Agree(log[p], h.log[t], commitIndex[p])
         /\ \/ commitIndex[p] <= LastIndex(h.base[t])
            \/ commitIndex[p] <= h.ack[t][p]
  <1> DEFINE k == commitIndex[p]
  <1>1. /\ h \in Histories /\ LeaderLogs(h) /\ PeerLogs(h) /\ Complete(h)
        /\ k \in Nat /\ log[p] \in Seq(Entry) /\ h.log[t] \in Seq(Entry)
        /\ h.base[t] \in Seq(Entry) /\ h.ack[t][p] \in Nat /\ currentTerm[p] \in Nat
    BY FieldTypes, HistoryType DEF PeersInv
  <1> HIDE DEF k
  <1>2. CASE k = 0
    <2>1. Genuine(h, log[p]) /\ Genuine(h, h.log[t])
      BY <1>1 DEF PeerLogs, LeaderLogs, LeaderLog
    <2>2. k <= h.ack[t][p]
      BY <1>1, <1>2, SMTT(60)
    <2>3. QED  BY <1>1, <1>2, <2>1, <2>2, GenuineDummy DEF k
  <1>3. CASE k # 0
    <2>1. PICK u, n \in Nat : /\ u <= currentTerm[p] /\ k <= n /\ Chosen(h, u, n)
                              /\ Agree(log[p], h.log[u], k)
                              /\ u = currentTerm[p] => k <= h.ack[u][p]
      BY <1>3 DEF CommitAt, k
    <2>2. Own(h, u, n) /\ Led(h, u) /\ h.log[u] \in Seq(Entry)
      BY <1>1, <2>1, HistoryType DEF Chosen, Own
    <2>3. CASE u = t
      <3>1. u = currentTerm[p]
        BY <1>1, <2>1, <2>3, SMTT(60)
      <3>2. QED  BY <2>1, <2>3, <3>1 DEF k
    <2>4. CASE u # t
      <3>1. u < t
        BY <1>1, <2>1, <2>4, SMTT(60)
      <3>2. Agree(h.base[t], h.log[u], n)
        BY <1>1, <2>1, <2>2, <3>1, ChosenOpen DEF Complete
      <3>3. Agree(h.log[t], h.log[u], n) /\ n <= LastIndex(h.base[t])
        BY <1>1, <2>1, <2>2, <3>2, BaseLog
      <3>4. k \in Int /\ n \in Int /\ k <= LastIndex(h.base[t])
        BY <1>1, <2>1, <3>3, SMTT(60) DEF LastIndex
      <3>5. Agree(h.log[u], h.log[t], n)
        BY <3>3, AgreeSym
      <3>6. Agree(log[p], h.log[t], k)
        BY <1>1, <2>1, <2>2, <3>4, <3>5, AgreeVia
      <3>7. QED  BY <3>4, <3>6 DEF k
    <2>5. QED  BY <2>3, <2>4
  <1>4. QED  BY <1>2, <1>3

-----------------------------------------------------------------------------
(* Steps in which no log changes, and nobody votes, stands or is elected.  *)

\* Callers that go on as before.
LEMMA SettledSteady ==
  ASSUME StructInv, \A i \in Server : Settled(i)
  PROVE  SteadyCalls
  <1>1. \A r \in EntryRequests : r.src \in Server \cup {Nil}
    BY EntryCalls, EntryCall
  <1>2. \A c \in EntryReplies : c.req.src \in Server \cup {Nil}
    BY EntryCalls, EntryCall
  <1>3. QED  BY <1>1, <1>2 DEF SteadyCalls, Steady

\* What was under way stays as it should be.
LEMMA CalmCalls ==
  ASSUME StructInv, StructInv', LogTermsOrdered, NEW V, NEW h, Agreement(V, h), Calm,
         log' = log, NEW U, U = Recall(V),
         NewEntryRequests(h), NewEntryReplies(h), NewVoteRequests(h)
  PROVE  Recorded(U)' /\ PeersInv(U, h)' /\ CallsInv(h)' /\ Evolves(h, h)
  <1>1. Recorded(V) /\ PeersInv(V, h) /\ CallsInv(h) /\ h \in Histories /\ LeaderLogs(h)
    BY DEF Agreement, PeersInv
  <1>2. PeersInv(U, h)'
    BY <1>1, PeersCalm
  <1>3. \A p \in Server : Promise(p)
    BY <1>1, CalmVotes
  <1>4. Recorded(U)' /\ Rising
    BY <1>1, <1>3, VotesRecalled
  <1>5. Evolves(h, h)
    BY <1>1, <1>4, EvolvesSelf
  <1>6. \A i \in Server : Settled(i)
    BY DEF Calm
  <1>7. SameOffice(h)
    BY <1>6 DEF SameOffice, Settled
  <1>8. SteadyCalls
    BY <1>6, SettledSteady
  <1>9. AcksKnown(h)
    BY <1>1 DEF AcksKnown, CallsInv, GoodRequest
  <1>10. LaterRuns(h, h)
    BY <1>6, SettledRuns DEF LaterRuns
  <1>11. CallsInv(h)'
    BY <1>1, <1>5, <1>7, <1>8, <1>9, <1>10, CallsGoOn
  <1>12. QED  BY <1>2, <1>4, <1>5, <1>11

\* No peer gives up what it has.
LEMMA RetainsLog ==
  ASSUME StructInv, NEW h, Commits(h), log' = log, NEW i \in Server
  PROVE  Agree(log'[i], log[i], commitIndex[i])
  BY CommitInLog DEF Commits

\* Nothing is committed, and no leader learns anything.
LEMMA CalmGoesOn ==
  ASSUME StructInv, StructInv', LogTermsOrdered, NEW V, NEW h, Agreement(V, h), Calm,
         log' = log, NEW U, U = Recall(V),
         NewEntryRequests(h), NewEntryReplies(h), NewVoteRequests(h), NoCommits,
         \A i \in Server : state'[i] = "Leader" => SameIndexes(i)
  PROVE  Agreement(U, h)'
  <1>1. Recorded(U)' /\ PeersInv(U, h)' /\ CallsInv(h)' /\ Evolves(h, h)
    BY CalmCalls
  <1>2. PeersInv(V, h) /\ Indexes(h) /\ Commits(h)
    BY DEF Agreement
  <1>3. Indexes(h)'
    BY <1>1, <1>2, IndexesGoOn
  <1>4. \A i \in Server : Agree(log'[i], log[i], commitIndex[i])
    BY <1>2, RetainsLog
  <1>5. Commits(h)'
    BY <1>1, <1>2, <1>4, CommitsGoOn DEF NoCommits
  <1>6. QED  BY <1>1, <1>3, <1>5 DEF Agreement

\* Fewer calls are no new ones.
LEMMA NoNewCalls ==
  ASSUME NEW h, CallsIn(requests') \subseteq CallsIn(requests)
  PROVE  NewEntryRequests(h) /\ NewVoteRequests(h)
  BY DEF NewEntryRequests, NewVoteRequests, EntryRequests

\* Fewer replies are no new ones.
LEMMA NoNewReplies ==
  ASSUME NEW h, CallsIn(replies') \subseteq CallsIn(replies)
  PROVE  NewEntryReplies(h)
  BY DEF NewEntryReplies, EntryReplies

\* Nobody's state, term or vote changes.
LEMMA CalmUnchanged ==
  ASSUME StructInv, UNCHANGED electionVars
  PROVE  Calm
  BY DEF Calm, Settled, electionVars

\* A peer steps down.
LEMMA CalmStepDown ==
  ASSUME StructInv, NEW i \in Server, NEW t \in Nat, t > currentTerm[i], StepDown(i, t)
  PROVE  Calm
  <1>1. /\ state' = [state EXCEPT ![i] = "Follower"]
        /\ currentTerm' = [currentTerm EXCEPT ![i] = t]
        /\ votedFor' = [votedFor EXCEPT ![i] = Nil]
    BY DEF StepDown
  <1>2. ElectionTypes
    BY StructParts
  <1>3. state'[i] = "Follower" /\ currentTerm'[i] = t /\ votedFor'[i] = Nil
    BY <1>1, <1>2 DEF ElectionTypes
  <1>4. \A j \in Server : j # i => /\ state'[j] = state[j] /\ votedFor'[j] = votedFor[j]
                                   /\ currentTerm'[j] = currentTerm[j]
    BY <1>1, <1>2 DEF ElectionTypes
  <1>5. QED  BY <1>3, <1>4 DEF Calm, Settled

\* Nor does it forget that it is committed.
LEMMA RetainsSame ==
  ASSUME StructInv, NEW h, Commits(h), log' = log, commitIndex' = commitIndex,
         NEW i \in Server
  PROVE  Retains(i)
  <1>1. commitIndex[i] \in Nat
    BY FieldTypes
  <1>2. commitIndex[i] >= commitIndex[i]
    BY <1>1, SMTT(60)
  <1>3. QED  BY <1>2, RetainsLog DEF Retains

-----------------------------------------------------------------------------
(* Calls that are answered or lost.                                        *)

\* What a handler of AppendEntries answers.
LEMMA AnsweredEntries ==
  ASSUME NEW g, NEW r \in EntryRequests, NEW t, NEW ok, Answer(r, t, ok), ByLeader(r)',
         Empty(r) \/ (Carries(g, r) /\ (ok => Replicated(r) <= g.ack[r.term][r.dst]))
  PROVE  NewEntryRequests(g) /\ NewEntryReplies(g) /\ NewVoteRequests(g)
  <1>1. PICK c : c = [req |-> r, term |-> t, ok |-> ok]
    OBVIOUS
  <1>2. c.req = r /\ c.ok = ok
    BY <1>1
  <1>3. /\ requests' = Take(requests, r)
        /\ replies' = replies \/ replies' = Send(replies, {c})
    BY <1>1 DEF Answer
  <1>4. CallsIn(requests') \subseteq CallsIn(requests)
    BY <1>3, TakenCalls
  <1>5. \A d \in CallsIn(replies') : d \in CallsIn(replies) \/ d = c
    <2>1. CASE replies' = replies
      BY <2>1
    <2>2. CASE replies' = Send(replies, {c})
      <3>1. CallsIn(replies') = CallsIn(replies) \cup {c}
        BY <2>2, SentCalls
      <3>2. QED  BY <3>1
    <2>3. QED  BY <1>3, <2>1, <2>2
  <1>6. GoodReply(g, c)
    BY <1>2 DEF GoodReply
  <1>7. GoodReply(g, c)'
    BY <1>6 DEF GoodReply, Empty, Carries, Replicated, LastIndex, Led, At
  <1>8. NewEntryReplies(g)
    BY <1>2, <1>5, <1>7 DEF NewEntryReplies, EntryReplies
  <1>9. QED  BY <1>4, <1>8, NoNewCalls

\* What a handler of RequestVote answers.
LEMMA AnsweredVote ==
  ASSUME NEW g, NEW r \in CallsIn(requests), r.rpc = "RequestVote", NEW t, NEW ok,
         Answer(r, t, ok)
  PROVE  NewEntryRequests(g) /\ NewEntryReplies(g) /\ NewVoteRequests(g)
  <1>1. PICK c : c = [req |-> r, term |-> t, ok |-> ok]
    OBVIOUS
  <1>2. c.req.rpc # "AppendEntries"
    BY <1>1
  <1>3. /\ requests' = Take(requests, r)
        /\ replies' = replies \/ replies' = Send(replies, {c})
    BY <1>1 DEF Answer
  <1>4. CallsIn(requests') \subseteq CallsIn(requests)
    BY <1>3, TakenCalls
  <1>5. \A d \in CallsIn(replies') : d \in CallsIn(replies) \/ d = c
    <2>1. CASE replies' = replies
      BY <2>1
    <2>2. CASE replies' = Send(replies, {c})
      <3>1. CallsIn(replies') = CallsIn(replies) \cup {c}
        BY <2>2, SentCalls
      <3>2. QED  BY <3>1
    <2>3. QED  BY <1>3, <2>1, <2>2
  <1>6. NewEntryReplies(g)
    BY <1>2, <1>5 DEF NewEntryReplies, EntryReplies
  <1>7. QED  BY <1>4, <1>6, NoNewCalls

\* Nothing that matters changes: persist(), and steps of others.
LEMMA AgreementSame ==
  ASSUME StructInv, StructInv', LogTermsOrdered, NEW V, NEW h, Agreement(V, h),
         NEW U, U = Recall(V),
         UNCHANGED <<electionVars, log, indexVars, applyVars, callVars>>
  PROVE  Agreement(U, h)' /\ \A i \in Server : Retains(i)
  <1>1. /\ UNCHANGED electionVars /\ log' = log /\ nextIndex' = nextIndex
        /\ matchIndex' = matchIndex /\ commitIndex' = commitIndex
        /\ delivered' = delivered /\ requests' = requests /\ replies' = replies
    BY DEF indexVars, applyVars, callVars
  <1>2. Calm
    BY <1>1, CalmUnchanged
  <1>3. NewEntryRequests(h) /\ NewVoteRequests(h) /\ NewEntryReplies(h)
    BY <1>1, NoNewCalls, NoNewReplies
  <1>4. NoCommits /\ \A i \in Server : state'[i] = "Leader" => SameIndexes(i)
    BY <1>1 DEF NoCommits, SameIndexes, electionVars
  <1>5. Agreement(U, h)'
    BY <1>1, <1>2, <1>3, <1>4, CalmGoesOn
  <1>6. Commits(h)
    BY DEF Agreement
  <1>7. QED  BY <1>1, <1>5, <1>6, RetainsSame

\* Calls are lost.
LEMMA AgreementLoseCalls ==
  ASSUME StructInv, StructInv', LogTermsOrdered, NEW V, NEW h, Agreement(V, h),
         NEW U, U = Recall(V), NEW i \in Server, LoseCalls(i)
  PROVE  Agreement(U, h)' /\ \A j \in Server : Retains(j)
  <1>1. /\ UNCHANGED electionVars /\ log' = log /\ nextIndex' = nextIndex
        /\ matchIndex' = matchIndex /\ commitIndex' = commitIndex
        /\ delivered' = delivered
        /\ requests' = Keep(requests, {r \in CallsIn(requests) : r.src # i})
        /\ replies' = Keep(replies, {c \in CallsIn(replies) : c.req.src # i})
    BY DEF LoseCalls, indexVars, applyVars
  <1>2. Calm
    BY <1>1, CalmUnchanged
  <1>3. /\ CallsIn(requests') \subseteq CallsIn(requests)
        /\ CallsIn(replies') \subseteq CallsIn(replies)
    BY <1>1, KeptCalls
  <1>4. NewEntryRequests(h) /\ NewVoteRequests(h) /\ NewEntryReplies(h)
    BY <1>3, NoNewCalls, NoNewReplies
  <1>5. NoCommits /\ \A j \in Server : state'[j] = "Leader" => SameIndexes(j)
    BY <1>1 DEF NoCommits, SameIndexes, electionVars
  <1>6. Agreement(U, h)'
    BY <1>1, <1>2, <1>4, <1>5, CalmGoesOn
  <1>7. Commits(h)
    BY DEF Agreement
  <1>8. QED  BY <1>1, <1>6, <1>7, RetainsSame

\* A peer votes, or refuses to.
LEMMA AgreementRequestVote ==
  ASSUME StructInv, StructInv', LogTermsOrdered, NEW V, NEW h, Agreement(V, h),
         NEW U, U = Recall(V), \A p \in Server : Promise(p),
         NEW r \in CallsIn(requests), RequestVote(r)
  PROVE  Agreement(U, h)' /\ \A i \in Server : Retains(i)
  <1>1. /\ r.rpc = "RequestVote" /\ log' = log /\ nextIndex' = nextIndex
        /\ matchIndex' = matchIndex /\ commitIndex' = commitIndex
        /\ delivered' = delivered
    BY DEF RequestVote, indexVars, applyVars
  <1>2. /\ Recorded(V) /\ PeersInv(V, h) /\ CallsInv(h) /\ Indexes(h) /\ Commits(h)
        /\ h \in Histories /\ LeaderLogs(h)
    BY DEF Agreement, PeersInv
  <1>3. NewEntryRequests(h) /\ NewVoteRequests(h) /\ NewEntryReplies(h)
    <2>1. \E t, ok : Answer(r, t, ok)
      BY DEF RequestVote, RejectVote, DecideVote
    <2>2. QED  BY <1>1, <2>1, AnsweredVote
  <1>4. \A i \in Server : Settled(i)
    <2>1. CASE RejectVote(r)
      BY <2>1 DEF RejectVote, Settled, electionVars
    <2>2. CASE DecideVote(r)
      <3>1. Asked(h, r)
        BY <1>1, <1>2 DEF CallsInv
      <3>2. QED  BY <1>1, <1>2, <2>2, <3>1, PeersVote
    <2>3. QED  BY <2>1, <2>2 DEF RequestVote
  <1>5. PeersInv(U, h)'
    <2>1. CASE RejectVote(r)
      <3>1. Calm
        BY <2>1, CalmUnchanged DEF RejectVote
      <3>2. QED  BY <1>1, <1>2, <3>1, PeersCalm
    <2>2. CASE DecideVote(r)
      <3>1. Asked(h, r)
        BY <1>1, <1>2 DEF CallsInv
      <3>2. QED  BY <1>1, <1>2, <2>2, <3>1, PeersVote
    <2>3. QED  BY <2>1, <2>2 DEF RequestVote
  <1>6. Recorded(U)' /\ Rising
    BY <1>2, VotesRecalled
  <1>7. Evolves(h, h)
    BY <1>2, <1>6, EvolvesSelf
  <1>8. CallsInv(h)'
    <2>1. SameOffice(h)
      BY <1>4 DEF SameOffice, Settled
    <2>2. SteadyCalls
      BY <1>4, SettledSteady
    <2>3. AcksKnown(h)
      BY <1>2 DEF AcksKnown, CallsInv, GoodRequest
    <2>4. LaterRuns(h, h)
      BY <1>1, <1>4, SettledRuns DEF LaterRuns
    <2>5. QED  BY <1>2, <1>3, <1>7, <2>1, <2>2, <2>3, <2>4, CallsGoOn
  <1>9. Indexes(h)'
    <2>1. \A i \in Server : state'[i] = "Leader" => SameIndexes(i)
      BY <1>1, <1>4 DEF SameIndexes, Settled
    <2>2. QED  BY <1>2, <1>5, <1>7, <2>1, IndexesGoOn
  <1>10. Commits(h)'
    <2>1. \A i \in Server : Agree(log'[i], log[i], commitIndex[i])
      BY <1>1, <1>2, RetainsLog
    <2>2. QED  BY <1>1, <1>2, <1>7, <2>1, CommitsGoOn
  <1>11. QED  BY <1>1, <1>2, <1>5, <1>6, <1>8, <1>9, <1>10, RetainsSame DEF Agreement

\* Who goes on as leader goes on with the same log and indexes.
LEMMA CalmIndexes ==
  ASSUME Calm, log' = log, UNCHANGED indexVars, NEW i \in Server, state'[i] = "Leader"
  PROVE  SameIndexes(i)
  BY DEF Calm, Settled, SameIndexes, indexVars

\* A handler of AppendEntries that leaves the log alone.
LEMMA AgreementRefuses ==
  ASSUME StructInv, StructInv', LogTermsOrdered, NEW V, NEW h, Agreement(V, h),
         NEW U, U = Recall(V), NEW r \in EntryRequests, Calm, log' = log,
         UNCHANGED <<indexVars, applyVars>>, NEW t, NEW ok, Answer(r, t, ok),
         ok => Empty(r)
  PROVE  Agreement(U, h)' /\ \A i \in Server : Retains(i)
  <1>1. /\ commitIndex' = commitIndex /\ delivered' = delivered /\ UNCHANGED indexVars
    BY DEF applyVars
  <1>2. GoodRequest(h, r) /\ ByLeader(r) /\ Commits(h)
    BY DEF Agreement, CallsInv
  <1>3. ByLeader(r)'
    <2>1. SteadyCalls
      BY SettledSteady DEF Calm
    <2>2. QED  BY <1>2, <2>1, ByLeaderKept DEF SteadyCalls
  <1>4. NewEntryRequests(h) /\ NewEntryReplies(h) /\ NewVoteRequests(h)
    <2>1. Empty(r) \/ (Carries(h, r) /\ ~ok)
      BY <1>2 DEF GoodRequest
    <2>2. QED  BY <1>3, <2>1, AnsweredEntries
  <1>5. NoCommits
    BY <1>1 DEF NoCommits
  <1>6. Agreement(U, h)'
    BY <1>1, <1>4, <1>5, CalmIndexes, CalmGoesOn
  <1>7. QED  BY <1>1, <1>2, <1>6, RetainsSame

\* A caller whose reply changes no index.
LEMMA AgreementReply ==
  ASSUME StructInv, StructInv', LogTermsOrdered, NEW V, NEW h, Agreement(V, h),
         NEW U, U = Recall(V), NEW c, replies' = Take(replies, c), Calm,
         UNCHANGED <<log, indexVars, applyVars, requests>>
  PROVE  Agreement(U, h)' /\ \A i \in Server : Retains(i)
  <1>1. /\ log' = log /\ commitIndex' = commitIndex /\ delivered' = delivered
        /\ UNCHANGED indexVars /\ requests' = requests
    BY DEF applyVars
  <1>2. NewEntryRequests(h) /\ NewEntryReplies(h) /\ NewVoteRequests(h)
    <2>1. CallsIn(replies') \subseteq CallsIn(replies)
      BY TakenCalls
    <2>2. CallsIn(requests') \subseteq CallsIn(requests)
      BY <1>1
    <2>3. QED  BY <2>1, <2>2, NoNewCalls, NoNewReplies
  <1>3. NoCommits
    BY <1>1 DEF NoCommits
  <1>4. Agreement(U, h)'
    BY <1>1, <1>2, <1>3, CalmIndexes, CalmGoesOn
  <1>5. Commits(h)
    BY DEF Agreement
  <1>6. QED  BY <1>1, <1>4, <1>5, RetainsSame

\* A peer in term 0 has nothing in its log.
LEMMA BlankLog ==
  ASSUME StructInv, LogTermsOrdered, NEW V, NEW h, PeersInv(V, h), NEW p \in Server,
         currentTerm[p] = 0
  PROVE  Len(log[p]) = 1
  <1>1. /\ Genuine(h, log[p]) /\ \A t \in Nat : Led(h, t) => t >= 1
    BY DEF PeersInv, PeerLogs, Elected
  <1>2. log[p] \in Seq(Entry)
    BY FieldTypes
  <1>3. Len(log[p]) \in Nat /\ Len(log[p]) >= 1
    BY <1>1, <1>2, SMTT(60) DEF Genuine
  <1>4. ASSUME Len(log[p]) # 1
        PROVE  FALSE
    <2>1. 1 \in 1..LastIndex(log[p]) /\ 1 \in 0..LastIndex(log[p])
      <3>1. \A n \in Nat : n >= 1 /\ n # 1 => 1 \in 1..(n - 1) /\ 1 \in 0..(n - 1)
        BY SMTT(60)
      <3>2. QED  BY <1>3, <1>4, <3>1 DEF LastIndex
    <2>2. Led(h, At(log[p], 1).term)
      BY <1>1, <2>1 DEF Genuine
    <2>3. At(log[p], 1).term \in Nat
      BY <1>2, <2>1, EntryTerm
    <2>4. At(log[p], 1).term <= 0
      BY <2>1 DEF LogTermsOrdered
    <2>5. At(log[p], 1).term >= 1
      BY <1>1, <2>2, <2>3
    <2>6. QED  BY <2>3, <2>4, <2>5, SMTT(60)
  <1>5. QED  BY <1>4

\* What BecomeLeader sends changes nothing.
LEMMA EmptyEntries ==
  ASSUME StructInv, StructInv', LogTermsOrdered, NEW V, NEW h, PeersInv(V, h),
         NEW r \in EntryRequests, Empty(r), ConflictEntries(r) \/ AcceptEntries(r)
  PROVE  AcceptEntries(r) /\ log' = log /\ UNCHANGED applyVars
  <1>1. /\ r.dst \in Server /\ r.term = 0 /\ r.prevLogIndex = 0 /\ r.prevLogTerm = 0
        /\ r.entries = <<>> /\ r.leaderCommit = 0
    BY EntryCalls, EntryCall DEF Empty
  <1>2. PICK p \in Server : p = r.dst
    BY <1>1
  <1>3. At(log[p], 0).term = 0
    BY StructParts DEF DummyKept
  <1>4. AcceptEntries(r)
    BY <1>1, <1>2, <1>3 DEF ConflictEntries, Fits
  <1>5. currentTerm[p] = 0
    <2>1. 0 >= currentTerm[p]
      BY <1>1, <1>2, <1>4 DEF AcceptEntries, Current
    <2>2. currentTerm[p] \in Nat
      BY FieldTypes
    <2>3. QED  BY <2>1, <2>2, SMTT(60)
  <1>6. Len(log[p]) = 1 /\ log[p] \in Seq(Entry) /\ log \in [Server -> Seq(Entry)]
    BY <1>5, BlankLog, FieldTypes
  <1>7. Upto(log[p], 0 + 1) \o <<>> = log[p]
    BY <1>6, SMTT(60) DEF Upto
  <1>8. log' = [log EXCEPT ![p] = Upto(log[p], 0 + 1) \o <<>>]
    BY <1>1, <1>2, <1>4 DEF AcceptEntries, NewLog
  <1>9. log' = log
    BY <1>6, <1>7, <1>8
  <1>10. ~(0 > commitIndex[p])
    <2>1. commitIndex[p] \in Nat
      BY FieldTypes
    <2>2. QED  BY <2>1, SMTT(60)
  <1>11. UNCHANGED applyVars
    BY <1>1, <1>2, <1>4, <1>10 DEF AcceptEntries
  <1>12. QED  BY <1>4, <1>9, <1>11

-----------------------------------------------------------------------------
(* A restart.                                                              *)

\* A call that nobody waits for any more is the same otherwise.
LEMMA OrphanedFields ==
  ASSUME NEW r \in Request, NEW i, NEW q, q = Orphaned(r, i)
  PROVE  OrphanOf(q, r, i)
  <1>1. CASE r \in RequestVoteArgs
    <2>1. r.rpc = "RequestVote"
      BY <1>1 DEF RequestVoteArgs
    <2>2. CASE r.src # i
      BY <2>1, <2>2 DEF Orphaned, OrphanOf, SameVote, SameEntries
    <2>3. CASE r.src = i
      BY <1>1, <2>1, <2>3, SMTT(60)
      DEF Orphaned, OrphanOf, SameVote, SameEntries, RequestVoteArgs
    <2>4. QED  BY <2>2, <2>3
  <1>2. CASE r \in AppendEntriesArgs
    <2>1. r.rpc = "AppendEntries"
      BY <1>2 DEF AppendEntriesArgs
    <2>2. CASE r.src # i
      BY <2>1, <2>2 DEF Orphaned, OrphanOf, SameVote, SameEntries
    <2>3. CASE r.src = i
      BY <1>2, <2>1, <2>3, SMTT(60)
      DEF Orphaned, OrphanOf, SameVote, SameEntries, AppendEntriesArgs
    <2>4. QED  BY <2>2, <2>3
  <1>3. QED  BY <1>1, <1>2 DEF Request

\* An orphaned heartbeat is as good as it was.
LEMMA OrphanedRequest ==
  ASSUME NEW h, NEW r, NEW q, SameEntries(q, r), NEW i, r.src = i, q.src = Nil,
         GoodRequest(h, r), state'[i] = "Follower",
         \A j \in Server : state'[j] = "Leader" =>
           state[j] = "Leader" /\ currentTerm'[j] = currentTerm[j]
  PROVE  GoodRequest(h, q)' /\ ByLeader(q)'
  <1>1. ByLeader(q)'
    BY DEF ByLeader
  <1>2. CASE Empty(r)
    <2>1. Empty(q)
      BY <1>2 DEF Empty, SameEntries
    <2>2. QED  BY <1>1, <2>1 DEF GoodRequest
  <1>3. CASE ~Empty(r)
    <2>1. Carries(h, r) /\ h.ack[r.term][r.dst] <= Replicated(r)
      BY <1>3 DEF GoodRequest
    <2>2. Committed(h, h.log[r.term], r.leaderCommit, r.term)
      BY <1>3 DEF GoodRequest
    <2>3. ASSUME NEW j \in Server, state'[j] = "Leader", q.term = currentTerm'[j]
          PROVE  FALSE
      <3>1. state[j] = "Leader" /\ r.term = currentTerm[j]
        BY <2>3 DEF SameEntries
      <3>2. r.src = j
        BY <1>3, <3>1 DEF GoodRequest
      <3>3. QED  BY <2>3, <3>2
    <2>4. Carries(h, q)
      BY <2>1 DEF Carries, SameEntries, Replicated
    <2>5. h.ack[q.term][q.dst] <= Replicated(q)
      BY <2>1 DEF SameEntries, Replicated
    <2>6. Committed(h, h.log[q.term], q.leaderCommit, q.term)
      BY <2>2 DEF SameEntries
    <2>7. Carries(h, q)'
      BY <2>4 DEF Carries, Replicated, LastIndex, Led, At
    <2>8. (h.ack[q.term][q.dst] <= Replicated(q))'
      BY <2>5 DEF Replicated
    <2>9. Committed(h, h.log[q.term], q.leaderCommit, q.term)'
      BY <2>6 DEF Committed, Chosen, Own, Led, Agree, Quorums, Majority, LastIndex, At
    <2>10. QED  BY <1>1, <2>3, <2>7, <2>8, <2>9 DEF GoodRequest
  <1>4. QED  BY <1>2, <1>3

\* A peer is restarted from an up-to-date persister.
LEMMA AgreementRestart ==
  ASSUME StructInv, StructInv', LogTermsOrdered, ~LossyCrash, NEW V, NEW h,
         Agreement(V, h), NEW U, U = Recall(V), NEW i \in Server, Restart(i)
  PROVE  Agreement(U, h)'
  <1>1. /\ currentTerm' = currentTerm /\ votedFor' = votedFor /\ log' = log
        /\ state' = [state EXCEPT ![i] = "Follower"]
        /\ commitIndex' = [commitIndex EXCEPT ![i] = 0]
        /\ nextIndex' = [nextIndex EXCEPT ![i] = NilNext]
        /\ matchIndex' = [matchIndex EXCEPT ![i] = NilMatch]
        /\ delivered' = delivered
        /\ requests' = OrphanRequests(
             Keep(requests, {r \in CallsIn(requests) : r.dst # i}), i)
        /\ replies' = Keep(replies, {c \in CallsIn(replies) : c.req.src # i})
    <2>1. /\ Recovered(i).currentTerm = currentTerm[i]
          /\ Recovered(i).votedFor = votedFor[i] /\ Recovered(i).log = log[i]
      BY DEF Recovered, Durable
    <2>2. /\ currentTerm' = [currentTerm EXCEPT ![i] = currentTerm[i]]
          /\ votedFor' = [votedFor EXCEPT ![i] = votedFor[i]]
          /\ log' = [log EXCEPT ![i] = log[i]]
      BY <2>1 DEF Restart
    <2>3. currentTerm' = currentTerm /\ votedFor' = votedFor /\ log' = log
      BY <2>2, FieldTypes
    <2>4. QED  BY <2>3 DEF Restart
  <1>2. /\ state \in [Server -> {"Follower", "Candidate", "Leader"}]
        /\ commitIndex \in [Server -> Nat]
        /\ nextIndex \in [Server -> [Server -> Nat \ {0}]]
        /\ matchIndex \in [Server -> [Server -> Nat]]
    BY FieldTypes, StructParts DEF ElectionTypes, IndexTypes
  <1>3. state'[i] = "Follower" /\ \A j \in Server : j # i => state'[j] = state[j]
    BY <1>1, <1>2
  <1>4. Calm
    BY <1>1, <1>3 DEF Calm, Settled
  <1>5. NoCommits
    <2>1. \A j \in Server : commitIndex'[j] = 0 \/ commitIndex'[j] = commitIndex[j]
      BY <1>1, <1>2
    <2>2. QED  BY <1>1, <2>1 DEF NoCommits
  <1>6. \A j \in Server : state'[j] = "Leader" => SameIndexes(j)
    BY <1>1, <1>2, <1>3 DEF SameIndexes
  <1>7. ASSUME NEW q \in CallsIn(requests')
        PROVE  \E r \in CallsIn(requests) : OrphanOf(q, r, i)
    <2>1. CallsIn(requests') =
            {Orphaned(r, i) : r \in CallsIn(Keep(requests, {r \in CallsIn(requests) : r.dst # i}))}
      BY <1>1, OrphanedCalls
    <2>2. PICK r \in CallsIn(Keep(requests, {r \in CallsIn(requests) : r.dst # i})) :
            q = Orphaned(r, i)
      BY <1>7, <2>1
    <2>3. r \in CallsIn(requests)
      BY KeptCalls
    <2>4. r \in Request
      BY <2>3, RequestType
    <2>5. OrphanOf(q, r, i)
      BY <2>2, <2>4, OrphanedFields
    <2>6. QED  BY <2>3, <2>5
  <1>8. CallsInv(h)
    BY DEF Agreement
  <1>9. NewEntryRequests(h)
    <2>1. SUFFICES ASSUME NEW q \in EntryRequests'
                   PROVE  \/ q \in EntryRequests
                          \/ /\ GoodRequest(h, q)' /\ ByLeader(q)'
                             /\ \A s \in EntryRequests' : Alike(q, s)
      BY DEF NewEntryRequests
    <2>2. PICK r \in CallsIn(requests) : OrphanOf(q, r, i)
      BY <1>7 DEF EntryRequests
    <2>3. r.rpc = "AppendEntries" /\ r \in EntryRequests
      BY <2>2 DEF OrphanOf, EntryRequests
    <2>4. /\ SameEntries(q, r)
          /\ q = r \/ (r.src = i /\ q.src = Nil)
      BY <2>2, <2>3 DEF OrphanOf
    <2>5. CASE q = r
      BY <2>3, <2>5
    <2>6. CASE r.src = i /\ q.src = Nil
      <3>1. GoodRequest(h, r)
        BY <1>8, <2>3 DEF CallsInv
      <3>2. GoodRequest(h, q)' /\ ByLeader(q)'
        BY <1>1, <1>3, <2>4, <2>6, <3>1, OrphanedRequest
      <3>3. ASSUME NEW s \in EntryRequests'
            PROVE  Alike(q, s)
        <4>1. PICK x \in CallsIn(requests) : OrphanOf(s, x, i)
          BY <1>7, <3>3 DEF EntryRequests
        <4>2. x \in EntryRequests /\ SameEntries(s, x)
          BY <3>3, <4>1 DEF OrphanOf, EntryRequests
        <4>3. Alike(r, x)
          BY <1>8, <2>3, <4>2 DEF CallsInv
        <4>4. QED  BY <2>4, <4>2, <4>3 DEF Alike, SameEntries, Replicated
      <3>4. QED  BY <3>2, <3>3
    <2>7. QED  BY <2>4, <2>5, <2>6
  <1>10. NewVoteRequests(h)
    <2>1. SUFFICES ASSUME NEW q \in CallsIn(requests'), q.rpc = "RequestVote"
                   PROVE  Asked(h, q)'
      BY DEF NewVoteRequests
    <2>2. PICK r \in CallsIn(requests) : OrphanOf(q, r, i)
      BY <1>7
    <2>3. r.rpc = "RequestVote" /\ SameVote(q, r)
      BY <2>1, <2>2 DEF OrphanOf
    <2>4. Asked(h, r)
      BY <1>8, <2>3 DEF CallsInv
    <2>5. Rising /\ LaterRuns(h, h)
      <3>1. Rising
        <4>1. \A p \in Server : currentTerm[p] >= currentTerm[p]
          BY FieldTypes, SMTT(60)
        <4>2. QED  BY <1>1, <4>1 DEF Rising
      <3>2. LaterRuns(h, h)
        BY <1>1, <1>4, SettledRuns DEF LaterRuns, Calm
      <3>3. QED  BY <3>1, <3>2
    <2>6. Asked(h, r)'
      BY <2>3, <2>4, <2>5, AskedKept
    <2>7. QED  BY <2>3, <2>6 DEF Asked, SameVote, Runs, Led, LastTerm, LastIndex, At
  <1>11. NewEntryReplies(h)
    <2>1. CallsIn(replies') \subseteq CallsIn(replies)
      BY <1>1, KeptCalls
    <2>2. QED  BY <2>1, NoNewReplies
  <1>12. QED  BY <1>1, <1>4, <1>5, <1>6, <1>9, <1>10, <1>11, CalmGoesOn

-----------------------------------------------------------------------------
(* AppendEntries, when it changes the log.                                 *)

\* Calls under way while the log of a peer that is not elected changes.
LEMMA EntriesCalls ==
  ASSUME StructInv, StructInv', NEW h, NEW g, Evolves(h, g), SameLeaders(h, g),
         CallsInv(h), Calm, NEW p \in Server, NotElected(h, p),
         \A q \in Server : q # p => log'[q] = log[q], AcksKnown(g),
         NewEntryRequests(g), NewEntryReplies(g), NewVoteRequests(g)
  PROVE  CallsInv(g)'
  <1>1. \A i \in Server : Settled(i)
    BY DEF Calm
  <1>2. SameOffice(h)
    BY <1>1 DEF SameOffice, Settled
  <1>3. LaterRuns(h, g)
    <2>1. ASSUME NEW i \in Server, NEW t \in Nat, Runs(g, i, t)'
          PROVE  Runs(h, i, t) /\ log'[i] = log[i]
      <3>1. Runs(h, i, t)'
        BY <2>1 DEF Runs, Led, SameLeaders
      <3>2. Runs(h, i, t)
        BY <1>1, <3>1, SettledRuns
      <3>3. i # p
        BY <3>1 DEF NotElected
      <3>4. QED  BY <3>2, <3>3
    <2>2. QED  BY <2>1 DEF LaterRuns
  <1>4. QED  BY <1>1, <1>2, <1>3, SettledSteady, CallsGoOn

\* So do the leaders' indexes.
LEMMA EntriesIndexes ==
  ASSUME Calm, UNCHANGED indexVars, NEW h, NEW p \in Server, NotElected(h, p),
         \A q \in Server : q # p => log'[q] = log[q], NEW i \in Server,
         state'[i] = "Leader"
  PROVE  SameIndexes(i)
  BY DEF Calm, Settled, SameIndexes, indexVars, NotElected

\* Everyone but p retains what is committed.
LEMMA OthersRetain ==
  ASSUME StructInv, NEW h, Commits(h), NEW p \in Server,
         \A q \in Server : q # p => log'[q] = log[q],
         Agree(log'[p], log[p], commitIndex[p]), NEW q \in Server
  PROVE  Agree(log'[q], log[q], commitIndex[q])
  <1>1. CASE q = p
    BY <1>1
  <1>2. CASE q # p
    <2>1. CommitAt(h, q)
      BY DEF Commits
    <2>2. QED  BY <1>2, <2>1, CommitInLog
  <1>3. QED  BY <1>1, <1>2

\* The entry at prevLogIndex conflicts.
LEMMA AgreementConflict ==
  ASSUME StructInv, StructInv', QuorumsMeet, NEW V, NEW h, Agreement(V, h),
         NEW U, U = Recall(V), NEW r \in EntryRequests, Carries(h, r),
         ConflictEntries(r), UNCHANGED indexVars
  PROVE  Agreement(U, h)' /\ \A i \in Server : Retains(i)
  <1>1. /\ Recorded(V) /\ PeersInv(V, h) /\ CallsInv(h) /\ Indexes(h) /\ Commits(h)
        /\ h \in Histories /\ LeaderLogs(h)
    BY DEF Agreement, PeersInv
  <1>2. /\ r \in CallsIn(requests) /\ r.rpc = "AppendEntries" /\ r.dst \in Server
        /\ r.term \in Nat /\ r.prevLogIndex \in Nat
    BY EntryCalls, EntryCall DEF EntryRequests
  <1>3. /\ Current(r) /\ ObserveTerm(r.dst, r.term)
        /\ r.prevLogIndex < Len(log[r.dst])
        /\ r.prevLogTerm # At(log[r.dst], r.prevLogIndex).term
        /\ log' = [log EXCEPT ![r.dst] = Upto(@, r.prevLogIndex)]
        /\ Answer(r, r.term, FALSE)
        /\ commitIndex' = commitIndex /\ delivered' = delivered
    BY DEF ConflictEntries, Fits, applyVars
  <1>4. Calm /\ r.term >= currentTerm[r.dst]
    BY <1>2, <1>3, Observed
  <1>5. NotElected(h, r.dst)
    BY <1>1, <1>2, <1>3, EntriesNotOwn
  <1>6. PICK p \in Server : p = r.dst
    BY <1>2
  <1>7. PICK k \in Nat : k = r.prevLogIndex
    BY <1>2
  <1>8. /\ log \in [Server -> Seq(Entry)] /\ log[p] \in Seq(Entry)
        /\ commitIndex[p] \in Nat /\ h.log[r.term] \in Seq(Entry)
    BY <1>1, <1>2, FieldTypes, HistoryType
  <1>9. log'[p] = Upto(log[p], k) /\ \A q \in Server : q # p => log'[q] = log[q]
    BY <1>3, <1>6, <1>7, <1>8
  <1>10. Agree(log'[p], log[p], commitIndex[p])
    <2>1. Agree(log[p], h.log[r.term], commitIndex[p])
      <3>1. CommitAt(h, p) /\ Led(h, r.term)
        BY <1>1 DEF Commits, Carries
      <3>2. QED  BY <1>1, <1>2, <1>4, <1>6, <3>1, CommitHeld
    <2>2. ~(k <= commitIndex[p])
      <3>1. ASSUME k <= commitIndex[p]
            PROVE  FALSE
        <4>1. k \in 0..commitIndex[p]
          BY <1>8, <3>1, SMTT(60)
        <4>2. At(log[p], k) = At(h.log[r.term], k)
          BY <2>1, <4>1, AgreeAt
        <4>3. QED  BY <1>3, <1>6, <1>7, <4>2 DEF Carries
      <3>2. QED  BY <3>1
    <2>3. Len(log[p]) \in Nat
      BY <1>8, SMTT(60)
    <2>4. /\ k >= 1 /\ k <= Len(log[p]) /\ k - 1 \in Int /\ commitIndex[p] \in Int
          /\ commitIndex[p] <= k - 1
      <3>1. k < Len(log[p])
        BY <1>3, <1>6, <1>7
      <3>2. QED  BY <1>8, <2>2, <2>3, <3>1, SMTT(60)
    <2>5. Upto(log[p], k) \in Seq(Entry) /\ Agree(Upto(log[p], k), log[p], k - 1)
      BY <1>8, <2>4, CutAgrees
    <2>6. Agree(Upto(log[p], k), log[p], commitIndex[p])
      BY <1>8, <2>4, <2>5, AgreeDown
    <2>7. QED  BY <1>9, <2>6
  <1>11. \A q \in Server : Agree(log'[q], log[q], commitIndex[q])
    BY <1>1, <1>9, <1>10, OthersRetain
  <1>12. PeersInv(U, h)'
    BY <1>1, <1>2, PeersConflict
  <1>13. Recorded(U)' /\ Rising
    BY <1>1, <1>4, CalmVotes, VotesRecalled
  <1>14. Evolves(h, h) /\ SameLeaders(h, h)
    BY <1>1, <1>13, EvolvesSelf
  <1>15. CallsInv(h)'
    <2>1. ByLeader(r)'
      <3>1. SteadyCalls
        BY <1>4, SettledSteady DEF Calm
      <3>2. QED  BY <1>1, <3>1, ByLeaderKept DEF SteadyCalls, CallsInv
    <2>2. NewEntryRequests(h) /\ NewEntryReplies(h) /\ NewVoteRequests(h)
      BY <1>3, <2>1, AnsweredEntries
    <2>3. AcksKnown(h)
      BY <1>1 DEF AcksKnown, CallsInv, GoodRequest
    <2>4. QED  BY <1>1, <1>4, <1>5, <1>6, <1>9, <1>14, <2>2, <2>3, EntriesCalls
  <1>16. Indexes(h)'
    <2>1. \A i \in Server : state'[i] = "Leader" => SameIndexes(i)
      BY <1>4, <1>5, <1>6, <1>9, EntriesIndexes
    <2>2. QED  BY <1>1, <1>12, <1>14, <2>1, IndexesGoOn
  <1>17. Commits(h)'
    BY <1>1, <1>3, <1>11, <1>14, CommitsGoOn
  <1>18. \A i \in Server : Retains(i)
    <2>1. \A i \in Server : commitIndex[i] >= commitIndex[i]
      BY FieldTypes, SMTT(60)
    <2>2. QED  BY <1>3, <1>11, <2>1 DEF Retains
  <1>19. QED  BY <1>12, <1>13, <1>15, <1>16, <1>17, <1>18 DEF Agreement

\* A peer learns that more is committed.
LEMMA CommitMade ==
  ASSUME NEW g, NEW i \in Server, NEW u \in Nat, NEW n \in Nat, u <= currentTerm'[i],
         commitIndex'[i] <= n, Chosen(g, u, n),
         Agree(log'[i], g.log[u], commitIndex'[i]),
         u = currentTerm'[i] => commitIndex'[i] <= g.ack[u][i]
  PROVE  CommitAt(g, i)'
  <1>1. Chosen(g, u, n)'
    BY DEF Chosen, Own, Led, Quorums, Majority, LastIndex, At
  <1>2. Agree(log[i], g.log[u], commitIndex[i])'
    BY DEF Agree, At
  <1>3. QED  BY <1>1, <1>2 DEF CommitAt

\* Peer p learns that more is committed, and applies it.
LEMMA CommitsMore ==
  ASSUME StructInv, StructInv', NEW h, NEW g, Evolves(h, g), Commits(h),
         NEW p \in Server, NEW l \in Seq(Entry), NEW c \in Nat, ApplyUpTo(p, l, c),
         \A q \in Server : q # p => log'[q] = log[q], log'[p] = l,
         NEW u \in Nat, NEW n \in Nat, u <= currentTerm'[p], c <= n, Chosen(g, u, n),
         Agree(l, g.log[u], c), u = currentTerm'[p] => c <= g.ack[u][p]
  PROVE  Commits(g)'
  <1>1. /\ Applies(h) /\ \A q \in Server : CommitAt(h, q)
    BY DEF Commits
  <1>2. Fixed(g, l, c)
    BY DEF Fixed
  <1>3. Applies(g)'
    BY <1>1, <1>2, AppliesMore
  <1>4. commitIndex'[p] = c /\ \A q \in Server : q # p => commitIndex'[q] = commitIndex[q]
    <2>1. commitIndex' = [commitIndex EXCEPT ![p] = c]
      BY DEF ApplyUpTo
    <2>2. QED  BY <2>1, FieldTypes
  <1>5. CommitAt(g, p)'
    BY <1>4, CommitMade
  <1>6. ASSUME NEW q \in Server, q # p
        PROVE  CommitAt(g, q)'
    <2>1. Agree(log'[q], log[q], commitIndex[q])
      BY <1>1, <1>6, CommitInLog
    <2>2. QED  BY <1>1, <1>4, <1>6, <2>1, CommitKept
  <1>7. QED  BY <1>3, <1>5, <1>6 DEF Commits

\* No other request under way carries less than what was taken over.
LEMMA TakenAcks ==
  ASSUME StructInv, NEW h, CallsInv(h), NEW r \in EntryRequests, NEW g, Took(h, g, r)
  PROVE  AcksKnown(g)
  <1>1. SUFFICES ASSUME NEW q \in EntryRequests, ~Empty(q)
                 PROVE  g.ack[q.term][q.dst] <= Replicated(q)
    BY DEF AcksKnown
  <1>2. h.ack[q.term][q.dst] <= Replicated(q) /\ Alike(q, r)
    BY <1>1 DEF CallsInv, GoodRequest
  <1>3. q.term \in Nat /\ q.dst \in Server /\ Replicated(q) \in Nat
    BY EntryCalls, EntryCall
  <1>4. CASE q.term = r.term /\ q.dst = r.dst
    <2>1. g.ack[q.term][q.dst] = Replicated(q)
      BY <1>2, <1>4 DEF Alike, Took
    <2>2. Replicated(q) <= Replicated(q)
      BY <1>3, SMTT(60)
    <2>3. QED  BY <2>1, <2>2
  <1>5. CASE ~(q.term = r.term /\ q.dst = r.dst)
    <2>1. g.ack[q.term][q.dst] = h.ack[q.term][q.dst]
      BY <1>3, <1>5 DEF Took
    <2>2. QED  BY <1>2, <2>1
  <1>6. QED  BY <1>4, <1>5

\* The logs agree at prevLogIndex.
LEMMA AgreementAccept ==
  ASSUME StructInv, StructInv', QuorumsMeet, NEW V, NEW h, Agreement(V, h),
         NEW U, U = Recall(V), NEW r \in EntryRequests, ~Empty(r),
         AcceptEntries(r), UNCHANGED indexVars
  PROVE  (\E g : Agreement(U, g)') /\ \A i \in Server : Retains(i)
  <1>1. /\ Recorded(V) /\ PeersInv(V, h) /\ CallsInv(h) /\ Indexes(h) /\ Commits(h)
        /\ h \in Histories /\ LeaderLogs(h)
    BY DEF Agreement, PeersInv
  <1>2. /\ r \in CallsIn(requests) /\ r \in Request /\ r.rpc = "AppendEntries"
        /\ r.dst \in Server /\ r.term \in Nat /\ r.leaderCommit \in Nat
        /\ Replicated(r) \in Nat
    BY EntryCalls, EntryCall DEF EntryRequests
  <1>3. /\ Carries(h, r) /\ h.ack[r.term][r.dst] <= Replicated(r)
        /\ Committed(h, h.log[r.term], r.leaderCommit, r.term) /\ ByLeader(r)
        /\ Led(h, r.term) /\ LastIndex(h.base[r.term]) <= Replicated(r)
    BY <1>1 DEF CallsInv, GoodRequest, Carries
  <1>4. PICK l : l = NewLog(r)
    OBVIOUS
  <1>5. /\ Current(r) /\ ObserveTerm(r.dst, r.term)
        /\ r.prevLogIndex < Len(log[r.dst])
        /\ r.prevLogTerm = At(log[r.dst], r.prevLogIndex).term
        /\ log' = [log EXCEPT ![r.dst] = l]
        /\ IF r.leaderCommit > commitIndex[r.dst]
           THEN ApplyUpTo(r.dst, l, IF r.leaderCommit > LastIndex(l)
                                    THEN LastIndex(l) ELSE r.leaderCommit)
           ELSE UNCHANGED applyVars
        /\ Answer(r, r.term, TRUE)
    BY <1>4 DEF AcceptEntries, Fits
  <1>6. Calm /\ r.term >= currentTerm[r.dst] /\ currentTerm'[r.dst] = r.term
    BY <1>2, <1>5, Observed
  <1>7. NotElected(h, r.dst)
    BY <1>1, <1>2, <1>3, <1>5, EntriesNotOwn
  <1>8. /\ l \in Seq(Entry) /\ LastIndex(l) = Replicated(r)
        /\ Agree(l, h.log[r.term], Replicated(r))
    BY <1>1, <1>2, <1>3, <1>4, <1>5, AcceptedLog
  <1>9. PICK g : TakesOver(h, g, r)
    BY DEF TakesOver, Made
  <1>10. PeersInv(U, g)' /\ Evolves(h, g)
    BY <1>1, <1>2, <1>3, <1>9, PeersAccept
  <1>11. Recorded(U)' /\ Rising
    BY <1>1, <1>6, CalmVotes, VotesRecalled
  <1>12. SameLeaders(h, g) /\ Took(h, g, r) /\ g \in Histories /\ Continues(h, g)
    BY <1>1, <1>2, <1>3, <1>6, <1>9, <1>10, <1>11, TakenHistory DEF Evolves
  <1>13. PICK p \in Server : p = r.dst
    BY <1>2
  <1>14. /\ log \in [Server -> Seq(Entry)] /\ log[p] \in Seq(Entry)
         /\ commitIndex \in [Server -> Nat] /\ commitIndex[p] \in Nat
         /\ h.log[r.term] \in Seq(Entry) /\ h.base[r.term] \in Seq(Entry)
         /\ h.ack[r.term][p] \in Nat
    BY <1>1, <1>2, FieldTypes, HistoryType
  <1>15. log'[p] = l /\ \A q \in Server : q # p => log'[q] = log[q]
    BY <1>5, <1>13, <1>14
  <1>16. commitIndex[p] <= Replicated(r) /\ Agree(log'[p], log[p], commitIndex[p])
    <2>1. CommitAt(h, p)
      BY <1>1 DEF Commits
    <2>2. /\ Agree(log[p], h.log[r.term], commitIndex[p])
          /\ \/ commitIndex[p] <= LastIndex(h.base[r.term])
             \/ commitIndex[p] <= h.ack[r.term][p]
      BY <1>1, <1>2, <1>3, <1>6, <1>13, <2>1, CommitHeld
    <2>3. LastIndex(h.base[r.term]) \in Int
      BY <1>14, SMTT(60) DEF LastIndex
    <2>4. h.ack[r.term][p] <= Replicated(r)
      BY <1>3, <1>13
    <2>5. /\ commitIndex[p] <= Replicated(r) /\ commitIndex[p] \in Int
          /\ Replicated(r) \in Int /\ commitIndex[p] <= commitIndex[p]
      BY <1>2, <1>3, <1>14, <2>2, <2>3, <2>4, SMTT(60)
    <2>6. Agree(l, h.log[r.term], commitIndex[p])
      BY <1>8, <1>14, <2>5, AgreeDown
    <2>7. Agree(h.log[r.term], log[p], commitIndex[p])
      BY <2>2, AgreeSym
    <2>8. Agree(l, log[p], commitIndex[p])
      BY <1>8, <1>14, <2>5, <2>6, <2>7, AgreeVia
    <2>9. QED  BY <1>15, <2>5, <2>8
  <1>17. \A q \in Server : Agree(log'[q], log[q], commitIndex[q])
    BY <1>1, <1>15, <1>16, OthersRetain
  <1>18. CallsInv(g)'
    <2>1. ByLeader(r)'
      <3>1. SteadyCalls
        BY <1>6, SettledSteady DEF Calm
      <3>2. QED  BY <1>3, <3>1, ByLeaderKept DEF SteadyCalls
    <2>2. Carries(g, r)
      BY <1>1, <1>2, <1>3, <1>12, CarriesStays
    <2>3. Replicated(r) <= g.ack[r.term][r.dst]
      <3>1. Replicated(r) <= Replicated(r)
        BY <1>2, SMTT(60)
      <3>2. QED  BY <1>12, <3>1 DEF Took
    <2>4. NewEntryRequests(g) /\ NewEntryReplies(g) /\ NewVoteRequests(g)
      BY <1>5, <2>1, <2>2, <2>3, AnsweredEntries
    <2>5. AcksKnown(g)
      BY <1>1, <1>12, TakenAcks
    <2>6. QED  BY <1>1, <1>6, <1>7, <1>10, <1>12, <1>13, <1>15, <2>4, <2>5, EntriesCalls
  <1>19. Indexes(g)'
    <2>1. \A i \in Server : state'[i] = "Leader" => SameIndexes(i)
      BY <1>6, <1>7, <1>13, <1>15, EntriesIndexes
    <2>2. QED  BY <1>1, <1>10, <2>1, IndexesGoOn
  <1>20. Commits(g)' /\ \A i \in Server : commitIndex'[i] >= commitIndex[i]
    <2>1. CASE r.leaderCommit > commitIndex[p]
      <3>1. PICK c : c = IF r.leaderCommit > LastIndex(l) THEN LastIndex(l) ELSE r.leaderCommit
        OBVIOUS
      <3>2. /\ c \in Nat /\ c <= Replicated(r) /\ c <= r.leaderCommit
            /\ c >= commitIndex[p] /\ r.leaderCommit # 0
        BY <1>2, <1>8, <1>14, <1>16, <2>1, <3>1, SMTT(60)
      <3>3. ApplyUpTo(p, l, c)
        BY <1>5, <1>13, <2>1, <3>1
      <3>4. PICK u \in Nat, n \in Nat :
              u <= r.term /\ c <= n /\ Chosen(g, u, n) /\ Agree(l, g.log[u], c)
        <4>1. PICK u \in Nat, n \in Nat :
                /\ u <= r.term /\ r.leaderCommit <= n /\ Chosen(h, u, n)
                /\ Agree(h.log[r.term], h.log[u], r.leaderCommit)
          BY <1>3, <3>2 DEF Committed
        <4>2. Chosen(g, u, n)
          BY <1>1, <1>12, <4>1, ChosenStays
        <4>3. /\ c <= n /\ c \in Int /\ Replicated(r) \in Int /\ r.leaderCommit \in Int
          BY <1>2, <3>2, <4>1, SMTT(60)
        <4>4. h.log[u] \in Seq(Entry) /\ g.log[u] = h.log[u]
          BY <1>1, <1>12, HistoryType DEF SameLeaders
        <4>5. Agree(l, h.log[r.term], c)
          BY <1>8, <1>14, <3>2, <4>3, AgreeDown
        <4>6. Agree(l, h.log[u], c)
          BY <1>8, <1>14, <3>2, <4>1, <4>3, <4>4, <4>5, AgreeVia
        <4>7. QED  BY <4>1, <4>2, <4>3, <4>4, <4>6
      <3>5. u = currentTerm'[p] => c <= g.ack[u][p]
        BY <1>6, <1>12, <1>13, <3>2 DEF Took
      <3>6. u <= currentTerm'[p]
        BY <1>6, <1>13, <3>4
      <3>7. Commits(g)'
        BY <1>1, <1>8, <1>10, <1>15, <3>2, <3>3, <3>4, <3>5, <3>6, CommitsMore
      <3>8. \A i \in Server : commitIndex'[i] >= commitIndex[i]
        <4>1. commitIndex' = [commitIndex EXCEPT ![p] = c]
          BY <3>3 DEF ApplyUpTo
        <4>2. \A i \in Server : commitIndex[i] >= commitIndex[i]
          BY <1>14, SMTT(60)
        <4>3. QED  BY <1>14, <3>2, <4>1, <4>2
      <3>9. QED  BY <3>7, <3>8
    <2>2. CASE ~(r.leaderCommit > commitIndex[p])
      <3>1. commitIndex' = commitIndex /\ delivered' = delivered
        BY <1>5, <1>13, <2>2 DEF applyVars
      <3>2. Commits(g)'
        BY <1>1, <1>10, <1>17, <3>1, CommitsGoOn
      <3>3. \A i \in Server : commitIndex[i] >= commitIndex[i]
        BY <1>14, SMTT(60)
      <3>4. QED  BY <3>1, <3>2, <3>3
    <2>3. QED  BY <2>1, <2>2
  <1>21. Agreement(U, g)'
    BY <1>10, <1>11, <1>18, <1>19, <1>20 DEF Agreement
  <1>22. QED  BY <1>17, <1>20, <1>21 DEF Retains

\* AppendEntries.
LEMMA AgreementAppendEntries ==
  ASSUME StructInv, StructInv', LogTermsOrdered, QuorumsMeet, NEW V, NEW h,
         Agreement(V, h), NEW U, U = Recall(V), NEW r \in CallsIn(requests),
         AppendEntries(r)
  PROVE  (\E g : Agreement(U, g)') /\ \A i \in Server : Retains(i)
  <1>1. r \in EntryRequests /\ UNCHANGED indexVars
    BY DEF AppendEntries, EntryRequests
  <1>2. PeersInv(V, h) /\ GoodRequest(h, r)
    BY <1>1 DEF Agreement, CallsInv
  <1>3. CASE RejectEntries(r)
    <2>1. /\ Answer(r, currentTerm[r.dst], FALSE) /\ UNCHANGED electionVars
          /\ log' = log /\ UNCHANGED <<indexVars, applyVars>>
      BY <1>1, <1>3 DEF RejectEntries
    <2>2. Calm
      BY <2>1, CalmUnchanged
    <2>3. QED  BY <1>1, <2>1, <2>2, AgreementRefuses
  <1>4. CASE MissEntries(r)
    <2>1. /\ Answer(r, r.term, FALSE) /\ Current(r) /\ ObserveTerm(r.dst, r.term)
          /\ log' = log /\ UNCHANGED <<indexVars, applyVars>>
      BY <1>1, <1>4 DEF MissEntries
    <2>2. Calm
      BY <2>1, Observed
    <2>3. QED  BY <1>1, <2>1, <2>2, AgreementRefuses
  <1>5. CASE Empty(r) /\ (ConflictEntries(r) \/ AcceptEntries(r))
    <2>1. AcceptEntries(r) /\ log' = log /\ UNCHANGED <<indexVars, applyVars>>
      BY <1>1, <1>2, <1>5, EmptyEntries
    <2>2. Answer(r, r.term, TRUE) /\ Current(r) /\ ObserveTerm(r.dst, r.term)
      BY <2>1 DEF AcceptEntries
    <2>3. Calm
      BY <2>2, Observed
    <2>4. QED  BY <1>1, <1>5, <2>1, <2>2, <2>3, AgreementRefuses
  <1>6. CASE ~Empty(r) /\ ConflictEntries(r)
    <2>1. Carries(h, r)
      BY <1>2, <1>6 DEF GoodRequest
    <2>2. QED  BY <1>1, <1>6, <2>1, AgreementConflict
  <1>7. CASE ~Empty(r) /\ AcceptEntries(r)
    BY <1>1, <1>7, AgreementAccept
  <1>8. QED  BY <1>3, <1>4, <1>5, <1>6, <1>7 DEF AppendEntries

-----------------------------------------------------------------------------
(* What the past says.                                                     *)

\* Genuine logs match.
LEMMA LogsMatch ==
  ASSUME StructInv, NEW V, NEW h, Agreement(V, h)
  PROVE  LogMatching
  <1> SUFFICES ASSUME NEW i \in Server, NEW j \in Server,
                      NEW k \in 0..LastIndex(log[i]) \cap 0..LastIndex(log[j]),
                      At(log[i], k).term = At(log[j], k).term
               PROVE  Upto(log[i], k + 1) = Upto(log[j], k + 1)
    BY DEF LogMatching
  <1>1. log[i] \in Seq(Entry) /\ log[j] \in Seq(Entry)
    BY FieldTypes
  <1>2. h \in Histories /\ Genuine(h, log[i]) /\ Genuine(h, log[j])
    BY DEF Agreement, PeersInv, PeerLogs
  <1>3. k \in 0..LastIndex(log[i]) /\ k \in Nat /\ k <= LastIndex(log[j])
    BY <1>1, SMTT(60) DEF LastIndex
  <1>4. Agree(log[i], log[j], k)
    BY <1>1, <1>2, <1>3, GenuineMeet
  <1>5. QED  BY <1>1, <1>3, <1>4, AgreeUpto

\* Two leaders have in common what was chosen in the term of the first.
LEMMA ChosenLog ==
  ASSUME QuorumsMeet, StructInv, NEW V, NEW h, PeersInv(V, h),
         NEW u, NEW n, Chosen(h, u, n), NEW t \in Nat, Led(h, t), u <= t, NEW k \in Nat, k <= n
  PROVE  Agree(h.log[t], h.log[u], k)
  <1>1. u \in Nat /\ n \in Nat /\ Led(h, u) /\ n <= LastIndex(h.log[u]) /\ Own(h, u, n)
    BY DEF Chosen, Own
  <1>2. h \in Histories /\ LeaderLogs(h) /\ Complete(h)
    BY DEF PeersInv
  <1>3. h.log[u] \in Seq(Entry) /\ h.log[t] \in Seq(Entry)
    BY <1>1, <1>2, HistoryType
  <1>4. Agree(h.log[t], h.log[u], n)
    <2>1. CASE u = t
      <3>1. n < Len(h.log[u])
        BY <1>1, <1>3, SMTT(60) DEF LastIndex
      <3>2. QED  BY <2>1, <3>1, AgreeRefl
    <2>2. CASE u # t
      <3>1. u < t
        BY <1>1, <2>2, SMTT(60)
      <3>2. ~Blocked(h, u, n)
        BY <1>2, ChosenOpen
      <3>3. Agree(h.base[t], h.log[u], n)
        BY <1>1, <1>2, <3>1, <3>2 DEF Complete
      <3>4. QED  BY <1>1, <1>2, <1>3, <3>3, BaseLog
    <2>3. QED  BY <2>1, <2>2
  <1>5. k \in Int /\ n \in Int
    BY <1>1, SMTT(60)
  <1>6. QED  BY <1>3, <1>4, <1>5, AgreeDown

\* All leaders from term u on have the applied command d.
AppliedFrom(h, u, d) ==
  \A t \in Nat : Led(h, t) /\ u <= t =>
    d[1] <= LastIndex(h.log[t]) /\ At(h.log[t], d[1]).command = d[2]

\* What was applied is in the logs of all leaders from a term on.
LEMMA AppliedLog ==
  ASSUME QuorumsMeet, StructInv, NEW V, NEW h, Agreement(V, h), NEW d \in delivered
  PROVE  \E u, n \in Nat : Chosen(h, u, n) /\ AppliedFrom(h, u, d)
  <1>1. PICK u \in Nat, n \in Nat :
          Chosen(h, u, n) /\ d[1] <= n /\ At(h.log[u], d[1]).command = d[2]
    BY DEF Agreement, Commits, Applies
  <1>2. d[1] \in Nat
    BY StructParts DEF ApplyTypes
  <1>3. PeersInv(V, h) /\ h \in Histories
    BY DEF Agreement, PeersInv
  <1>4. ASSUME NEW t \in Nat, Led(h, t), u <= t
        PROVE  /\ d[1] <= LastIndex(h.log[t])
               /\ At(h.log[t], d[1]).command = d[2]
    <2>1. Agree(h.log[t], h.log[u], d[1])
      BY <1>1, <1>2, <1>3, <1>4, ChosenLog
    <2>2. h.log[u] \in Seq(Entry) /\ h.log[t] \in Seq(Entry)
      BY <1>3, HistoryType
    <2>3. d[1] \in 0..d[1]
      BY <1>2, SMTT(60)
    <2>4. At(h.log[t], d[1]) = At(h.log[u], d[1])
      BY <2>1, <2>3, AgreeAt
    <2>5. d[1] <= LastIndex(h.log[t])
      BY <1>2, <2>1, <2>2, AgreeUpto
    <2>6. QED  BY <1>1, <2>4, <2>5
  <1>5. QED  BY <1>1, <1>4 DEF AppliedFrom

\* Two applied commands of one index are in the log of the later leader.
LEMMA AppliedOnce ==
  ASSUME QuorumsMeet, StructInv, NEW V, NEW h, Agreement(V, h)
  PROVE  StateMachineSafety
  <1> SUFFICES ASSUME NEW d \in delivered, NEW e \in delivered, d[1] = e[1]
               PROVE  d = e
    BY DEF StateMachineSafety
  <1>1. PICK u \in Nat, n \in Nat : Chosen(h, u, n) /\ AppliedFrom(h, u, d)
    BY AppliedLog
  <1>2. PICK v \in Nat, m \in Nat : Chosen(h, v, m) /\ AppliedFrom(h, v, e)
    BY AppliedLog
  <1>3. Led(h, u) /\ Led(h, v)
    BY <1>1, <1>2 DEF Chosen, Own
  <1>4. PICK t \in Nat : Led(h, t) /\ u <= t /\ v <= t
    <2>1. (u <= v /\ v <= v) \/ (v <= u /\ u <= u)
      BY SMTT(60)
    <2>2. QED  BY <1>3, <2>1
  <1>5. d[2] = e[2]
    <2>1. At(h.log[t], d[1]).command = d[2] /\ At(h.log[t], e[1]).command = e[2]
      BY <1>1, <1>2, <1>4 DEF AppliedFrom
    <2>2. QED  BY <2>1
  <1>6. d \in Nat \X (Command \cup {Nil}) /\ e \in Nat \X (Command \cup {Nil})
    BY StructParts DEF ApplyTypes
  <1>7. QED  BY <1>5, <1>6, SMTT(60)

\* A leader that nobody has outrun has reached the term of what was applied.
LEMMA LeaderComplete ==
  ASSUME QuorumsMeet, StructInv, NEW V, NEW h, Agreement(V, h)
  PROVE  LeaderCompleteness
  <1> SUFFICES ASSUME NEW i \in Server, state[i] = "Leader",
                      \A j \in Server : currentTerm[j] <= currentTerm[i],
                      NEW d \in delivered
               PROVE  d[1] <= LastIndex(log[i]) /\ At(log[i], d[1]).command = d[2]
    BY DEF LeaderCompleteness
  <1>1. PeersInv(V, h) /\ h \in Histories /\ Elected(V, h) /\ LeaderLogs(h) /\ Holds(h)
    BY DEF Agreement, PeersInv
  <1>2. /\ currentTerm[i] \in Nat /\ Led(h, currentTerm[i])
        /\ log[i] = h.log[currentTerm[i]]
    <2>1. Leads(h, i)
      BY <1>1, LeaderLed
    <2>2. QED  BY <2>1 DEF Leads
  <1>3. PICK u \in Nat, n \in Nat : Chosen(h, u, n) /\ AppliedFrom(h, u, d)
    BY AppliedLog
  <1>4. n >= 1
    BY <1>1, <1>3, OwnIndex DEF Chosen
  <1>5. PICK Q \in Quorums : \A p \in Q : h.ack[u][p] >= n
    BY <1>3 DEF Chosen
  <1>6. PICK p \in Q : TRUE
    BY DEF QuorumsMeet
  <1>7. p \in Server /\ h.ack[u][p] >= n
    BY <1>5, <1>6 DEF Quorums
  <1>8. h.ack[u][p] > 0
    <2>1. h.ack[u] \in [Server -> Nat]
      BY <1>1, HistoryType
    <2>2. h.ack[u][p] \in Nat
      BY <1>7, <2>1
    <2>3. QED  BY <1>4, <1>7, <2>2, SMTT(60)
  <1>9. u <= currentTerm[p]
    BY <1>1, <1>7, <1>8 DEF Holds, AckAt
  <1>10. currentTerm[p] \in Nat /\ currentTerm[p] <= currentTerm[i]
    BY <1>7, FieldTypes
  <1>11. u <= currentTerm[i]
    BY <1>2, <1>9, <1>10, SMTT(60)
  <1>12. QED  BY <1>2, <1>3, <1>11 DEF AppliedFrom

\* What a leader believes a peer of its term to hold, the peer took over from it.
LEMMA MatchesSound ==
  ASSUME StructInv, NEW V, NEW h, Agreement(V, h)
  PROVE  MatchIndexSound
  <1> SUFFICES ASSUME NEW i \in Server, NEW j \in Server, state[i] = "Leader",
                      currentTerm[j] = currentTerm[i]
               PROVE  /\ matchIndex[i][j] <= LastIndex(log[j])
                      /\ Upto(log[j], matchIndex[i][j] + 1) = Upto(log[i], matchIndex[i][j] + 1)
    BY DEF MatchIndexSound
  <1>1. PeersInv(V, h) /\ h \in Histories /\ Holds(h) /\ Indexes(h)
    BY DEF Agreement, PeersInv
  <1>2. /\ currentTerm[i] \in Nat /\ Led(h, currentTerm[i])
        /\ log[i] = h.log[currentTerm[i]]
    <2>1. Leads(h, i)
      BY <1>1, LeaderLed
    <2>2. QED  BY <2>1 DEF Leads
  <1>3. matchIndex[i][j] <= h.ack[currentTerm[i]][j]
    BY <1>1 DEF Indexes, IndexesAt
  <1>4. Agree(log[j], log[i], h.ack[currentTerm[i]][j])
    BY <1>1, <1>2 DEF Holds, AckAt
  <1>5. log[i] \in Seq(Entry) /\ log[j] \in Seq(Entry)
    BY FieldTypes
  <1>6. matchIndex[i][j] \in Nat
    BY StructParts DEF IndexTypes
  <1>7. h.ack[currentTerm[i]][j] \in Nat
    BY <1>1, <1>2, HistoryType
  <1>8. matchIndex[i][j] \in Int /\ h.ack[currentTerm[i]][j] \in Int
    BY <1>6, <1>7, SMTT(60)
  <1>9. Agree(log[j], log[i], matchIndex[i][j])
    BY <1>3, <1>4, <1>5, <1>8, AgreeDown
  <1>10. QED  BY <1>5, <1>6, <1>9, AgreeUpto

\* A peer keeps the prefix of its log that is committed.
Keeps(i) ==
  /\ commitIndex'[i] >= commitIndex[i]
  /\ commitIndex[i] <= LastIndex(log'[i])
  /\ Upto(log'[i], commitIndex[i] + 1) = Upto(log[i], commitIndex[i] + 1)

\* A peer that retains what is committed keeps its prefix.
LEMMA RetainsKeeps ==
  ASSUME StructInv, StructInv', NEW i \in Server, Retains(i)
  PROVE  Keeps(i)
  <1>1. log[i] \in Seq(Entry) /\ log'[i] \in Seq(Entry) /\ commitIndex[i] \in Nat
    BY StructParts, StructPartsPrime DEF LogTypes, ApplyTypes
  <1>2. QED  BY <1>1, AgreeUpto DEF Retains, Keeps

=============================================================================
