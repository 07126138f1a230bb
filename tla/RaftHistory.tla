---------------------------- MODULE RaftHistory ----------------------------
(***************************************************************************)
(* What the peers' past says about their present: the inductive invariant  *)
(* behind the agreement of Raft.  The past is two rigid records, V and h:  *)
(* V[t][p] is whom peer p voted for in term t, and of each term t h keeps  *)
(* the peer that was elected, its log when it was elected, its log when it *)
(* last was leader, and how much of that log each peer has taken over.     *)
(***************************************************************************)
EXTENDS RaftTicker

\* More than half of the peers.
Quorums == {Q \in SUBSET Server : Majority(Cardinality(Q))}
QuorumsMeet == \A Q, R \in Quorums : \E p \in Q : p \in R

\* How many peers a set of peers has.
Counting ==
  /\ \A x : Cardinality({x}) = 1
  /\ \A S \in SUBSET Server : Cardinality(S) \in Nat
  /\ \A S, T \in SUBSET Server : S \subseteq T => Cardinality(S) <= Cardinality(T)
  /\ \A S \in SUBSET Server : \A p \in Server \ S :
       Cardinality(S \cup {p}) = Cardinality(S) + 1

-----------------------------------------------------------------------------
(* Elections.                                                              *)

\* The calls of RequestVote that somebody waits for.
VoteRequests == {r \in CallsIn(requests) : r.rpc = "RequestVote" /\ r.src # Nil}
VoteReplies == {c \in CallsIn(replies) : c.req.rpc = "RequestVote"}

\* The votes of peer i still matter.
Standing(i) == state[i] # "Follower"

\* The call belongs to its caller's present candidacy, if there is one.
Recent(r) ==
  r.candidateId = r.src /\ (Standing(r.src) => r.term = currentTerm[r.src])

SameCall(r, q) == r.src = q.src /\ r.dst = q.dst

\* A peer never has two calls of RequestVote under way to another.
CallsOnce ==
  /\ \A r \in VoteRequests : requests[r] = 1 /\ Recent(r)
  /\ \A c \in VoteReplies : replies[c] = 1 /\ Recent(c.req)
  /\ \A r, q \in VoteRequests : SameCall(r, q) => r = q
  /\ \A c, d \in VoteReplies : SameCall(c.req, d.req) => c = d
  /\ \A r \in VoteRequests, c \in VoteReplies : ~SameCall(r, c.req)

\* The peers that voted for i in term t, and those that i still waits for.
Electors(V, t, i) == {p \in Server : V[t][p] = i}
Pending(i) ==
  {r.dst : r \in {q \in VoteRequests : q.src = i}} \cup
  {c.req.dst : c \in {d \in VoteReplies : d.req.src = i}}

\* V is what the peers remember of their votes, and nobody has voted in a term
\* it has not reached.
Recorded(V) ==
  /\ V \in [Nat -> [Server -> Server \cup {Nil}]]
  /\ \A p \in Server :
       /\ V[currentTerm[p]][p] = votedFor[p]
       /\ \A t \in Nat : t > currentTerm[p] => V[t][p] = Nil

\* A vote that is under way was given.
Given(V) == \A c \in VoteReplies : c.ok => V[c.req.term][c.req.dst] = c.req.src

\* A vote that was counted was given, and counted once.
Counted(V, i) ==
  /\ currentTerm[i] >= 1
  /\ votes[i] <= Cardinality(Electors(V, currentTerm[i], i) \ Pending(i))
  /\ state[i] = "Leader" => Majority(votes[i])

Ballots(V) ==
  /\ CallsOnce
  /\ Recorded(V)
  /\ Given(V)
  /\ \A i \in Server : Standing(i) => Counted(V, i)

\* The votes after a step.
Recall(V) ==
  [t \in Nat |-> [p \in Server |->
     IF t = currentTerm'[p] THEN votedFor'[p] ELSE V[t][p]]]

-----------------------------------------------------------------------------
(* Leaders and logs.                                                       *)

Agree(l, m, k) ==
  k < Len(l) /\ k < Len(m) /\ \A x \in 0..k : At(l, x) = At(m, x)

Histories ==
  [leader : [Nat -> Server \cup {Nil}], base : [Nat -> Seq(Entry)],
   log : [Nat -> Seq(Entry)], ack : [Nat -> [Server -> Nat]]]

Led(h, t) == h.leader[t] # Nil

\* Every entry of l was made by the leader of its term, behind the same ones.
Genuine(h, l) ==
  /\ Len(l) >= 1 /\ At(l, 0) = Dummy
  /\ \A k \in 1..LastIndex(l) :
       Led(h, At(l, k).term) /\ Agree(l, h.log[At(l, k).term], k)

\* A leader was elected by a quorum, in a term it has reached.
Elected(V, h) ==
  /\ \A t \in Nat : Led(h, t) =>
       /\ t >= 1 /\ t <= currentTerm[h.leader[t]]
       /\ \E Q \in Quorums : \A p \in Q : V[t][p] = h.leader[t]
  /\ \A i \in Server :
       /\ state[i] = "Leader" => /\ h.leader[currentTerm[i]] = i
                                 /\ log[i] = h.log[currentTerm[i]]
       /\ state[i] = "Candidate" => h.leader[currentTerm[i]] # i

\* Its log is genuine, and goes on from the one it was elected with.
LeaderLog(h, t) ==
  /\ Genuine(h, h.log[t])
  /\ Len(h.base[t]) >= 1
  /\ Agree(h.base[t], h.log[t], LastIndex(h.base[t]))
  /\ \A k \in 0..LastIndex(h.base[t]) : At(h.base[t], k).term < t
LeaderLogs(h) == \A t \in Nat : Led(h, t) => LeaderLog(h, t)

PeerLogs(h) == \A i \in Server : Genuine(h, log[i])

-----------------------------------------------------------------------------
(* What is replicated stays.                                               *)

\* Peer p has what it took over from the leader of its term.
AckAt(h, p) ==
  \A u \in Nat :
    /\ h.ack[u][p] > 0 => u <= currentTerm[p] /\ Led(h, u)
    /\ Led(h, u) => h.ack[u][p] <= LastIndex(h.log[u])
    /\ Led(h, u) /\ u = currentTerm[p] => Agree(log[p], h.log[u], h.ack[u][p])

\* Entry k of the leader of term u is its own.
Own(h, u, k) ==
  /\ u \in Nat /\ k \in Nat /\ Led(h, u) /\ k <= LastIndex(h.log[u])
  /\ At(h.log[u], k).term = u

\* No quorum will ever have taken it over from that leader.
Blocked(h, u, k) ==
  \E Q \in Quorums : \A p \in Q : currentTerm[p] > u /\ h.ack[u][p] < k

\* Peer p still has what it took over in an earlier term, unless that is
\* blocked.
KeptAt(h, p) ==
  \A u, k \in Nat :
    u < currentTerm[p] /\ Own(h, u, k) /\ k <= h.ack[u][p]
      => Agree(log[p], h.log[u], k) \/ Blocked(h, u, k)

Holds(h) == \A p \in Server : AckAt(h, p) /\ KeptAt(h, p)

\* Later leaders were elected with it, unless it is blocked.
Complete(h) ==
  \A t, u, k \in Nat :
    u < t /\ Led(h, t) /\ Own(h, u, k)
      => Agree(h.base[t], h.log[u], k) \/ Blocked(h, u, k)

LastTerm(l) == At(l, LastIndex(l)).term

\* Log l is at least as up to date as one that ends with entry k of term u.
Beyond(l, u, k) == LastTerm(l) > u \/ (LastTerm(l) = u /\ LastIndex(l) >= k)

\* Peer i may still be elected in term t.
Runs(h, i, t) == state[i] = "Candidate" /\ currentTerm[i] = t /\ ~Led(h, t)

\* No vote goes to a candidate whose log is behind what the voter took over.
Convinced(V, h) ==
  \A i, p \in Server, t, u, k \in Nat :
    Runs(h, i, t) /\ V[t][p] = i /\ u < t /\ Own(h, u, k) /\ k <= h.ack[u][p]
      => Beyond(log[i], u, k) \/ Blocked(h, u, k)

\* A vote goes to a peer that has reached the term.
Known(V) ==
  \A t \in Nat, p, i \in Server : V[t][p] = i => t <= currentTerm[i]

PeersInv(V, h) ==
  /\ h \in Histories /\ Known(V) /\ Elected(V, h) /\ LeaderLogs(h) /\ PeerLogs(h)
  /\ Holds(h) /\ Complete(h) /\ Convinced(V, h)

-----------------------------------------------------------------------------
(* What is committed.                                                      *)

\* A quorum has taken over entry n of the leader of term u from it.
Chosen(h, u, n) ==
  Own(h, u, n) /\ \E Q \in Quorums : \A p \in Q : h.ack[u][p] >= n

\* The first k entries of l are chosen, in term t or before.
Committed(h, l, k, t) ==
  k = 0 \/ \E u, n \in Nat : u <= t /\ k <= n /\ Chosen(h, u, n) /\ Agree(l, h.log[u], k)

\* A peer took over what it knows to be committed in its term.
CommitAt(h, i) ==
  commitIndex[i] = 0 \/
  \E u, n \in Nat :
    /\ u <= currentTerm[i] /\ commitIndex[i] <= n /\ Chosen(h, u, n)
    /\ Agree(log[i], h.log[u], commitIndex[i])
    /\ u = currentTerm[i] => commitIndex[i] <= h.ack[u][i]

\* What was applied anywhere was chosen.
Applies(h) ==
  \A d \in delivered : \E u, n \in Nat :
    Chosen(h, u, n) /\ d[1] <= n /\ At(h.log[u], d[1]).command = d[2]

Commits(h) == Applies(h) /\ \A i \in Server : CommitAt(h, i)

-----------------------------------------------------------------------------
(* What is under way.                                                      *)

EntryRequests == {r \in CallsIn(requests) : r.rpc = "AppendEntries"}
EntryReplies == {c \in CallsIn(replies) : c.req.rpc = "AppendEntries"}

\* What BecomeLeader sends.
Empty(r) ==
  /\ r.term = 0 /\ r.prevLogIndex = 0 /\ r.prevLogTerm = 0
  /\ r.entries = <<>> /\ r.leaderCommit = 0

\* A heartbeat carries the leader's log from prevLogIndex to its end, beyond
\* what it was elected with.
Carries(h, r) ==
  LET l == h.log[r.term]
  IN  /\ Led(h, r.term) /\ r.dst # h.leader[r.term]
      /\ Replicated(r) <= LastIndex(l)
      /\ LastIndex(h.base[r.term]) <= Replicated(r)
      /\ r.prevLogTerm = At(l, r.prevLogIndex).term
      /\ \A x \in 1..Len(r.entries) : r.entries[x] = At(l, r.prevLogIndex + x)

\* The caller, if it stands, is leader, and made the call in its term.
ByLeader(r) ==
  r.src # Nil /\ Standing(r.src) =>
    state[r.src] = "Leader" /\ (Empty(r) \/ r.term = currentTerm[r.src])

\* No peer has taken over more than what comes, and what its leader commits is
\* committed.
GoodRequest(h, r) ==
  \/ Empty(r)
  \/ /\ Carries(h, r)
     /\ h.ack[r.term][r.dst] <= Replicated(r)
     /\ Committed(h, h.log[r.term], r.leaderCommit, r.term)
     /\ \A i \in Server : state[i] = "Leader" /\ r.term = currentTerm[i] => r.src = i

\* Where a call succeeded, the peer has taken over what came.
GoodReply(h, c) ==
  \/ Empty(c.req)
  \/ /\ Carries(h, c.req)
     /\ c.ok => Replicated(c.req) <= h.ack[c.req.term][c.req.dst]

\* A vote is asked for with the end of the candidate's log.
Asked(h, r) ==
  /\ r.term <= currentTerm[r.candidateId]
  /\ Runs(h, r.candidateId, r.term) =>
       /\ r.lastLogIndex = LastIndex(log[r.candidateId])
       /\ r.lastLogTerm = LastTerm(log[r.candidateId])

\* Two requests to one peer carry the same log, if they are of the same term.
Alike(r, q) == r.term = q.term /\ r.dst = q.dst => Replicated(r) = Replicated(q)

CallsInv(h) ==
  /\ \A r \in EntryRequests : GoodRequest(h, r) /\ ByLeader(r)
  /\ \A c \in EntryReplies : GoodReply(h, c) /\ ByLeader(c.req)
  /\ \A r, q \in EntryRequests : Alike(r, q)
  /\ \A r \in CallsIn(requests) : r.rpc = "RequestVote" => Asked(h, r)

\* What a leader knows of the others.
IndexesAt(h, i) ==
  /\ h.ack[currentTerm[i]][i] = LastIndex(log[i])
  /\ \A j \in Server : matchIndex[i][j] <= h.ack[currentTerm[i]][j]
  /\ \A j \in Server : i # j => nextIndex[i][j] <= Len(log[i])
Indexes(h) == \A i \in Server : state[i] = "Leader" => IndexesAt(h, i)

\* V and h are the past of the peers.
Agreement(V, h) ==
  Recorded(V) /\ PeersInv(V, h) /\ CallsInv(h) /\ Indexes(h) /\ Commits(h)

-----------------------------------------------------------------------------
(* How the history goes on.                                                *)

\* g continues h.
Continues(h, g) ==
  \A t \in Nat : Led(h, t) =>
    /\ g.leader[t] = h.leader[t] /\ g.base[t] = h.base[t]
    /\ Agree(h.log[t], g.log[t], LastIndex(h.log[t]))
    /\ \A p \in Server : h.ack[t][p] <= g.ack[t][p]

\* A peer takes nothing over from the leader of a term it has left.
Frozen(h, g) ==
  \A u \in Nat, p \in Server : currentTerm[p] > u => g.ack[u][p] = h.ack[u][p]

\* No peer's term falls.
Rising == \A p \in Server : currentTerm'[p] >= currentTerm[p]

\* Votes that were given are not taken back.
VotesStay(V, U) ==
  \A t \in Nat, p \in Server : V[t][p] # Nil => U[t][p] = V[t][p]

\* Nobody is elected, and no leader's log changes.
OldLeaders ==
  \A i \in Server : state'[i] = "Leader" =>
    state[i] = "Leader" /\ currentTerm'[i] = currentTerm[i] /\ log'[i] = log[i]
OldCandidates ==
  \A i \in Server : state'[i] = "Candidate" =>
    \/ state[i] = "Candidate" /\ currentTerm'[i] = currentTerm[i]
    \/ currentTerm'[i] > currentTerm[i]

\* Nobody who may be elected is new.
OldRuns(h, g) ==
  \A i \in Server, t \in Nat :
    Runs(g, i, t)' => Runs(h, i, t) /\ log'[i] = log[i]

\* Nobody votes.
NoVotes(V, U) == \A t \in Nat, p, i \in Server : U[t][p] = i => V[t][p] = i

\* Nobody votes for a peer that has not reached the term.
KnownVotes(V, U) ==
  \A t \in Nat, p, i \in Server : U[t][p] = i => V[t][p] = i \/ t <= currentTerm'[i]

\* Log l is at least as up to date as log m.
AtLeast(l, m) ==
  \/ LastTerm(l) > LastTerm(m)
  \/ LastTerm(l) = LastTerm(m) /\ LastIndex(l) >= LastIndex(m)

\* A vote that is given goes to a peer with such a log.
FairVotes(V, U, h) ==
  \A t \in Nat, p, i \in Server : U[t][p] = i =>
    \/ V[t][p] = i /\ (Runs(h, i, t)' => Runs(h, i, t))
    \/ t <= currentTerm'[i] /\ (Runs(h, i, t)' => AtLeast(log[i], log[p]))

\* Peer i goes on as before, or it is follower.
Settled(i) ==
  \/ state'[i] = "Follower"
  \/ state'[i] = state[i] /\ currentTerm'[i] = currentTerm[i]

\* Nobody votes, stands for election or is elected.
Calm ==
  \A i \in Server :
    /\ Settled(i)
    /\ \/ currentTerm'[i] = currentTerm[i] /\ votedFor'[i] = votedFor[i]
       \/ currentTerm'[i] > currentTerm[i] /\ votedFor'[i] = Nil

SameLeaders(h, g) == g.leader = h.leader /\ g.base = h.base /\ g.log = h.log

\* Only the log of peer p changes, and only p takes something over.
OnlyAt(h, g, p) ==
  \A q \in Server : q # p =>
    log'[q] = log[q] /\ \A u \in Nat : g.ack[u][q] = h.ack[u][q]

\* Peer p is not leader, nor may it be elected.
NotElected(h, p) == state'[p] # "Leader" /\ \A t \in Nat : ~Runs(h, p, t)'

Made(g, L, B, G, A) == g = [leader |-> L, base |-> B, log |-> G, ack |-> A]

\* Only the peer a heartbeat went to has taken over more.
Took(h, g, r) ==
  /\ g.ack[r.term][r.dst] = Replicated(r)
  /\ \A u \in Nat, q \in Server :
       u # r.term \/ q # r.dst => g.ack[u][q] = h.ack[u][q]

\* g is the history h after a peer has taken over the entries of a heartbeat.
TakesOver(h, g, r) ==
  Made(g, h.leader, h.base, h.log,
       [u \in Nat |-> [q \in Server |->
          IF u = r.term /\ q = r.dst THEN Replicated(r) ELSE h.ack[u][q]]])

\* g is the history h after leader i has appended an entry.
Appends(h, g, i) ==
  Made(g, h.leader, h.base,
       [u \in Nat |-> IF u = currentTerm[i] THEN log'[i] ELSE h.log[u]],
       [u \in Nat |-> [q \in Server |->
          IF u = currentTerm[i] /\ q = i THEN LastIndex(log'[i]) ELSE h.ack[u][q]]])

\* What that means: l is its log, one entry longer, and t its term.
Appended(h, g, t, l, i) ==
  /\ g \in Histories /\ g.leader = h.leader /\ g.base = h.base
  /\ g.log[t] = l /\ \A u \in Nat : u # t => g.log[u] = h.log[u]
  /\ g.ack[t][i] = LastIndex(l)
  /\ \A u \in Nat, q \in Server : u # t \/ q # i => g.ack[u][q] = h.ack[u][q]
  /\ t \in Nat /\ l \in Seq(Entry) /\ log[i] \in Seq(Entry)
  /\ Len(log[i]) \in Nat /\ Len(log[i]) >= 1
  /\ LastIndex(l) = Len(log[i]) /\ At(l, LastIndex(l)).term = t
  /\ \A k \in Int : k < Len(log[i]) => Agree(l, log[i], k)
  /\ log'[i] = l /\ \A q \in Server : q # i => log'[q] = log[q]
  /\ t = currentTerm[i] /\ Led(h, t) /\ h.leader[t] = i /\ log[i] = h.log[t]

\* g is the history h after candidate i was elected.
Elects(h, g, i) ==
  Made(g, [u \in Nat |-> IF u = currentTerm[i] THEN i ELSE h.leader[u]],
       [u \in Nat |-> IF u = currentTerm[i] THEN log[i] ELSE h.base[u]],
       [u \in Nat |-> IF u = currentTerm[i] THEN log[i] ELSE h.log[u]],
       [u \in Nat |-> [q \in Server |->
          IF u = currentTerm[i] /\ q = i THEN LastIndex(log[i]) ELSE h.ack[u][q]]])

\* What that means, in term t.
Installed(h, g, t, i) ==
  /\ h \in Histories /\ g \in Histories
  /\ t \in Nat /\ t >= 1 /\ t = currentTerm[i] /\ ~Led(h, t)
  /\ g.leader[t] = i /\ g.base[t] = log[i] /\ g.log[t] = log[i]
  /\ \A u \in Nat : u # t => /\ g.leader[u] = h.leader[u]
                             /\ g.base[u] = h.base[u] /\ g.log[u] = h.log[u]
  /\ g.ack[t][i] = LastIndex(log[i]) /\ \A q \in Server : h.ack[t][q] = 0
  /\ \A u \in Nat, q \in Server : u # t \/ q # i => g.ack[u][q] = h.ack[u][q]
  /\ \A k \in 0..LastIndex(log[i]) : At(log[i], k).term < t

\* A quorum votes for i in term t.
WonBy(V, t, i) == \E Q \in Quorums : \A p \in Q : V[t][p] = i

Evolves(h, g) ==
  h \in Histories /\ g \in Histories /\ Continues(h, g) /\ Frozen(h, g) /\ Rising

\* Who made call r goes on as before, or it is follower, or nobody waits for it.
Steady(r) == r.src = Nil \/ Settled(r.src)
SteadyCalls ==
  (\A r \in EntryRequests : Steady(r)) /\ \A c \in EntryReplies : Steady(c.req)

\* A leader was leader before, or is the first one of its term.
SameOffice(h) ==
  \A i \in Server : state'[i] = "Leader" =>
    \/ state[i] = "Leader" /\ currentTerm'[i] = currentTerm[i]
    \/ ~Led(h, currentTerm'[i])

\* What is under way is still as much as its receiver took over.
AcksKnown(g) ==
  \A r \in EntryRequests : Empty(r) \/ g.ack[r.term][r.dst] <= Replicated(r)

\* Who may be elected could be before, with the same log, or is in a new term.
LaterRuns(h, g) ==
  \A i \in Server, t \in Nat :
    Runs(g, i, t)' => (Runs(h, i, t) /\ log'[i] = log[i]) \/ t > currentTerm[i]

\* Peer i is leader as before, and knows the same of the others.
SameIndexes(i) ==
  /\ state[i] = "Leader" /\ currentTerm'[i] = currentTerm[i] /\ log'[i] = log[i]
  /\ nextIndex'[i] = nextIndex[i] /\ matchIndex'[i] = matchIndex[i]

\* Peer i does not give up what it knows to be committed.
Retains(i) ==
  commitIndex'[i] >= commitIndex[i] /\ Agree(log'[i], log[i], commitIndex[i])

\* Nothing is applied, and a peer that forgets what is committed is restarted.
NoCommits ==
  /\ delivered' = delivered
  /\ \A i \in Server : commitIndex'[i] = 0 \/ commitIndex'[i] = commitIndex[i]

\* Entry c of log l and those before it are chosen.
Fixed(h, l, c) ==
  \E u, n \in Nat : Chosen(h, u, n) /\ c <= n /\ Agree(l, h.log[u], c)

\* Two calls that differ at most in who waits for them.
SameEntries(r, q) ==
  /\ r.rpc = q.rpc /\ r.dst = q.dst /\ r.term = q.term
  /\ r.prevLogIndex = q.prevLogIndex /\ r.prevLogTerm = q.prevLogTerm
  /\ r.entries = q.entries /\ r.leaderCommit = q.leaderCommit
SameVote(r, q) ==
  /\ r.rpc = q.rpc /\ r.dst = q.dst /\ r.term = q.term /\ r.candidateId = q.candidateId
  /\ r.lastLogIndex = q.lastLogIndex /\ r.lastLogTerm = q.lastLogTerm

\* Call q is call r after its caller i restarted, if r was of i.
OrphanOf(q, r, i) ==
  /\ q = r \/ (r.src = i /\ q.src = Nil)
  /\ r.rpc = "AppendEntries" => SameEntries(q, r)
  /\ r.rpc = "RequestVote" => SameVote(q, r)
  /\ q.rpc = r.rpc /\ q.dst = r.dst

\* Peer i is the leader of its term in the history, and its log is.
Leads(h, i) ==
  /\ currentTerm[i] \in Nat /\ Led(h, currentTerm[i])
  /\ h.leader[currentTerm[i]] = i /\ log[i] = h.log[currentTerm[i]]

\* Call r is a heartbeat of leader i to j: it carries all of i's log.
Beats(h, i, j, r) ==
  /\ Carries(h, r) /\ Replicated(r) = LastIndex(log[i]) /\ r.rpc = "AppendEntries"
  /\ r.src = i /\ r.dst = j /\ r.term = currentTerm[i]
  /\ r.leaderCommit = commitIndex[i]

\* The calls after the step that are not from before it.
NewEntryRequests(g) ==
  \A r \in EntryRequests' :
    \/ r \in EntryRequests
    \/ /\ GoodRequest(g, r)' /\ ByLeader(r)'
       /\ \A q \in EntryRequests' : Alike(r, q)
NewEntryReplies(g) ==
  \A c \in EntryReplies' :
    c \in EntryReplies \/ (GoodReply(g, c)' /\ ByLeader(c.req)')
NewVoteRequests(g) ==
  \A r \in CallsIn(requests') :
    r.rpc = "RequestVote" => r \in CallsIn(requests) \/ Asked(g, r)'

=============================================================================
