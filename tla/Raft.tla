-------------------------------- MODULE Raft --------------------------------
(***************************************************************************)
(* The Raft peer of src/raft/raft.go: leader election, log replication and *)
(* persistence, with crash and restart as the tester of src/raft/config.go *)
(* does them.                                                              *)
(*                                                                         *)
(* A peer is a record protected by rf.mu and several goroutines that enter *)
(* critical sections on it.  Every critical section is one action here.    *)
(* This module lets the ticker goroutine take any of its steps at any time *)
(* and lets a handler return at once; RaftTicker adds the ticker's program *)
(* counter and the channels on which handlers wait for it, and implements  *)
(* this module.                                                            *)
(*                                                                         *)
(* Go indexes logs from 0 and log[0] is a dummy entry of term 0; At, Upto  *)
(* and From below have Go's meaning of l[k], l[:k] and l[k:].              *)
(***************************************************************************)
EXTENDS Sequences, Calls

CONSTANTS
  Server,       \* the peers
  Command,      \* what a client may pass to Start
  Nil,          \* votedFor = -1, and the caller of a call nobody waits for
  Prompt,       \* TRUE: a call ends or is lost before its caller's timer fires
  LossyCrash,   \* TRUE: a crash may come between a change and its persist()
  MaxElections, \* bound: election timeouts of all peers together
  MaxLogLen,    \* bound: length of a leader's log, the dummy entry included
  MaxCalls,     \* bound: requests and replies in flight
  MaxRestarts   \* bound: crashes of all peers together

ASSUME ServerAssumption == IsFiniteSet(Server) /\ Server # {}
ASSUME NilAssumption == Nil \notin Server
ASSUME ModeAssumption == Prompt \in BOOLEAN /\ LossyCrash \in BOOLEAN
ASSUME BoundAssumption ==
  /\ MaxElections \in Nat /\ MaxLogLen \in Nat /\ MaxCalls \in Nat
  /\ MaxRestarts \in Nat

VARIABLES
  state,        \* rf.state
  currentTerm,  \* rf.currentTerm
  votedFor,     \* rf.votedFor
  votes,        \* rf.votes
  log,          \* rf.log
  commitIndex,  \* rf.commitIndex
  lastApplied,  \* rf.lastApplied
  nextIndex,    \* rf.nextIndex
  matchIndex,   \* rf.matchIndex
  persisted,    \* what the peer's Persister holds
  requests,     \* bag: calls whose handler has not run yet
  replies,      \* bag: calls whose handler has run, and their reply
  applied,      \* the ApplyMsgs sent on applyCh since the peer was made
  delivered,    \* history: every <<index, command>> any peer ever applied
  elections,    \* how often an election timer fired
  restarts      \* how often a peer was restarted

electionVars == <<state, currentTerm, votedFor>>
indexVars == <<nextIndex, matchIndex>>
applyVars == <<commitIndex, lastApplied, applied, delivered>>
callVars == <<requests, replies>>
boundVars == <<elections, restarts>>
vars == <<electionVars, votes, log, indexVars, applyVars, persisted,
          callVars, boundVars>>

-----------------------------------------------------------------------------
(* Logs and calls.                                                         *)

\* A log entry: its term and command (the dummy entry has no command).
Entry == [term : Nat, command : Command \cup {Nil}]
Dummy == [term |-> 0, command |-> Nil]

At(l, k) == l[k + 1]
Upto(l, k) == SubSeq(l, 1, k)
From(l, k) == SubSeq(l, k + 1, Len(l))
LastIndex(l) == Len(l) - 1

BadMajority(n) == n >= Cardinality(Server) \div 2
Majority(n) == n > Cardinality(Server) \div 2

\* A call in flight.  src is the peer waiting for the reply, Nil once nobody
\* does.  LeaderId is left out: no handler reads it.
RequestVoteArgs ==
  [rpc : {"RequestVote"}, src : Server \cup {Nil}, dst : Server, term : Nat,
   candidateId : Server, lastLogIndex : Nat, lastLogTerm : Nat]
AppendEntriesArgs ==
  [rpc : {"AppendEntries"}, src : Server \cup {Nil}, dst : Server, term : Nat,
   prevLogIndex : Nat, prevLogTerm : Nat, entries : Seq(Entry),
   leaderCommit : Nat]
Request == RequestVoteArgs \cup AppendEntriesArgs

\* ok is VoteGranted or Success.
Reply == [req : Request, term : Nat, ok : BOOLEAN]

Peers(i) == Server \ {i}
InFlight == Number(requests) + Number(replies)

\* Nobody waits for the answer of i's calls any more.
Orphaned(r, i) == IF r.src = i THEN [r EXCEPT !.src = Nil] ELSE r
OrphanRequests(B, i) == Turn(B, LAMBDA r : Orphaned(r, i))

\* i has no call outstanding.
Quiet(i) ==
  /\ \A r \in CallsIn(requests) : r.src # i
  /\ \A c \in CallsIn(replies) : c.req.src # i

-----------------------------------------------------------------------------
(* Make, on every peer.                                                    *)

\* Make allocates no nextIndex and matchIndex: until the peer is elected nothing
\* reads them, and these values stand for the nil slices.
NilNext == [j \in Server |-> 1]
NilMatch == [j \in Server |-> 0]

Init ==
  /\ state = [i \in Server |-> "Follower"]
  /\ currentTerm = [i \in Server |-> 0]
  /\ votedFor = [i \in Server |-> Nil]
  /\ votes = [i \in Server |-> 0]
  /\ log = [i \in Server |-> <<Dummy>>]
  /\ commitIndex = [i \in Server |-> 0]
  /\ lastApplied = [i \in Server |-> 0]
  /\ nextIndex = [i \in Server |-> NilNext]
  /\ matchIndex = [i \in Server |-> NilMatch]
  /\ persisted = [i \in Server |-> [log |-> <<Dummy>>, currentTerm |-> 0,
                                    votedFor |-> Nil]]
  /\ requests = NoCalls
  /\ replies = NoCalls
  /\ applied = [i \in Server |-> <<>>]
  /\ delivered = {}
  /\ elections = 0
  /\ restarts = 0

-----------------------------------------------------------------------------
(* Clients.                                                                *)

\* Start on a leader: append, and count the entry as matched by the leader.
\* On any other peer Start changes nothing.
Start(i, command) ==
  /\ state[i] = "Leader"
  /\ Len(log[i]) < MaxLogLen
  /\ log' = [log EXCEPT
       ![i] = Append(@, [term |-> currentTerm[i], command |-> command])]
  /\ matchIndex' = [matchIndex EXCEPT ![i][i] = Len(log[i])]
  /\ nextIndex' = [nextIndex EXCEPT ![i][i] = Len(log[i]) + 1]
  /\ UNCHANGED <<electionVars, votes, applyVars, persisted, callVars,
                 boundVars>>

-----------------------------------------------------------------------------
(* The ticker.                                                             *)

\* What persist() saves.
Durable(i) == [log |-> log[i], currentTerm |-> currentTerm[i],
               votedFor |-> votedFor[i]]

\* persist(), called from the top of the ticker's loop and nowhere else.  It
\* is tracked only while a restart that reads it can still come; without
\* lossy crashes the persister is up to date whenever it is read.
persist(i) ==
  /\ LossyCrash /\ restarts < MaxRestarts
  /\ persisted' = [persisted EXCEPT ![i] = Durable(i)]
  /\ UNCHANGED <<electionVars, votes, log, indexVars, applyVars, callVars,
                 boundVars>>

\* The election timer fires.  becomeCandidate does not look at rf.state: the
\* ticker decided on the state it read at the top of its loop, and even a
\* leader may get here.
becomeCandidate(i) ==
  /\ Prompt => Quiet(i)
  /\ elections < MaxElections
  /\ elections' = elections + 1
  /\ InFlight + Cardinality(Peers(i)) <= MaxCalls
  /\ state' = [state EXCEPT ![i] = "Candidate"]
  /\ currentTerm' = [currentTerm EXCEPT ![i] = @ + 1]
  /\ votedFor' = [votedFor EXCEPT ![i] = i]
  /\ votes' = [votes EXCEPT ![i] = 1]
  /\ requests' = Send(requests, 
       {[rpc |-> "RequestVote", src |-> i, dst |-> j,
         term |-> currentTerm[i] + 1, candidateId |-> i,
         lastLogIndex |-> LastIndex(log[i]),
         lastLogTerm |-> At(log[i], LastIndex(log[i])).term] : j \in Peers(i)})
  /\ UNCHANGED <<log, indexVars, applyVars, persisted, replies, restarts>>

\* The term a heartbeat names: that of the entry before nextIndex or, when
\* there is nothing to send, that of the last entry.
BadPrevLogTerm(l, next) == At(l, LastIndex(l)).term
PrevLogTerm(l, next) ==
  IF next < Len(l) THEN At(l, next - 1).term ELSE At(l, LastIndex(l)).term

\* What sendHeartBeats sends to peer j: the log from nextIndex on.
HeartBeat(i, j) ==
  LET next == nextIndex[i][j]
  IN  [rpc |-> "AppendEntries", src |-> i, dst |-> j, term |-> currentTerm[i],
       prevLogIndex |-> next - 1,
       prevLogTerm |-> PrevLogTerm(log[i], next),
       entries |-> IF next < Len(log[i]) THEN From(log[i], next) ELSE <<>>,
       leaderCommit |-> commitIndex[i]]

\* The heartbeat timer fires (on a peer that is no leader nothing is sent).
sendHeartBeats(i) ==
  /\ state[i] = "Leader"
  /\ Prompt => Quiet(i)
  /\ InFlight + Cardinality(Peers(i)) <= MaxCalls
  /\ requests' = Send(requests, {HeartBeat(i, j) : j \in Peers(i)})
  /\ UNCHANGED <<electionVars, votes, log, indexVars, applyVars, persisted,
                 replies, boundVars>>

-----------------------------------------------------------------------------
(* RPC handlers.                                                           *)

\* A handler returns this reply to whoever still waits for it.
Answer(r, t, ok) ==
  /\ requests' = Take(requests, r)
  /\ replies' = IF r.src = Nil THEN replies
                ELSE Send(replies, {[req |-> r, term |-> t, ok |-> ok]})

\* "Step down": a higher term was seen.
StepDown(i, t) ==
  /\ currentTerm' = [currentTerm EXCEPT ![i] = t]
  /\ state' = [state EXCEPT ![i] = "Follower"]
  /\ votedFor' = [votedFor EXCEPT ![i] = Nil]

\* The candidate's log is at least as up to date as l.
BadUpToDate(r, l) == TRUE
UpToDate(r, l) ==
  LET lastTerm == At(l, LastIndex(l)).term
  IN  \/ r.lastLogTerm > lastTerm
      \/ r.lastLogTerm = lastTerm /\ r.lastLogIndex >= LastIndex(l)

\* The vote of peer i for a request of i's term or a later one.
BadGrantVote(i, r) == UpToDate(r, log[i])
GrantVote(i, r) ==
  /\ r.term > currentTerm[i] \/ votedFor[i] \in {Nil, r.candidateId}
  /\ UpToDate(r, log[i])

\* RequestVote, for a candidate of an earlier term.
RejectVote(r) ==
  /\ r.term < currentTerm[r.dst]
  /\ Answer(r, currentTerm[r.dst], FALSE)
  /\ UNCHANGED electionVars

\* RequestVote, otherwise.  The reply's Term stays 0.
DecideVote(r) ==
  LET i == r.dst
      newer == r.term > currentTerm[i]
      grant == GrantVote(i, r)
  IN  /\ r.term >= currentTerm[i]
      /\ currentTerm' = [currentTerm EXCEPT ![i] = r.term]
      /\ state' = [state EXCEPT ![i] = IF newer THEN "Follower" ELSE @]
      /\ votedFor' = [votedFor EXCEPT ![i] = IF grant THEN r.candidateId
                                             ELSE IF newer THEN Nil ELSE @]
      /\ Answer(r, 0, grant)

RequestVote(r) ==
  /\ r.rpc = "RequestVote"
  /\ RejectVote(r) \/ DecideVote(r)
  /\ UNCHANGED <<votes, log, indexVars, applyVars, persisted, boundVars>>

\* The apply loops start after the last entry that was applied.
BadNextToApply(i) == commitIndex[i] + 1
NextToApply(i) == lastApplied[i] + 1

\* commitIndex becomes c and the entries of log l up to c that were not
\* applied yet go to applyCh, one ApplyMsg each.
ApplyUpTo(i, l, c) ==
  LET from == NextToApply(i) - 1
      msgs == [k \in 1..(c - from) |->
                 [index |-> from + k, command |-> At(l, from + k).command]]
  IN  /\ commitIndex' = [commitIndex EXCEPT ![i] = c]
      /\ lastApplied' = [lastApplied EXCEPT ![i] = IF c > @ THEN c ELSE @]
      /\ applied' = [applied EXCEPT ![i] = @ \o msgs]
      /\ delivered' = delivered \cup
           {<<from + k, At(l, from + k).command>> : k \in 1..(c - from)}

ObserveTerm(i, t) ==
  IF t > currentTerm[i] THEN StepDown(i, t) ELSE UNCHANGED electionVars

\* The sender's term is not behind.
BadCurrent(r) == TRUE
Current(r) == r.term >= currentTerm[r.dst]

\* AppendEntries, for a leader of an earlier term.
RejectEntries(r) ==
  /\ ~Current(r)
  /\ Answer(r, currentTerm[r.dst], FALSE)
  /\ UNCHANGED <<electionVars, log, applyVars>>

\* AppendEntries, the log is too short to hold an entry at prevLogIndex.
MissEntries(r) ==
  LET i == r.dst
  IN  /\ Current(r)
      /\ ObserveTerm(i, r.term)
      /\ r.prevLogIndex >= Len(log[i])
      /\ Answer(r, r.term, FALSE)
      /\ UNCHANGED <<log, applyVars>>

\* The log holds at prevLogIndex the entry that the leader has there.
BadFits(r) == TRUE
Fits(r) == r.prevLogTerm = At(log[r.dst], r.prevLogIndex).term

\* The leader's entries replace all that follows prevLogIndex.
BadNewLog(r) == log[r.dst] \o r.entries
NewLog(r) == Upto(log[r.dst], r.prevLogIndex + 1) \o r.entries

\* AppendEntries, the entry at prevLogIndex conflicts: it and all that follow
\* it are deleted.
ConflictEntries(r) ==
  LET i == r.dst
  IN  /\ Current(r)
      /\ ObserveTerm(i, r.term)
      /\ r.prevLogIndex < Len(log[i])
      /\ ~Fits(r)
      /\ log' = [log EXCEPT ![i] = Upto(@, r.prevLogIndex)]
      /\ Answer(r, r.term, FALSE)
      /\ UNCHANGED applyVars

\* AppendEntries, the logs agree at prevLogIndex: the entries are taken over, and
\* what the leader committed is applied.
AcceptEntries(r) ==
  LET i == r.dst
      newLog == NewLog(r)
  IN  /\ Current(r)
      /\ ObserveTerm(i, r.term)
      /\ r.prevLogIndex < Len(log[i])
      /\ Fits(r)
      /\ log' = [log EXCEPT ![i] = newLog]
      /\ IF r.leaderCommit > commitIndex[i]
         THEN ApplyUpTo(i, newLog, IF r.leaderCommit > LastIndex(newLog)
                                   THEN LastIndex(newLog) ELSE r.leaderCommit)
         ELSE UNCHANGED applyVars
      /\ Answer(r, r.term, TRUE)

AppendEntries(r) ==
  /\ r.rpc = "AppendEntries"
  /\ \/ RejectEntries(r)
     \/ MissEntries(r)
     \/ ConflictEntries(r)
     \/ AcceptEntries(r)
  /\ UNCHANGED <<votes, indexVars, persisted, boundVars>>

-----------------------------------------------------------------------------
(* The callers, once Call has returned true.                               *)

\* A candidate with a majority: leader, with nextIndex and matchIndex reset,
\* and one AppendEntries with all its fields zero to every peer.  (The reply
\* that made the majority is still counted in InFlight.)
BecomeLeader(i) ==
  /\ state' = [state EXCEPT ![i] = "Leader"]
  /\ nextIndex' = [nextIndex EXCEPT ![i] = [j \in Server |-> Len(log[i])]]
  /\ matchIndex' = [matchIndex EXCEPT ![i] = [j \in Server |-> 0]]
  /\ InFlight + Cardinality(Peers(i)) <= MaxCalls + 1
  /\ requests' = Send(requests, 
       {[rpc |-> "AppendEntries", src |-> i, dst |-> j, term |-> 0,
         prevLogIndex |-> 0, prevLogTerm |-> 0, entries |-> <<>>,
         leaderCommit |-> 0] : j \in Peers(i)})
  /\ UNCHANGED <<currentTerm, votedFor>>

\* A granted vote is counted whatever term it was granted in.
CountVote(i) ==
  /\ votes' = [votes EXCEPT ![i] = @ + 1]
  /\ IF Majority(votes[i] + 1) /\ state[i] = "Candidate"
     THEN BecomeLeader(i)
     ELSE UNCHANGED <<electionVars, indexVars, requests>>

sendRequestVote(c) ==
  LET i == c.req.src
  IN  /\ c.req.rpc = "RequestVote"
      /\ replies' = Take(replies, c)
      /\ \/ /\ c.term > currentTerm[i]
            /\ StepDown(i, c.term)
            /\ UNCHANGED <<votes, indexVars, requests>>
         \/ /\ c.term <= currentTerm[i]
            /\ IF c.ok THEN CountVote(i)
                       ELSE UNCHANGED <<electionVars, votes, indexVars, requests>>
      /\ UNCHANGED <<log, applyVars, persisted, boundVars>>

\* The indexes a leader may commit: of its own term, matched by a majority.
\* The loop goes down to commitIndex itself.
Committable(i, match) ==
  {n \in commitIndex[i]..LastIndex(log[i]) :
     /\ At(log[i], n).term = currentTerm[i]
     /\ Majority(Cardinality({j \in Server : match[j] >= n}))}

\* The commit loop: the highest such index, if there is one.
AdvanceCommit(i, match) ==
  \/ /\ Committable(i, match) = {}
     /\ UNCHANGED applyVars
  \/ \E n \in Committable(i, match) :
       /\ \A m \in Committable(i, match) : m <= n
       /\ ApplyUpTo(i, log[i], n)

\* A leader sees a higher term in the reply.
LeaderStepsDown(c) ==
  LET i == c.req.src
  IN  /\ c.term > currentTerm[i]
      /\ StepDown(i, c.term)
      /\ UNCHANGED <<indexVars, applyVars>>

BadHalf(n) == (n - 1) \div 2
Half(n) == n \div 2

\* The follower refused: try again from half of nextIndex.
BackOff(c) ==
  LET i == c.req.src
      j == c.req.dst
  IN  /\ c.term <= currentTerm[i]
      /\ ~c.ok
      /\ nextIndex[i][j] > 1
      /\ nextIndex' = [nextIndex EXCEPT ![i][j] = Half(@)]
      /\ UNCHANGED <<electionVars, matchIndex, applyVars>>

\* The last index a successful call has replicated.
BadReplicated(r) == Len(r.entries) + r.prevLogIndex + 1
Replicated(r) == Len(r.entries) + r.prevLogIndex

\* The follower accepted, or refused with nextIndex already 1.
Matched(c) ==
  LET i == c.req.src
      j == c.req.dst
      match == IF c.ok THEN Replicated(c.req) ELSE matchIndex[i][j]
  IN  /\ c.term <= currentTerm[i]
      /\ c.ok \/ nextIndex[i][j] <= 1
      /\ matchIndex' = [matchIndex EXCEPT ![i][j] = match]
      /\ nextIndex' = [nextIndex EXCEPT ![i][j] = IF c.ok THEN match + 1 ELSE @]
      /\ AdvanceCommit(i, matchIndex'[i])
      /\ UNCHANGED electionVars

sendAppendEntries(c) ==
  /\ c.req.rpc = "AppendEntries"
  /\ replies' = Take(replies, c)
  /\ \/ /\ state[c.req.src] # "Leader"
        /\ UNCHANGED <<electionVars, indexVars, applyVars>>
     \/ /\ state[c.req.src] = "Leader"
        /\ LeaderStepsDown(c) \/ BackOff(c) \/ Matched(c)
  /\ UNCHANGED <<votes, log, persisted, requests, boundVars>>

-----------------------------------------------------------------------------
(* The network and the tester.                                             *)

\* labrpc loses the calls i has outstanding, each in its request or in its
\* reply: Call returns false.
LoseCalls(i) ==
  /\ ~Quiet(i)
  /\ requests' = Keep(requests, {r \in CallsIn(requests) : r.src # i})
  /\ replies' = Keep(replies, {c \in CallsIn(replies) : c.req.src # i})
  /\ UNCHANGED <<electionVars, votes, log, indexVars, applyVars, persisted,
                 boundVars>>

\* What readPersist finds.
BadRecovered(i) == [Durable(i) EXCEPT !.votedFor = Nil]
Recovered(i) == IF LossyCrash THEN persisted[i] ELSE Durable(i)

\* crash1 and start1: the peer is made again from what its persister holds.
\* Nothing reaches the old instance any more.  What it sent may still arrive,
\* but the answers are lost.
Restart(i) ==
  LET saved == Recovered(i) IN
  /\ restarts < MaxRestarts
  /\ restarts' = restarts + 1
  /\ state' = [state EXCEPT ![i] = "Follower"]
  /\ currentTerm' = [currentTerm EXCEPT ![i] = saved.currentTerm]
  /\ votedFor' = [votedFor EXCEPT ![i] = saved.votedFor]
  /\ votes' = [votes EXCEPT ![i] = 0]
  /\ log' = [log EXCEPT ![i] = saved.log]
  /\ commitIndex' = [commitIndex EXCEPT ![i] = 0]
  /\ lastApplied' = [lastApplied EXCEPT ![i] = 0]
  /\ applied' = [applied EXCEPT ![i] = <<>>]
  /\ nextIndex' = [nextIndex EXCEPT ![i] = NilNext]
  /\ matchIndex' = [matchIndex EXCEPT ![i] = NilMatch]
  /\ requests' = OrphanRequests(
       Keep(requests, {r \in CallsIn(requests) : r.dst # i}), i)
  /\ replies' = Keep(replies, {c \in CallsIn(replies) : c.req.src # i})
  /\ persisted' = [persisted EXCEPT ![i] = saved]
  /\ UNCHANGED <<delivered, elections>>

-----------------------------------------------------------------------------
Next ==
  \/ \E i \in Server, command \in Command : Start(i, command)
  \/ \E i \in Server : persist(i)
  \/ \E i \in Server : becomeCandidate(i)
  \/ \E i \in Server : sendHeartBeats(i)
  \/ \E r \in CallsIn(requests) : RequestVote(r)
  \/ \E r \in CallsIn(requests) : AppendEntries(r)
  \/ \E c \in CallsIn(replies) : sendRequestVote(c)
  \/ \E c \in CallsIn(replies) : sendAppendEntries(c)
  \/ \E i \in Server : LoseCalls(i)
  \/ \E i \in Server : Restart(i)

Spec == Init /\ [][Next]_vars

-----------------------------------------------------------------------------
(* Properties.                                                             *)

Durables == [log : Seq(Entry), currentTerm : Nat, votedFor : Server \cup {Nil}]
ApplyMsg == [index : Nat, command : Command \cup {Nil}]

\* Every field of a peer, and everything in flight, keeps its Go type; in
\* particular no index or term becomes negative.
TypeOK ==
  /\ state \in [Server -> {"Follower", "Candidate", "Leader"}]
  /\ currentTerm \in [Server -> Nat]
  /\ votedFor \in [Server -> Server \cup {Nil}]
  /\ votes \in [Server -> Nat]
  /\ log \in [Server -> Seq(Entry)]
  /\ commitIndex \in [Server -> Nat]
  /\ lastApplied \in [Server -> Nat]
  /\ nextIndex \in [Server -> [Server -> Nat \ {0}]]
  /\ matchIndex \in [Server -> [Server -> Nat]]
  /\ persisted \in [Server -> Durables]
  /\ CallsIn(requests) \subseteq Request
  /\ CallsIn(replies) \subseteq Reply
  /\ applied \in [Server -> Seq(ApplyMsg)]
  /\ delivered \subseteq Nat \X (Command \cup {Nil})
  /\ elections \in Nat
  /\ restarts \in Nat

\* The dummy entry log[0] is never truncated or overwritten, in memory or in
\* the persister, so that log[len(log)-1] in becomeCandidate, RequestVote and
\* sendHeartBeats never indexes an empty slice.
DummyKept ==
  \A i \in Server : \A l \in {log[i], persisted[i].log} :
    Len(l) >= 1 /\ At(l, 0).term = 0

\* The terms in a log never decrease and never exceed the peer's own term,
\* although AppendEntries splices logs of leaders of different terms.
LogTermsOrdered ==
  \A i \in Server : \A m \in 0..LastIndex(log[i]) :
    /\ At(log[i], m).term <= currentTerm[i]
    /\ \A k \in 0..m : At(log[i], k).term <= At(log[i], m).term

\* Since it was made a peer sends every index to applyCh once and in order:
\* the tester's check "server %d applied index %d but expected %d".
AppliedInOrder ==
  \A i \in Server :
    /\ Len(applied[i]) = lastApplied[i]
    /\ \A k \in 1..Len(applied[i]) : applied[i][k].index = k

\* What a running peer promised it does not take back: its term does not
\* decrease, and within a term its vote does not change once it is given.
PromisesKept ==
  [][\A i \in Server :
       \/ restarts' # restarts
       \/ currentTerm'[i] > currentTerm[i]
       \/ /\ currentTerm'[i] = currentTerm[i]
          /\ votedFor[i] = Nil \/ votedFor'[i] = votedFor[i]]_vars

\* Two peers that are leader in the same term are the same peer: the check
\* "term %d has %d (>1) leaders" of the tester's checkOneLeader.
ElectionSafety ==
  \A i, j \in Server :
    state[i] = "Leader" /\ state[j] = "Leader" /\ currentTerm[i] = currentTerm[j]
      => i = j

\* Two logs that hold an entry of the same index and term are equal up to it.
LogMatching ==
  \A i, j \in Server :
    \A k \in 0..LastIndex(log[i]) \cap 0..LastIndex(log[j]) :
      At(log[i], k).term = At(log[j], k).term
        => Upto(log[i], k + 1) = Upto(log[j], k + 1)

\* No two peers, and no two incarnations of one, ever apply different commands
\* at the same index: what the tester's checkConsistency looks for.
StateMachineSafety ==
  \A d, e \in delivered : d[1] = e[1] => d = e

\* A leader that no peer has outrun in terms holds everything that was applied
\* anywhere.
LeaderCompleteness ==
  \A i \in Server :
    state[i] = "Leader" /\ (\A j \in Server : currentTerm[j] <= currentTerm[i])
      => \A d \in delivered :
           d[1] <= LastIndex(log[i]) /\ At(log[i], d[1]).command = d[2]

\* What a leader believes a follower of its term to hold, the follower holds.
MatchIndexSound ==
  \A i, j \in Server :
    state[i] = "Leader" /\ currentTerm[j] = currentTerm[i]
      => /\ matchIndex[i][j] <= LastIndex(log[j])
         /\ Upto(log[j], matchIndex[i][j] + 1) = Upto(log[i], matchIndex[i][j] + 1)

\* A running peer never gives up an entry it knows to be committed, and its
\* commitIndex never goes back.
CommittedStays ==
  [][\A i \in Server :
       \/ restarts' # restarts
       \/ /\ commitIndex'[i] >= commitIndex[i]
          /\ commitIndex[i] <= LastIndex(log'[i])
          /\ Upto(log'[i], commitIndex[i] + 1) = Upto(log[i], commitIndex[i] + 1)]_vars

=============================================================================
