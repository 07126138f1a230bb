# A TLA+ model of mr-and-raft

The repository holds five Go programs and two support libraries: a Raft peer
(`src/raft`), a lock service on top of it (`src/raft-lock`), MapReduce
(`src/mr`, `src/mr-main`), a bank (`src/bank`), weather-station aggregators
(`src/ws`), a simulated network (`src/labrpc`) and an encoder (`src/labgob`).
This directory models all of them but the encoder in TLA+, checks small instances
with TLC and proves theorems about them, for every instance, with TLAPS.

## 1. The system and its modules

| part of the system | specification | abstract specification | instance | proofs |
|---|---|---|---|---|
| Raft peer, `raft/raft.go` | `Raft`, `Calls` | | `MCRaft` | `RaftFacts`, `RaftProofs`, `RaftLogProofs`, `RaftFollowerProofs`, `RaftLeaderProofs`, `RaftSafetyProofs` |
| its ticker and channels | `RaftTicker` | | `MCRaftTicker` | `RaftFacts`, `RaftSafetyProofs` |
| lock service, `raft-lock` | `LockStore`, `LockServer`, `LockServerProps` | `LockService` | `MCLockServer` | `ServiceProofs` |
| MapReduce, `mr`, `mr-main` | `MapReduce` | | `MCMapReduce` | `GoroutineProofs` |
| bank, `bank/bank.go` | `Bank` | | `MCBank` | `GoroutineProofs` |
| aggregators, `ws` | `Weather`, `MutexAggregator`, `ChannelAggregator` | `Aggregator` | `MCAggregators` | `GoroutineProofs` |
| network, `labrpc/labrpc.go` | `LabRpc` | `AtMostOnce` | `MCLabRpc` | `ServiceProofs` |

`RaftHistory` has the definitions that the proofs about Raft share: the history of votes
and leaders, and the invariant about it (section 3).

How the parts interact. Raft peers and lock clients call one another through the
simulated network; each call is a goroutine. A lock server hands commands to its
Raft peer with `Start` and gets the chosen ones back on `applyCh`. MapReduce, the
bank and the aggregators stand alone.

What the layers assume of one another. `Raft` and `LockServer` let a call be
lost, delayed or answered too late and never run its handler twice; that is what
`LabRpc` is shown to provide (`AtMostOnce`). `LockServer` assumes that Raft
chooses one log. `Raft` provides that only in the environment of the run
`raft_agreement`; section 2 lists what the code does outside it.

Definitions whose name begins with `Bad` are faulty variants of the definition
that follows them. No specification uses them; each, put in the place of the
correct one, breaks a property, which shows that the property depends on it.

### Raft

State: a variable per field of the struct `Raft` (role, term, vote, vote count,
log, commitIndex, lastApplied, nextIndex, matchIndex), the saved state of the
`Persister`, and two bags of calls: `requests`, whose handler has not run, and
`replies`, whose handler has. `Calls` has the few operators on bags that are needed;
the module `Bags` of the proof system would bring the theorems about finite sets and
sequences into every step of every proof.

Actions: every critical section on `rf.mu`: `Start`, `becomeCandidate`,
`sendHeartBeats`, the handlers `RequestVote` and `AppendEntries`, the callers
`sendRequestVote` and `sendAppendEntries` that process replies, `persist`, and the
tester's crash and restart. Handling a request moves the call from one bag to the
other; handling the reply is another action. A peer that crashes takes the requests
addressed to it along, and the answers to its own calls are lost; what it sent may
still arrive (`src = Nil`). `LoseCalls` loses all that a peer has outstanding;
losing some of them is the same as handling the others first. `delivered` is a
history of everything ever applied. LeaderId and the dead flag are left out: no
handler reads the first, and a killed peer is one whose messages no longer arrive.
`applyCh` is always ready, as the tester's applier makes it.

What makes it hard: replies are handled by whatever the caller has become since;
the log is cut behind `PrevLogIndex` unconditionally; state is saved only at the
top of the ticker's loop; the ticker acts on a role it read before it waited.

Two constants choose the environment:

- `Prompt`: a call ends, or is lost, before a timer of its caller fires again.
  This is an assumption about the network that nothing in the code enforces. The
  runs `raft_stale_votes` and `raft_delayed_entries` show what happens without it.
- `LossyCrash`: a crash may come between a change and the next `persist()`. The
  run `raft_lossy_crash` shows what that does.

**RaftTicker** adds `ticker` (at the top, or in the `select` of a follower or
candidate, or in that of a leader) and `blocked`, the handlers that wait on the
unbuffered channels for their token to be taken. A reply can be handled only after
its handler has returned. Every step is one of `Raft` with what the ticker and the channels
add to it, or one of theirs alone.

### Lock service

`LockStore` holds the operators of `lockStore.go` on one queue of clerks per key,
and `Applied`, which is `applyToStateMachine` with its test for repeated requests.

State of `LockServer`: the log of the present leader and how much of it is chosen;
who leads, and who believes it; per server commitIndex, what was sent on `applyCh`
(a buffer of one), what `applyOpsLoop` has taken and where in its loop it is, the
store, the result channels; per clerk where its call is; which keys each clerk was
given. `ls.mu` is held while `stage` is not `"wait"`, `rf.mu` while a batch is being
sent.

Actions: Raft as the service sees it, external and correct (`Choose`, `Elect`,
`StepDown`, `Learn`, `Deliver`); one action per stage of `applyOpsLoop` with
`AskRole` and `GiveLock`, and the call of `ReceiveLock`, which arrives or is lost;
`Restart`; the clerk's `Call`; the handler `Mutex`, split at `Start`, `LookUp`,
`TakeResult` and `TimeOut`. A call of `Mutex` that is lost, or reaches a server that
does not lead, only makes the clerk try again.

What makes it hard: a command that timed out is still chosen, and is retried under
the same number; an index given out by one leader is taken by another leader's
command; the owner is told by one unreliable call; the apply loop asks Raft for its
role with `ls.mu` held while Raft sends on `applyCh` with `rf.mu` held.

`LockService` is the promise: clerks call Lock and Unlock on queues, each call takes
effect once, in order, between its beginning and its end. In the mapping the queues
are those after all chosen entries.

### MapReduce

State: the coordinator's task table, its two counters, the sleeping
`DetectStraggler` timers; per worker where it is in `Worker`, `DoMap` or `DoReduce`;
the intermediate files as sequences of records, the output files as sets of lines.
Since an output file is a set, the offsets of two workers that write one file at
the same time are not represented; `OutputRight` excludes that case.

Actions: `GetTask` (`Assign`, `Dismiss`; a reply without a task only makes the worker
ask again), `DetectStraggler`, `MarkComplete`, the coordinator's exit, a failed call,
and one action per file created, read, or written to. A worker may die between any
two. `Emit` and `Part` stand for the map function and `ihash`; a line holds a key and
the bag of its values, on which a reduce function works.

### Bank

State: the accounts, a mutex each, the bank's mutex, and one goroutine per call with
its program counter and the balance it has read. Actions: one per piece of code
between two mutex operations, and reading and writing a balance are separate. A
panic leaves the mutexes as they are. `GetBalance` reads the map without the bank's
mutex; while an account is inserted it may find it, miss it, or be stopped by the Go
runtime (`FindAccount`).

### Aggregators

`Weather` has what both designs share: stations that answer early, late or never,
the ticker with its channel of one, the reader of `out`, who may leave, the sender
of `quit`, and the loop's tick, average and quit. `MutexAggregator` and
`ChannelAggregator` add when the loop holds the mutex, and how a report is handed
over. `Aggregator` is the promise: batches are published in order, each with a set
of reports of that batch only, and nothing after the end.

### Network

State of `LabRpc`: the fields of `Network`, and for each call where it is in `Call` and
`processReq`, what `readEndnameInfo` returned, and its handler's goroutine. Actions:
the tester's operations (`MakeEnd`, `AddServer`, `DeleteServer`, `Connect`, `Enable`,
`Reliable`, `Cleanup`) and every step of a call, the drops, the poll for a dead server
and the goroutine that drains the handler's channel included. Delays are steps taken
late. `AtMostOnce` is the promise.

## 2. What TLC checks

| run | instance | shows |
|---|---|---|
| `raft_agreement` | 3 peers, 2 commands, 2 elections, 1 restart, `Prompt`, no lossy crash; from the start, and from two diverged logs | `ElectionSafety`, `LogMatching`, `StateMachineSafety`, `LeaderCompleteness`, `MatchIndexSound`, `CommittedStays` hold |
| `raft_faulty` | 2 peers, 2 elections, 2 entries, 1 lossy restart, any delay | `TypeOK`, `DummyKept`, `LogTermsOrdered`, `AppliedInOrder`, `PromisesKept` hold |
| `raft_ticker` | 2 peers, 1 call in flight, 1 lossy restart | `TickerTypeOK`, `HandlersReturn`, `TimerSet` hold |
| `raft_stale_votes` | 3 peers, 3 elections, any delay, no crash | `ElectionSafety` fails |
| `raft_delayed_entries` | 3 peers, 2 elections, any delay, no crash | `StateMachineSafety` fails |
| `raft_lossy_crash` | 3 peers, `Prompt`, 1 lossy restart | `ElectionSafety` fails |
| `raft_leader_office` | 3 peers, no loss, no crash | `LeaderKeepsOffice` fails |
| `lock_service` | 2 servers, 2 clerks, 1 key; entries, elections (1) and restarts (1) together at most 3 | `StoresAgree`, `OneHolder`, `CallsFinish`, `ImplementsLockService`, `HandlersReturn` hold |
| `mapreduce` | 2 workers, 2 maps, 2 reduces, 4 pairs of 3 keys, 1 crash, 1 timer that fires on a live worker | `CountersExact`, `OneTimer`, `ReduceAfterMap`, `ExitWhenDone`, `OutputRight`, `JobEnds` hold |
| `bank` | 3 calls, each one of 7, on 2 accounts that exist or not | `NoLostUpdate`, `Exclusive`, `NoOverdraft`, `StuckBehindFault`, `BalancesExplained`, `CompareCount`, `CallsReturn` hold |
| `aggregators` | 2 stations, 2 batches, both designs | `AverageRight`, `ImplementsAggregator`, `QuitEnds`, `GoroutinesEnd` hold |
| `labrpc` | 1 call, 1 end, 2 names, 3 server objects | `ReplyFromTheLiving`, `ImplementsAtMostOnce`, `CallsReturn`, `HandlersEnd` hold |

### Bounds

Every bound is a constant that a guard uses. Because bounds, finished calls and
finished jobs let a model stop, deadlock is not checked; waiting for ever is asked
about by the liveness properties and by `StuckBehindFault`.

- Raft. Three peers are the smallest cluster with a majority that is not everybody. Two
  elections let two leaders write different entries at the same index, and one of them
  overwrite the other's. To repair a log at an index before its last takes a third leader,
  which is far from the start; `MCSpec` of `MCRaft` therefore begins also in a state that
  `Raft` reaches in eleven steps, with an entry of term 1 in one log and one of term 2 in
  another, and one more election to come. From there logs get entries of two terms, and
  are cut and filled up again. To stay small, a leader of this run appends one entry in a
  term, and logs have two entries only in the third term, which is without restarts
  (`MCWithin`); at most three calls are in flight. `raft_faulty` has no such restriction: with two peers its logs have entries of
  two terms, two indexes are applied, nextIndex is halved, and commitIndex falls below
  lastApplied. Peers and commands are symmetric. The persister is tracked only while a
  restart that reads it is possible. In `raft_ticker` one handler waits at a time.
- Lock service. Three entries without an election fill `applyCh` and wedge a server;
  two entries with an election let one command be chosen twice, or an index change
  hands; one entry with an election and a restart is replayed by a server whose role
  changed. One clerk locks and unlocks, the other waits for the key meanwhile.
- MapReduce. A straggler, its replacement and a crash can all be in one behaviour; one
  key is emitted by both maps and the keys of one map go to both reduces.
- Bank. Opposite transfers, a transfer to oneself, a missing account, an overdraft,
  and an insertion during a read; three calls are enough for two that interfere and
  one that waits for them.
- Aggregators. A report of the first batch can arrive in the second, and both stations
  can be late; readings are powers of two, so that no two sets have one sum.
- Network. Calls share the network's tables and nothing else, and no call changes
  them, so that one call meets all that several would. Three server objects under two
  names are enough for a server to be deleted, replaced, and connected elsewhere.

### Fairness

- `raft_ticker`: the ticker goroutine is scheduled and its timer fires (weak fairness of
  `TickerTop`, `HeartBeatTimeout`); a Go `select` picks at random among the ready
  channels (strong fairness of receiving from each). Nothing is assumed of the network,
  the clients or the election timer.
- `lock_service`: the goroutines of a server are scheduled, its timers fire (weak
  fairness of delivering or taking an entry, and of each handler). Nothing is assumed
  of clerks, network and elections.
- `mapreduce`: a live worker goes on, timers fire, the main program looks at `Done`.
- `bank`: strong fairness of each goroutine's step, because `sync.Mutex` starves no
  waiter.
- `aggregators`: weak fairness of sending to a reader that is there, strong fairness of
  receiving `quit` (random `select`) and of handing over each report (mutex, or random
  `select`). Stations and ticks are not assumed to come.
- `labrpc`: weak fairness of the network's goroutines for each call. A handler may never
  return.

### Where the code and its documents disagree

Four runs show what a document says to fail:

1. *Stale votes* (`raft.go:366-367`). A granted vote is counted whatever election
   it was granted in. A candidate whose election timed out counts late votes in
   the next one, and two peers lead one term.
2. *Delayed AppendEntries* (`raft.go:455`). A late heartbeat of the same term cuts
   off entries that its sender has since counted as replicated and committed. The
   next leader may then put another command at that index.
3. *Late persist* (`raft.go:197`). `persist` runs at the top of the ticker's loop,
   not with each change. A peer that answers and crashes forgets its vote.
4. *A leader that runs for election* (`raft.go:196`, `212-219`). A candidate that
   wins while its ticker still waits starts another election when the timer fires.

In the other programs the properties say exactly how far the code goes, and the rest
is outside them:

- `OneHolder` holds while one leader serves. After a change of leader two servers may
  each tell a clerk that it has the key: a replica that becomes leader while it applies
  an old entry gives the key to that entry's owner, who may have unlocked it since.
- `HandlersReturn` does not exclude that a server is wedged: with three unfinished entries
  Raft, which holds `rf.mu`, waits for the apply loop, which waits for `rf.mu`. `CallsFinish`
  says whose entries these can be while one leader serves: those of clerks that have not
  been answered. With fewer than three clerks it takes a call that was sent again because
  it timed out; the run has two, and reaches it.
- `OutputRight` holds unless a task was given to a second worker while the first was
  still at work on it. Then both write the same files in place.
- `CompareCount` bounds the number that the test of `DepositAndCompare` expects to be
  exact: another deposit between the deposit and the comparison makes it smaller.
- `StuckBehindFault` and `CallsReturn` exempt panics with the bank's mutex held and a
  transfer from an account to itself, both of which lock the bank for good.
- `QuitEnds` and `GoroutinesEnd` exempt a loop that waits for a reader of `out` that has
  left, and the goroutines of the channel version once the loop has returned.

## 3. What is proved

All theorems hold for every value of the constants that the named assumptions of the
modules allow: sets of any size, any bounds. None of them uses fairness.

**Raft** (`Server` finite and not empty). The modules form a chain, `RaftHistory`,
`RaftFacts`, `RaftLogProofs`, `RaftFollowerProofs`, `RaftLeaderProofs`; `RaftProofs` extends
`RaftFacts` beside it, and `RaftSafetyProofs` joins the two and states the conclusions.

In `RaftProofs`, for both values of `Prompt` and of `LossyCrash`:

- `TypeCorrect`, `DummyIsKept`. `DummyKept` is not inductive: a call that names index 0
  with a term other than 0 would make the conflict branch empty the log. `StructInv`
  adds that every call in flight that names index 0 names term 0 (`HeartBeatsAnchored`)
  and that only awaited calls have replies (`RepliesAwaited`). One lemma per action,
  then `Structure`.
- `PromisesAreKept`, an action property, from `StructInv`.
- `AppliesInOrder`: both apply loops continue at `lastApplied + 1`, so each step appends
  the next indexes.
- `LogTermsAreOrdered`. The strengthening `OrderInv` adds that saved logs are ordered
  below the saved term, and that the entries of every call have terms that grow from
  `PrevLogTerm` to the sender's term.

In `RaftSafetyProofs`, under `Prompt` and `~LossyCrash`: `ElectionsAreSafe`,
`LogsAreMatching`, `StateMachinesAreSafe`, `LeadersAreComplete`, `MatchIndexesAreSound` and the
action property `CommittedEntriesStay`. The runs `raft_stale_votes`, `raft_delayed_entries`
and `raft_lossy_crash` show that neither assumption can be dropped. None of these
properties is inductive, because what protects a committed entry is what peers did in
terms they have left, and the state forgets that. The invariant is therefore
`Past == \E V, h : Ballots(V) /\ Agreement(V, h)`: some past explains the present state.
`V[t][p]` is whom peer `p` voted for in term `t`. For each term `h` keeps its leader, the
log it was elected with (`base`), its log when it last led (`log`), and how much of that
log each peer has taken over from it (`ack`). A step of the code takes `V` to `Recall(V)`,
and `h` to a history that continues it: with a leader more (`Elects`), an entry more in a
leader's log (`Appends`), more of it taken over by a peer (`TakesOver`), or as it was.

- `Ballots` (elections). A call of `RequestVote` is in flight at most once for a caller
  and a peer, and it belongs to the caller's present candidacy if there is one
  (`CallsOnce`). A vote on its way was given (`Given`). `votes[i]` is at most the number
  of peers that voted for `i` in its term and that it no longer waits for (`Counted`).
  `V` has one vote for a peer and a term, so two leaders of a term would share a voter.
  This is where `Prompt` is needed: `sendRequestVote` does not compare terms.
- `Genuine` (matching). Every entry in a log stands behind the same entries as in the log
  of the leader of its term. Two logs that agree at an index agree with that leader's.
- `Blocked`, `Holds`, `Complete`, `Convinced` (completeness). An entry `k` that the leader of
  term `u` made itself (`Own`) is blocked when a quorum has left term `u` without having
  taken it over; it can then never be chosen. Whatever a peer has taken over it
  still has in later terms, later leaders were elected with it, and a vote goes only to
  candidates whose log is beyond it, in each case unless the entry is blocked. The step
  that takes the argument is the election (`PeersElect`): the quorum of a new leader either
  blocks the entry or contains a voter whose vote carries it over. Saying "unless
  blocked" rather than "if chosen" is what makes the invariant inductive, since entries
  become chosen later.
- `Carries`, `GoodRequest`, `GoodReply`, `Alike` (calls). `AppendEntries` cuts the log behind
  `prevLogIndex` whether it conflicts or not, so what keeps a peer's entries is that a
  heartbeat under way always reaches to the end of what the peer has taken over in that
  term. This needs `Prompt`, and fails in `raft_delayed_entries`.
- `Indexes`, `Commits`. `matchIndex` is at most `ack`. Commit indexes and what was applied
  are explained by an entry that a quorum has taken over (`Chosen`), which is not blocked
  because quorums meet.

The proofs of the steps are in `RaftLogProofs` (what a new history means for the logs),
`RaftFollowerProofs` (answering, losing calls, restarting; also what `Past` says of the
state) and `RaftLeaderProofs` (candidates, leaders, and the callers that process replies).
They use only that quorums meet and that sets of peers can be counted (`QuorumsMeet`,
`Counting`), which `RaftSafetyProofs` proves with the theorems about finite sets.

Of the peer with its ticker, also in `RaftSafetyProofs`:

- `TickerKeepsOrder` and `TickerIsSafe` carry the theorems above over, by the lemma
  `TickerIsRaft`.
- `HandlersReplyLater`, for any network and any crash: a caller does not get the reply of
  a handler that still waits for its ticker. The invariant is `Waiting` (in `RaftFacts`):
  it adds to `TickerTypeOK` that replies, and the handlers somebody waits for, have a
  positive number of copies. Handlers that lost their caller are exempt: a restart
  turns many of them into one, and nothing says that there are finitely many.

**Lock service** (`ServiceProofs`; any servers, clerks, keys and scripts, any number of
elections, restarts, timeouts and retries).

- `Order`: taken, sent, commit, chosen and the length of the log are in that order, and
  clerks are where their calls can be. All of the following use it.
- `CallsAreFinished` from `Steady`: while the first leader serves, a handler waits for the
  last entry of its clerk (`LastEntry`), and a channel holds the result of an entry that is
  finished (`Serving`). So a clerk that is answered has no unfinished entry left, and
  what is unfinished belongs to the present call of its clerk (`Pending`).
- `StoresAlwaysAgree` from `Order` and `History`: the history of the machine is what the
  chosen entries make of the empty one, and each replica stands at one of its points.
  A restart goes back to the first point, which is why the request numbers must be
  rebuilt from the log too.
- `ServiceIsImplemented`, the refinement, needs `Effects` in addition: entries are calls
  of the script that have begun; only the present call of a clerk may not have taken
  effect; it has when it has returned, and when an entry for it is chosen. The step that
  takes the argument is `TakeResult`: a handler that finds its own operation under its
  index returns a call that took effect.

**MapReduce** (`GoroutineProofs`; any workers, tasks, crashes and stragglers).

- `CountersAreExact`, `TimersAreCurrent`: `Table` is inductive by itself. A timer is
  started when a task leaves `unstarted` and resets it only while it is in progress; that
  leaves one timer per assignment, and each task is counted once.
- `ReduceFollowsMap`, `ExitsAreRight`: `Placed` says where a worker can be with its task,
  `Files` which files exist by then. A task is completed only by a worker at `mark`, who
  has created all of its files, and files are never removed.

**Bank** (`GoroutineProofs`; any clients, accounts and calls).

- `BankInv` is types, `Holding`, `Reached`, `NoLostUpdate` and `NoOverdraft`. `Holding` says
  that mutexes are held where the program text says so, and otherwise only by
  goroutines that panicked or were killed; `Reached` says what a call has established at
  each place (the accounts exist, the two of a transfer differ, there was enough).
- `UpdatesAreKept`, `CallsExclude`, `BalancesStayPositive` follow from it.
- `OnlyFaultsBlock`, with `KilledTogether` (the runtime ends all goroutines at once): when
  every call is finished or waits, follow the mutexes. The holder of an account waits
  only in a transfer for its receiver, with the bank's mutex held; that mutex has one
  holder, so the second account is free, its own, or the holder panicked.

**Aggregators** (`GoroutineProofs`): `MutexImplements`, `ChannelImplements`. Every step of
either design is one of the common steps of `Weather`; `Reports` says that a station whose
report is in the pool has no other one to hand over for the batch.

**Network** (`ServiceProofs`): `RepliesFromTheLiving`, `CallsAreHandledOnce` from `RpcInv`.
Server objects are numbered and never put back under a name, so a server that
`isServerDead` finds in the network was there when its handler returned.

### Only model-checked

- `OneHolder` of the lock service. It depends on the scripts: a clerk that calls Unlock
  while it still waits for the key may be told afterwards that it has it. To exclude that,
  what the clerks were told must be related to what is in the queues, and `unlock` filters
  a queue, which takes induction over it.
- `BalancesExplained`, `CompareCount`, `AverageRight`, `OutputRight`: sums and contents of
  files, which take induction over data.
- All liveness: `HandlersReturn`, `TimerSet`, `JobEnds`, `CallsReturn`, `QuitEnds`, `GoroutinesEnd`,
  `HandlersEnd`. Fairness is out of the proof system's reach.

## 4. What is not modelled

- `labgob` (a wrapper around `encoding/gob` without state of interest), the map and reduce
  functions in `mr-main/mrapps` (pure functions over strings), sockets and plugins.
- The counters of `labrpc`, the lengths of its delays, and dispatch by reflection.
- The testers' set-up, statistics and event checks; what they check is stated as
  properties where a property can say it.
- Snapshots of the persister, which `raft.go` never writes.
- Data races of the Go memory model, but for the one in `GetBalance`.
- In `LockServer`, an entry that a deposed leader appended after its successor was elected is
  not followed up, and a call of `ReceiveLock` under way is lost when its sender is restarted.
- Raft below the lock service: `LockServer` uses a log that is chosen once, and none of the
  four disagreements above.
