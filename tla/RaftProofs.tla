----------------------------- MODULE RaftProofs -----------------------------
(***************************************************************************)
(* Proofs about Raft, for any number of peers, any commands, any bounds,   *)
(* any network and any crash: the structure of a peer and of the calls     *)
(* under way; it keeps its promises while it runs, it applies in order,    *)
(* and the terms in its log are ordered.  Elections are safe if calls end  *)
(* before a timer of their caller fires and crashes lose no promise.       *)
(***************************************************************************)
EXTENDS RaftFacts

\* Leaves are first-order unless they say otherwise.
USE ZenonT(60)

-----------------------------------------------------------------------------
(* What sending, taking and losing calls does to those that are under way.*)

\* No call is under way in a new network.
LEMMA NoneYet == CallsIn(NoCalls) = {}
  BY DEF NoCalls, CallsIn

\* An orphaned request is still a request.
LEMMA OrphanedType ==
  ASSUME NEW r \in Request, NEW i \in Server
  PROVE  Orphaned(r, i) \in Request
  BY DEF Orphaned, Request, RequestVoteArgs, AppendEntriesArgs

-----------------------------------------------------------------------------
(* Types.                                                                  *)

\* A suffix of a log holds entries.
LEMMA FromType ==
  ASSUME NEW l \in Seq(Entry), NEW k \in Nat, k <= Len(l)
  PROVE  From(l, k) \in Seq(Entry)
  BY SMTT(60) DEF From

\* Truncating an anchored log anywhere behind its first entry, and appending
\* to it, keeps it anchored.
LEMMA UptoAnchored ==
  ASSUME NEW l, Anchored(l), NEW k \in Nat, 1 <= k, k <= Len(l)
  PROVE  Anchored(Upto(l, k)) /\ Len(Upto(l, k)) = k
  BY SMTT(60) DEF Anchored, Upto, At

\* Appending a leader's entries keeps the dummy entry.
LEMMA ConcatAnchored ==
  ASSUME NEW l, Anchored(l), NEW m \in Seq(Entry)
  PROVE  Anchored(l \o m) /\ Len(l \o m) = Len(l) + Len(m)
  BY SMTT(60) DEF Anchored, At

\* Appending one entry keeps the dummy entry.
LEMMA AppendAnchored ==
  ASSUME NEW l, Anchored(l), NEW e \in Entry
  PROVE  Anchored(Append(l, e))
  BY SMTT(60) DEF Anchored, At

\* The last entry of an anchored log exists, and the term a heartbeat names is
\* that of an entry.
LEMMA LastType ==
  ASSUME NEW l, Anchored(l)
  PROVE  LastIndex(l) \in Nat /\ At(l, LastIndex(l)).term \in Nat
  <1>1. LastIndex(l) \in Nat /\ LastIndex(l) < Len(l)
    BY SMTT(60) DEF Anchored, LastIndex
  <1>2. At(l, LastIndex(l)) \in Entry
    BY <1>1, AtType DEF Anchored
  <1>3. QED  BY <1>1, <1>2 DEF Entry

\* The term a heartbeat names is a number, and 0 when it names index 0.
LEMMA PrevLogTermType ==
  ASSUME NEW l, Anchored(l), NEW next \in Nat \ {0}
  PROVE  PrevLogTerm(l, next) \in Nat /\ (next = 1 => PrevLogTerm(l, next) = 0)
  <1>1. CASE next < Len(l)
    <2>1. At(l, next - 1) \in Entry
      BY <1>1, AtType, SMTT(60) DEF Anchored
    <2>2. QED  BY <1>1, <2>1, SMTT(60) DEF PrevLogTerm, Entry, Anchored
  <1>2. CASE ~(next < Len(l))
    <2>0. Len(l) \in Nat /\ Len(l) >= 1
      BY SMTT(60) DEF Anchored
    <2>1. next = 1 => Len(l) = 1
      BY <1>2, <2>0, SMTT(60)
    <2>2. QED  BY <1>2, <2>1, LastType, SMTT(60) DEF PrevLogTerm, LastIndex, Anchored
  <1>3. QED  BY <1>1, <1>2

\* In the initial state nothing is in flight and every log is the dummy entry.
LEMMA StructInit == Init => StructInv
  <1> SUFFICES ASSUME Init PROVE StructInv
    OBVIOUS
  <1>1. Dummy \in Entry /\ <<Dummy>> \in Seq(Entry)
    BY SMTT(60) DEF Dummy, Entry
  <1>2. TypeOK
    BY <1>1, NoneYet, SMTT(60) DEF Init, TypeOK, Durables, NilNext, NilMatch
  <1>3. DummyKept
    <2>1. Len(<<Dummy>>) >= 1 /\ At(<<Dummy>>, 0).term = 0
      BY SMTT(60) DEF Dummy, At
    <2>2. \A i \in Server : log[i] = <<Dummy>> /\ persisted[i].log = <<Dummy>>
      BY DEF Init
    <2>3. QED  BY <2>1, <2>2 DEF DummyKept
  <1>4. HeartBeatsAnchored
    BY NoneYet DEF Init, HeartBeatsAnchored
  <1>5. RepliesAwaited
    BY NoneYet DEF Init, RepliesAwaited
  <1>6. QED  BY <1>2, <1>3, <1>4, <1>5 DEF StructInv

-----------------------------------------------------------------------------
(* What the steps do to the calls in flight.                               *)

\* Sending well-formed requests.
LEMMA SendKeeps ==
  ASSUME CallInv, NEW S, S \subseteq Request,
         \A r \in S : r.rpc = "AppendEntries" /\ r.prevLogIndex = 0
                        => r.prevLogTerm = 0,
         requests' = Send(requests, S),
         CallsIn(replies') \subseteq CallsIn(replies)
  PROVE  CallInv'
  <1>1. CallsIn(requests') = CallsIn(requests) \cup S
    BY SentCalls
  <1>2. QED  BY <1>1 DEF CallInv, HeartBeatsAnchored, RepliesAwaited

\* A handler answers the request it took.
LEMMA AnswerKeeps ==
  ASSUME CallInv, NEW r \in CallsIn(requests), NEW t \in Nat,
         NEW ok \in BOOLEAN, Answer(r, t, ok)
  PROVE  CallInv'
  <1> DEFINE c == [req |-> r, term |-> t, ok |-> ok]
  <1>1. CallsIn(requests') \subseteq CallsIn(requests)
    BY TakenCalls DEF Answer
  <1>2. r \in Request /\ c \in Reply
    BY DEF CallInv, Reply
  <1>3. CASE r.src = Nil
    BY <1>1, <1>3 DEF CallInv, HeartBeatsAnchored, RepliesAwaited, Answer
  <1>4. CASE r.src # Nil
    <2>1. CallsIn(replies') = CallsIn(replies) \cup {c}
      BY <1>4, SentCalls DEF Answer
    <2>2. c.req.src \in Server
      BY <1>2, <1>4 DEF Request, RequestVoteArgs, AppendEntriesArgs
    <2>3. QED
      BY <1>1, <1>2, <2>1, <2>2 DEF CallInv, HeartBeatsAnchored, RepliesAwaited
  <1>5. QED  BY <1>3, <1>4

\* No call appears.
LEMMA FewerKeeps ==
  ASSUME CallInv, CallsIn(requests') \subseteq CallsIn(requests),
         CallsIn(replies') \subseteq CallsIn(replies)
  PROVE  CallInv'
  BY DEF CallInv, HeartBeatsAnchored, RepliesAwaited

\* A restart: calls vanish or lose their caller.
LEMMA RestartKeeps ==
  ASSUME CallInv, NEW i \in Server,
         requests' = OrphanRequests(
           Keep(requests, {r \in CallsIn(requests) : r.dst # i}), i),
         replies' = Keep(replies, {c \in CallsIn(replies) : c.req.src # i})
  PROVE  CallInv'
  <1>1. CallsIn(replies') \subseteq CallsIn(replies)
    BY KeptCalls
  <1>2. \A q \in CallsIn(requests') :
          \E r \in CallsIn(requests) : q = Orphaned(r, i)
    BY KeptCalls, OrphanedCalls, SMTT(60)
  <1>3. ASSUME NEW q \in CallsIn(requests')
        PROVE  /\ q \in Request
               /\ q.rpc = "AppendEntries" /\ q.prevLogIndex = 0
                    => q.prevLogTerm = 0
    <2>1. PICK r \in CallsIn(requests) : q = Orphaned(r, i)
      BY <1>2
    <2>2. r \in Request
      BY DEF CallInv
    <2>3. q \in Request
      BY <2>1, <2>2, OrphanedType
    <2>4. /\ q.rpc = r.rpc
          /\ r.rpc = "AppendEntries" => /\ q.prevLogIndex = r.prevLogIndex
                                        /\ q.prevLogTerm = r.prevLogTerm
      BY <2>1, <2>2 DEF Orphaned, Request, RequestVoteArgs, AppendEntriesArgs
    <2>5. QED  BY <2>3, <2>4 DEF CallInv, HeartBeatsAnchored
  <1>4. QED  BY <1>1, <1>3 DEF CallInv, HeartBeatsAnchored, RepliesAwaited

-----------------------------------------------------------------------------
(* What the steps do to the peers.                                         *)

\* A peer's log becomes l, and l is anchored.
LEMMA LogKeeps ==
  ASSUME LogTypes, DummyKept, NEW i \in Server, NEW l, Anchored(l),
         log' = [log EXCEPT ![i] = l], persisted' = persisted
  PROVE  LogTypes' /\ DummyKept'
  <1>1. LogTypes'
    BY DEF LogTypes, Anchored
  <1>2. \A j \in Server : log'[j] \in {log[j], l} /\ persisted'[j] = persisted[j]
    BY DEF LogTypes
  <1>3. DummyKept'
    BY <1>2, SMTT(60) DEF DummyKept, Anchored
  <1>4. QED  BY <1>1, <1>3

\* Steps that leave logs and persisters alone keep what is known of them.
LEMMA LogStays ==
  ASSUME LogTypes, DummyKept, log' = log, persisted' = persisted
  PROVE  LogTypes' /\ DummyKept'
  BY DEF LogTypes, DummyKept

\* Stepping down keeps the types of state, term and vote.
LEMMA StepDownKeeps ==
  ASSUME ElectionTypes, NEW i \in Server, NEW t \in Nat, StepDown(i, t)
  PROVE  ElectionTypes'
  BY DEF ElectionTypes, StepDown

\* Observing a term keeps the types of state, term and vote.
LEMMA ObserveTermKeeps ==
  ASSUME ElectionTypes, NEW i \in Server, NEW t \in Nat, ObserveTerm(i, t)
  PROVE  ElectionTypes'
  BY StepDownKeeps DEF ElectionTypes, ObserveTerm, electionVars

\* The ApplyMsgs an apply loop sends.
Messages(l, from, c) ==
  [k \in 1..(c - from) |->
     [index |-> from + k, command |-> At(l, from + k).command]]

\* They are well formed when the loop stays within the log.
LEMMA MessagesType ==
  ASSUME NEW l \in Seq(Entry), NEW from \in Nat, NEW c \in Nat, c <= LastIndex(l)
  PROVE  /\ Messages(l, from, c) \in Seq(ApplyMsg)
         /\ Len(Messages(l, from, c)) = IF c > from THEN c - from ELSE 0
         /\ \A k \in 1..(c - from) :
              from + k \in Nat /\ At(l, from + k).command \in Command \cup {Nil}
  <1> DEFINE msgs == Messages(l, from, c)
             n == IF c > from THEN c - from ELSE 0
  <1>1. 1..(c - from) = 1..n /\ n \in Nat
    BY SMTT(60)
  <1>2. ASSUME NEW k \in 1..(c - from)
        PROVE  from + k \in Nat /\ At(l, from + k).command \in Command \cup {Nil}
    <2>1. from + k \in Nat /\ from + k < Len(l)
      BY SMTT(60) DEF LastIndex
    <2>2. At(l, from + k) \in Entry
      BY <2>1, AtType
    <2>3. QED  BY <2>1, <2>2 DEF Entry
  <1>3. msgs \in [1..n -> ApplyMsg]
    BY <1>1, <1>2 DEF ApplyMsg, Messages
  <1> HIDE DEF msgs, n
  <1>4. msgs \in Seq(ApplyMsg) /\ Len(msgs) = n
    BY <1>1, <1>3, SMTT(60)
  <1>5. QED  BY <1>2, <1>4 DEF msgs, n

\* Applying what is in the log keeps the messages well formed.
LEMMA ApplyKeeps ==
  ASSUME ApplyTypes, NEW i \in Server, NEW l \in Seq(Entry), NEW c \in Nat,
         c <= LastIndex(l), ApplyUpTo(i, l, c)
  PROVE  ApplyTypes'
  <1> DEFINE from == NextToApply(i) - 1
             msgs == Messages(l, from, c)
  <1>1. from \in Nat
    BY SMTT(60) DEF ApplyTypes, NextToApply
  <1>2. /\ msgs \in Seq(ApplyMsg)
        /\ \A k \in 1..(c - from) :
             from + k \in Nat /\ At(l, from + k).command \in Command \cup {Nil}
    BY <1>1, MessagesType
  <1>3. /\ commitIndex' = [commitIndex EXCEPT ![i] = c]
        /\ lastApplied' = [lastApplied EXCEPT ![i] = IF c > @ THEN c ELSE @]
        /\ applied' = [applied EXCEPT ![i] = @ \o msgs]
        /\ delivered' = delivered \cup
             {<<from + k, At(l, from + k).command>> : k \in 1..(c - from)}
    BY DEF ApplyUpTo, Messages
  <1> HIDE DEF msgs
  <1>4. applied' \in [Server -> Seq(ApplyMsg)]
    <2>1. applied[i] \o msgs \in Seq(ApplyMsg)
      BY <1>2, SMTT(60) DEF ApplyTypes
    <2>2. QED  BY <1>3, <2>1 DEF ApplyTypes
  <1>5. delivered' \subseteq Nat \X (Command \cup {Nil})
    <2> HIDE DEF from
    <2>1. QED  BY <1>2, <1>3, SMTT(60) DEF ApplyTypes
  <1>6. commitIndex' \in [Server -> Nat] /\ lastApplied' \in [Server -> Nat]
    BY <1>3 DEF ApplyTypes
  <1>7. QED  BY <1>4, <1>5, <1>6 DEF ApplyTypes

-----------------------------------------------------------------------------
(* StructInv is inductive: one lemma for each action.                      *)

\* Start appends behind the dummy entry.
LEMMA StructStart ==
  ASSUME StructInv, NEW i \in Server, NEW command \in Command, Start(i, command)
  PROVE  StructInv'
  <1> USE StructParts
  <1> DEFINE e == [term |-> currentTerm[i], command |-> command]
  <1>1. Anchored(log[i]) /\ e \in Entry
    BY LogAnchored DEF ElectionTypes, Entry
  <1>2. Anchored(Append(log[i], e))
    BY <1>1, AppendAnchored
  <1>3. LogTypes' /\ DummyKept'
    BY <1>2, LogKeeps DEF Start
  <1>4. Len(log[i]) \in Nat
    BY <1>1, SMTT(60) DEF Anchored
  <1>5. IndexTypes'
    BY <1>4, SMTT(60) DEF Start, IndexTypes
  <1>6. ElectionTypes' /\ ApplyTypes' /\ CountTypes'
    BY DEF Start, electionVars, applyVars, boundVars, ElectionTypes, ApplyTypes,
           CountTypes
  <1>7. CallInv'
    BY FewerKeeps DEF Start, callVars
  <1>8. QED  BY <1>3, <1>5, <1>6, <1>7, StructPartsPrime

\* persist() copies a log that begins with the dummy entry.
LEMMA StructPersist ==
  ASSUME StructInv, NEW i \in Server, persist(i)
  PROVE  StructInv'
  <1> USE StructParts
  <1>1. Durable(i) \in Durables
    BY DEF Durable, Durables, LogTypes, ElectionTypes
  <1>2. LogTypes'
    BY <1>1 DEF persist, LogTypes
  <1>3. \A j \in Server : persisted'[j].log \in {persisted[j].log, log[j]}
    BY DEF persist, LogTypes, Durable
  <1>4. DummyKept'
    BY <1>3, SMTT(60) DEF persist, DummyKept
  <1>5. ElectionTypes' /\ IndexTypes' /\ ApplyTypes' /\ CountTypes'
    BY DEF persist, electionVars, indexVars, applyVars, boundVars,
           ElectionTypes, IndexTypes, ApplyTypes, CountTypes
  <1>6. CallInv'
    BY FewerKeeps DEF persist, callVars
  <1>7. QED  BY <1>2, <1>4, <1>5, <1>6, StructPartsPrime

\* becomeCandidate sends well-formed vote requests of the new term.
LEMMA StructCandidate ==
  ASSUME StructInv, NEW i \in Server, becomeCandidate(i)
  PROVE  StructInv'
  <1> USE StructParts
  <1> DEFINE S == {[rpc |-> "RequestVote", src |-> i, dst |-> j,
                    term |-> currentTerm[i] + 1, candidateId |-> i,
                    lastLogIndex |-> LastIndex(log[i]),
                    lastLogTerm |-> At(log[i], LastIndex(log[i])).term] :
                     j \in Peers(i)}
  <1>1. /\ LastIndex(log[i]) \in Nat
        /\ At(log[i], LastIndex(log[i])).term \in Nat
    BY LogAnchored, LastType
  <1>2. currentTerm[i] + 1 \in Nat
    BY SMTT(60) DEF ElectionTypes
  <1>3. S \subseteq Request /\ \A r \in S : r.rpc = "RequestVote"
    BY <1>1, <1>2, SMTT(60) DEF Request, RequestVoteArgs, Peers
  <1>4. CallInv'
    <2>1. requests' = Send(requests, S) /\ replies' = replies
      BY DEF becomeCandidate
    <2> HIDE DEF S
    <2>2. QED  BY <1>3, <2>1, SendKeeps
  <1>5. ElectionTypes' /\ CountTypes'
    BY SMTT(60) DEF becomeCandidate, ElectionTypes, CountTypes
  <1>6. IndexTypes' /\ ApplyTypes'
    BY DEF becomeCandidate, indexVars, applyVars, IndexTypes, ApplyTypes
  <1>7. LogTypes' /\ DummyKept'
    BY LogStays DEF becomeCandidate
  <1>8. QED  BY <1>4, <1>5, <1>6, <1>7, StructPartsPrime

\* A heartbeat is a request, and one at index 0 names the dummy entry's term.
LEMMA HeartBeatType ==
  ASSUME StructInv, NEW i \in Server, NEW j \in Server
  PROVE  /\ HeartBeat(i, j) \in Request
         /\ HeartBeat(i, j).prevLogIndex = 0 => HeartBeat(i, j).prevLogTerm = 0
  <1> USE StructParts
  <1> DEFINE next == nextIndex[i][j]
  <1>1. next \in Nat \ {0} /\ next - 1 \in Nat
    BY SMTT(60) DEF IndexTypes
  <1>2. Anchored(log[i])
    BY LogAnchored
  <1>3. /\ PrevLogTerm(log[i], next) \in Nat
        /\ next = 1 => PrevLogTerm(log[i], next) = 0
    BY <1>1, <1>2, PrevLogTermType
  <1>4. (IF next < Len(log[i]) THEN From(log[i], next) ELSE <<>>) \in Seq(Entry)
    BY <1>1, <1>2, FromType, SMTT(60) DEF Anchored
  <1>5. currentTerm[i] \in Nat /\ commitIndex[i] \in Nat
    BY DEF ElectionTypes, ApplyTypes
  <1>6. HeartBeat(i, j) \in AppendEntriesArgs
    BY <1>1, <1>3, <1>4, <1>5 DEF HeartBeat, AppendEntriesArgs
  <1>7. HeartBeat(i, j).prevLogIndex = next - 1
        /\ HeartBeat(i, j).prevLogTerm = PrevLogTerm(log[i], next)
    BY DEF HeartBeat
  <1>8. QED  BY <1>1, <1>3, <1>6, <1>7, SMTT(60) DEF Request

\* sendHeartBeats sends calls that name term 0 whenever they name index 0.
LEMMA StructHeartBeats ==
  ASSUME StructInv, NEW i \in Server, sendHeartBeats(i)
  PROVE  StructInv'
  <1> USE StructParts
  <1> DEFINE S == {HeartBeat(i, j) : j \in Peers(i)}
  <1>1. CallInv'
    <2>1. requests' = Send(requests, S) /\ replies' = replies
      BY DEF sendHeartBeats
    <2>2. S \subseteq Request /\ \A r \in S : r.prevLogIndex = 0 => r.prevLogTerm = 0
      BY HeartBeatType DEF Peers
    <2> HIDE DEF S
    <2>3. QED  BY <2>1, <2>2, SendKeeps
  <1>2. ElectionTypes' /\ IndexTypes' /\ ApplyTypes' /\ CountTypes'
    BY DEF sendHeartBeats, electionVars, indexVars, applyVars, boundVars,
           ElectionTypes, IndexTypes, ApplyTypes, CountTypes
  <1>3. LogTypes' /\ DummyKept'
    BY LogStays DEF sendHeartBeats
  <1>4. QED  BY <1>1, <1>2, <1>3, StructPartsPrime

\* The RequestVote handler touches no log.
LEMMA StructRequestVote ==
  ASSUME StructInv, NEW r \in CallsIn(requests), RequestVote(r)
  PROVE  StructInv'
  <1> USE StructParts
  <1>1. /\ r.dst \in Server /\ r.term \in Nat /\ r.candidateId \in Server
        /\ currentTerm[r.dst] \in Nat
    BY DEF RequestVote, CallInv, Request, RequestVoteArgs, AppendEntriesArgs,
           ElectionTypes
  <1>2. ElectionTypes' /\ CallInv'
    <2>1. CASE RejectVote(r)
      BY <1>1, <2>1, AnswerKeeps DEF RejectVote, electionVars, ElectionTypes
    <2>2. CASE DecideVote(r)
      <3>1. GrantVote(r.dst, r) \in BOOLEAN
        BY DEF GrantVote, UpToDate
      <3>2. CallInv'
        BY <2>2, <3>1, AnswerKeeps DEF DecideVote
      <3>3. ElectionTypes'
        BY <1>1, <2>2 DEF DecideVote, ElectionTypes
      <3>4. QED  BY <3>2, <3>3
    <2>3. QED  BY <2>1, <2>2 DEF RequestVote
  <1>3. IndexTypes' /\ ApplyTypes' /\ CountTypes'
    BY DEF RequestVote, indexVars, applyVars, boundVars, IndexTypes,
           ApplyTypes, CountTypes
  <1>4. LogTypes' /\ DummyKept'
    BY LogStays DEF RequestVote
  <1>5. QED  BY <1>2, <1>3, <1>4, StructPartsPrime

\* The AppendEntries handler: a call that names index 0 names term 0, so it
\* never conflicts with the dummy entry and none of the branches cuts it off.
LEMMA StructAppendEntries ==
  ASSUME StructInv, NEW r \in CallsIn(requests), AppendEntries(r)
  PROVE  StructInv'
  <1> USE StructParts
  <1> DEFINE i == r.dst
  <1>1. /\ i \in Server /\ r.term \in Nat /\ r.prevLogIndex \in Nat
        /\ r.prevLogTerm \in Nat /\ r.entries \in Seq(Entry)
        /\ r.leaderCommit \in Nat
    BY RequestType DEF AppendEntries
  <1>2. r.prevLogIndex = 0 => r.prevLogTerm = 0
    BY DEF AppendEntries, CallInv, HeartBeatsAnchored
  <1>3. Anchored(log[i]) /\ Len(log[i]) \in Nat /\ currentTerm[i] \in Nat
    BY <1>1, LogAnchored, SMTT(60) DEF Anchored, ElectionTypes
  <1>4. votes' = votes /\ persisted' = persisted /\ IndexTypes' /\ CountTypes'
    BY DEF AppendEntries, indexVars, boundVars, IndexTypes, CountTypes
  <1> HIDE DEF i
  <1>5. CASE RejectEntries(r)
    <2>1. CallInv'
      BY <1>3, <1>5, AnswerKeeps DEF RejectEntries, i
    <2>2. ElectionTypes' /\ ApplyTypes'
      BY <1>5 DEF RejectEntries, electionVars, applyVars, ElectionTypes, ApplyTypes
    <2>3. LogTypes' /\ DummyKept'
      BY <1>4, <1>5, LogStays DEF RejectEntries
    <2>4. QED  BY <1>4, <2>1, <2>2, <2>3, StructPartsPrime
  <1>6. CASE MissEntries(r)
    <2>1. CallInv'
      BY <1>1, <1>6, AnswerKeeps DEF MissEntries
    <2>2. ElectionTypes'
      BY <1>1, <1>6, ObserveTermKeeps DEF MissEntries, i
    <2>3. ApplyTypes' /\ LogTypes' /\ DummyKept'
      BY <1>4, <1>6, LogStays DEF MissEntries, applyVars, ApplyTypes
    <2>4. QED  BY <1>4, <2>1, <2>2, <2>3, StructPartsPrime
  <1>7. CASE ConflictEntries(r)
    <2>1. CallInv'
      BY <1>1, <1>7, AnswerKeeps DEF ConflictEntries
    <2>2. ElectionTypes'
      BY <1>1, <1>7, ObserveTermKeeps DEF ConflictEntries, i
    <2>3. r.prevLogIndex >= 1 /\ r.prevLogIndex <= Len(log[i])
      BY <1>1, <1>2, <1>3, <1>7, SMTT(60) DEF ConflictEntries, Fits, Anchored, i
    <2>4. Anchored(Upto(log[i], r.prevLogIndex))
      BY <1>1, <1>3, <2>3, UptoAnchored
    <2>5. LogTypes' /\ DummyKept'
      BY <1>1, <1>4, <1>7, <2>4, LogKeeps DEF ConflictEntries, i
    <2>6. ApplyTypes'
      BY <1>7 DEF ConflictEntries, applyVars, ApplyTypes
    <2>7. QED  BY <1>4, <2>1, <2>2, <2>5, <2>6, StructPartsPrime
  <1>8. CASE AcceptEntries(r)
    <2> DEFINE newLog == Upto(log[i], r.prevLogIndex + 1) \o r.entries
               c == IF r.leaderCommit > LastIndex(newLog)
                    THEN LastIndex(newLog) ELSE r.leaderCommit
    <2>1. CallInv'
      BY <1>1, <1>8, AnswerKeeps DEF AcceptEntries
    <2>2. ElectionTypes'
      BY <1>1, <1>8, ObserveTermKeeps DEF AcceptEntries, i
    <2>3. r.prevLogIndex + 1 \in Nat /\ 1 <= r.prevLogIndex + 1
          /\ r.prevLogIndex + 1 <= Len(log[i])
      <3>1. r.prevLogIndex < Len(log[i])
        BY <1>8 DEF AcceptEntries, i
      <3>2. QED  BY <1>1, <1>3, <3>1, SMTT(60)
    <2>4. Anchored(newLog)
      BY <1>1, <1>3, <2>3, UptoAnchored, ConcatAnchored
    <2>5. /\ log' = [log EXCEPT ![i] = newLog]
          /\ ApplyUpTo(i, newLog, c) \/ UNCHANGED applyVars
      BY <1>8 DEF AcceptEntries, NewLog, i
    <2> HIDE DEF newLog
    <2>6. LogTypes' /\ DummyKept'
      BY <1>1, <1>4, <2>4, <2>5, LogKeeps
    <2>7. newLog \in Seq(Entry) /\ c \in Nat /\ c <= LastIndex(newLog)
      BY <1>1, <2>4, LastType, SMTT(60) DEF Anchored
    <2> HIDE DEF c
    <2>8. ApplyTypes'
      <3>1. CASE ApplyUpTo(i, newLog, c)
        BY <1>1, <2>7, <3>1, ApplyKeeps
      <3>2. CASE UNCHANGED applyVars
        BY <3>2 DEF applyVars, ApplyTypes
      <3>3. QED  BY <2>5, <3>1, <3>2
    <2>9. QED  BY <1>4, <2>1, <2>2, <2>6, <2>8, StructPartsPrime
  <1>9. QED  BY <1>5, <1>6, <1>7, <1>8 DEF AppendEntries

\* BecomeLeader sends the empty call, which names index 0 and term 0.
LEMMA StructLeader ==
  ASSUME StructInv, NEW i \in Server, BecomeLeader(i),
         CallsIn(replies') \subseteq CallsIn(replies)
  PROVE  ElectionTypes' /\ IndexTypes' /\ CallInv'
  <1> USE StructParts
  <1> DEFINE none == <<>>
             S == {[rpc |-> "AppendEntries", src |-> i, dst |-> j, term |-> 0,
                    prevLogIndex |-> 0, prevLogTerm |-> 0, entries |-> none,
                    leaderCommit |-> 0] : j \in Peers(i)}
  <1>1. Len(log[i]) \in Nat \ {0}
    BY LogAnchored, SMTT(60) DEF Anchored
  <1>2. IndexTypes'
    BY <1>1 DEF BecomeLeader, IndexTypes
  <1>3. ElectionTypes'
    BY DEF BecomeLeader, ElectionTypes
  <1>4. S \subseteq Request /\ \A r \in S : r.prevLogTerm = 0
    <2>1. none \in Seq(Entry)
      BY SMTT(60)
    <2> HIDE DEF none
    <2>2. S \subseteq AppendEntriesArgs
      BY <2>1, SMTT(60) DEF AppendEntriesArgs, Peers
    <2>3. QED  BY <2>2, SMTT(60) DEF Request
  <1>5. requests' = Send(requests, S)
    BY DEF BecomeLeader
  <1> HIDE DEF S
  <1>6. CallInv'
    BY <1>4, <1>5, SendKeeps
  <1>7. QED  BY <1>2, <1>3, <1>6

\* The caller of RequestVote steps down, counts a vote or ignores the reply.
LEMMA StructSendRequestVote ==
  ASSUME StructInv, NEW c \in CallsIn(replies), sendRequestVote(c)
  PROVE  StructInv'
  <1> USE StructParts
  <1> DEFINE i == c.req.src
  <1>1. i \in Server /\ c.term \in Nat /\ c.ok \in BOOLEAN
    BY ReplyType
  <1>2. CallsIn(replies') \subseteq CallsIn(replies)
    BY TakenCalls DEF sendRequestVote
  <1>3. ApplyTypes' /\ LogTypes' /\ DummyKept' /\ elections' = elections
        /\ restarts' = restarts
    BY LogStays DEF sendRequestVote, applyVars, boundVars, ApplyTypes
  <1> HIDE DEF i
  <1>4. ElectionTypes' /\ IndexTypes' /\ CallInv' /\ CountTypes'
    <2>1. CASE /\ StepDown(i, c.term)
               /\ UNCHANGED <<votes, indexVars, requests>>
      BY <1>1, <1>2, <1>3, <2>1, StepDownKeeps, FewerKeeps
         DEF indexVars, IndexTypes, CountTypes
    <2>2. CASE UNCHANGED <<electionVars, votes, indexVars, requests>>
      BY <1>2, <1>3, <2>2, FewerKeeps
         DEF electionVars, indexVars, ElectionTypes, IndexTypes, CountTypes
    <2>3. CASE CountVote(i)
      <3>1. CountTypes'
        <4>1. votes' = [votes EXCEPT ![i] = @ + 1]
          BY <2>3 DEF CountVote
        <4>2. votes' \in [Server -> Nat]
          BY <1>1, <4>1, SMTT(60) DEF CountTypes
        <4>3. QED  BY <1>3, <4>2 DEF CountTypes
      <3>2. CASE BecomeLeader(i)
        BY <1>1, <1>2, <3>1, <3>2, StructLeader
      <3>3. CASE UNCHANGED <<electionVars, indexVars, requests>>
        BY <1>2, <3>1, <3>3, FewerKeeps
           DEF electionVars, indexVars, ElectionTypes, IndexTypes
      <3>4. QED  BY <2>3, <3>2, <3>3 DEF CountVote
    <2>4. QED  BY <2>1, <2>2, <2>3 DEF sendRequestVote, i
  <1>5. QED  BY <1>3, <1>4, StructPartsPrime

\* The caller of AppendEntries: halving keeps nextIndex at 1 or above, because
\* it is halved only when it is above 1.
LEMMA StructSendAppendEntries ==
  ASSUME StructInv, NEW c \in CallsIn(replies), sendAppendEntries(c)
  PROVE  StructInv'
  <1> USE StructParts
  <1> DEFINE i == c.req.src
             j == c.req.dst
  <1>1. i \in Server /\ j \in Server /\ c.term \in Nat /\ c.ok \in BOOLEAN
    BY ReplyType
  <1>2. Replicated(c.req) \in Nat
    <2>1. c.req \in AppendEntriesArgs
      BY ReplyType DEF sendAppendEntries, Request, RequestVoteArgs
    <2>2. c.req.entries \in Seq(Entry) /\ c.req.prevLogIndex \in Nat
      BY <2>1 DEF AppendEntriesArgs
    <2>3. QED  BY <2>2, SMTT(60) DEF Replicated
  <1>3. CallInv'
    BY TakenCalls, FewerKeeps DEF sendAppendEntries
  <1>4. LogTypes' /\ DummyKept' /\ CountTypes'
    BY LogStays DEF sendAppendEntries, boundVars, CountTypes
  <1> HIDE DEF i, j
  <1>5. CASE UNCHANGED <<electionVars, indexVars, applyVars>>
    BY <1>3, <1>4, <1>5, StructPartsPrime DEF electionVars, indexVars, applyVars,
       ElectionTypes, IndexTypes, ApplyTypes
  <1>6. CASE LeaderStepsDown(c)
    <2>1. ElectionTypes'
      BY <1>1, <1>6, StepDownKeeps DEF LeaderStepsDown, i
    <2>2. IndexTypes' /\ ApplyTypes'
      BY <1>6 DEF LeaderStepsDown, indexVars, applyVars, IndexTypes, ApplyTypes
    <2>3. QED  BY <1>3, <1>4, <2>1, <2>2, StructPartsPrime
  <1>7. CASE BackOff(c)
    <2>1. nextIndex[i][j] \in Nat /\ nextIndex[i][j] > 1
      BY <1>1, <1>7 DEF BackOff, IndexTypes, i, j
    <2>2. Half(nextIndex[i][j]) \in Nat \ {0}
      BY <2>1, SMTT(60) DEF Half
    <2>3. IndexTypes'
      BY <1>1, <1>7, <2>2 DEF BackOff, IndexTypes, i, j
    <2>4. ElectionTypes' /\ ApplyTypes'
      BY <1>7 DEF BackOff, electionVars, applyVars, ElectionTypes, ApplyTypes
    <2>5. QED  BY <1>3, <1>4, <2>3, <2>4, StructPartsPrime
  <1>8. CASE Matched(c)
    <2>1. IndexTypes'
      <3> DEFINE match == IF c.ok THEN Replicated(c.req) ELSE matchIndex[i][j]
                 next == IF c.ok THEN match + 1 ELSE nextIndex[i][j]
      <3>1. /\ matchIndex' = [matchIndex EXCEPT ![i][j] = match]
            /\ nextIndex' = [nextIndex EXCEPT ![i][j] = next]
        BY <1>8 DEF Matched, i, j
      <3>2. matchIndex[i][j] \in Nat /\ nextIndex[i][j] \in Nat \ {0}
        BY <1>1 DEF IndexTypes
      <3>3. match \in Nat
        BY <1>2, <3>2
      <3>4. next \in Nat \ {0}
        BY <3>2, <3>3, SMTT(60)
      <3> HIDE DEF match, next
      <3>5. QED  BY <1>1, <3>1, <3>3, <3>4 DEF IndexTypes
    <2>2. ElectionTypes'
      BY <1>8 DEF Matched, electionVars, ElectionTypes
    <2>3. ApplyTypes'
      <3>1. AdvanceCommit(i, matchIndex'[i])
        BY <1>8 DEF Matched, i
      <3>2. CASE UNCHANGED applyVars
        BY <3>2 DEF applyVars, ApplyTypes
      <3>3. ASSUME NEW n \in Committable(i, matchIndex'[i]),
                   ApplyUpTo(i, log[i], n)
            PROVE  ApplyTypes'
        <4>1. commitIndex[i] \in Nat /\ log[i] \in Seq(Entry)
              /\ LastIndex(log[i]) \in Nat
          BY <1>1, LogAnchored, LastType DEF ApplyTypes, Anchored
        <4>2. n \in Nat /\ n <= LastIndex(log[i])
          BY <4>1, SMTT(60) DEF Committable
        <4>3. QED  BY <1>1, <3>3, <4>1, <4>2, ApplyKeeps
      <3>4. QED  BY <3>1, <3>2, <3>3 DEF AdvanceCommit
    <2>4. QED  BY <1>3, <1>4, <2>1, <2>2, <2>3, StructPartsPrime
  <1>9. QED  BY <1>5, <1>6, <1>7, <1>8 DEF sendAppendEntries

\* Losing calls changes no peer.
LEMMA StructLoseCalls ==
  ASSUME StructInv, NEW i \in Server, LoseCalls(i)
  PROVE  StructInv'
  <1> USE StructParts
  <1>1. CallInv'
    BY KeptCalls, FewerKeeps DEF LoseCalls
  <1>2. ElectionTypes' /\ IndexTypes' /\ ApplyTypes' /\ CountTypes'
    BY DEF LoseCalls, electionVars, indexVars, applyVars, boundVars,
           ElectionTypes, IndexTypes, ApplyTypes, CountTypes
  <1>3. LogTypes' /\ DummyKept'
    BY LogStays DEF LoseCalls
  <1>4. QED  BY <1>1, <1>2, <1>3, StructPartsPrime

\* A restarted peer has the log of its persister, which holds the dummy entry.
LEMMA StructRestart ==
  ASSUME StructInv, NEW i \in Server, Restart(i)
  PROVE  StructInv'
  <1> USE StructParts
  <1> DEFINE saved == Recovered(i)
  <1>1. saved \in Durables /\ saved.log \in {log[i], persisted[i].log}
    BY DEF Recovered, Durable, Durables, LogTypes, ElectionTypes
  <1>2. CallInv'
    BY RestartKeeps DEF Restart
  <1>3. /\ state' = [state EXCEPT ![i] = "Follower"]
        /\ currentTerm' = [currentTerm EXCEPT ![i] = saved.currentTerm]
        /\ votedFor' = [votedFor EXCEPT ![i] = saved.votedFor]
        /\ log' = [log EXCEPT ![i] = saved.log]
        /\ persisted' = [persisted EXCEPT ![i] = saved]
    BY DEF Restart
  <1> HIDE DEF saved
  <1>4. ElectionTypes'
    BY <1>1, <1>3 DEF ElectionTypes, Durables
  <1>5. LogTypes'
    BY <1>1, <1>3 DEF LogTypes, Durables
  <1>6. DummyKept'
    <2>1. \A j \in Server : /\ log'[j] \in {log[j], persisted[j].log}
                            /\ persisted'[j].log \in {log[j], persisted[j].log}
      BY <1>1, <1>3 DEF LogTypes
    <2>2. QED  BY <2>1 DEF DummyKept
  <1>7. IndexTypes'
    <2>1. /\ nextIndex' = [nextIndex EXCEPT ![i] = NilNext]
          /\ matchIndex' = [matchIndex EXCEPT ![i] = NilMatch]
      BY DEF Restart
    <2>2. QED  BY <2>1, SMTT(60) DEF IndexTypes, NilNext, NilMatch
  <1>8. CountTypes'
    <2>1. /\ restarts' = restarts + 1 /\ elections' = elections
          /\ votes' = [votes EXCEPT ![i] = 0]
      BY DEF Restart
    <2>2. QED  BY <2>1, SMTT(60) DEF CountTypes
  <1>9. ApplyTypes'
    <2>1. <<>> \in Seq(ApplyMsg)
      BY SMTT(60)
    <2>2. QED  BY <2>1 DEF Restart, ApplyTypes
  <1>10. QED
    BY <1>2, <1>4, <1>5, <1>6, <1>7, <1>8, <1>9, StructPartsPrime

\* Every step of a peer, the network or the tester preserves the invariant.
LEMMA StructStep == StructInv /\ [Next]_vars => StructInv'
  <1> SUFFICES ASSUME StructInv, [Next]_vars PROVE StructInv'
    OBVIOUS
  <1>1. CASE Next
    BY <1>1, StructStart, StructPersist, StructCandidate, StructHeartBeats,
       StructRequestVote, StructAppendEntries, StructSendRequestVote,
       StructSendAppendEntries, StructLoseCalls, StructRestart DEF Next
  <1>2. CASE UNCHANGED vars
    <2>1. ElectionTypes' /\ IndexTypes' /\ ApplyTypes' /\ CountTypes'
      BY <1>2, StructParts DEF vars, electionVars, indexVars, applyVars,
         boundVars, ElectionTypes, IndexTypes, ApplyTypes, CountTypes
    <2>2. LogTypes' /\ DummyKept' /\ CallInv'
      BY <1>2, StructParts, LogStays, FewerKeeps DEF vars, callVars
    <2>3. QED  BY <2>1, <2>2, StructPartsPrime
  <1>3. QED  BY <1>1, <1>2

\* The invariant holds in every reachable state: on any network and over any
\* crash the fields and calls of the peers of raft.go keep their types, logs keep
\* their dummy entry, calls that name index 0 name term 0, and only calls that
\* somebody waits for have a reply.
THEOREM Structure == Spec => []StructInv
  BY StructInit, StructStep, PTL DEF Spec

\* Every field of a peer and every call in flight keeps its type: no index or
\* term of raft.go becomes negative, and halving leaves nextIndex at least 1.
THEOREM TypeCorrect == Spec => []TypeOK
  <1>1. StructInv => TypeOK
    BY DEF StructInv
  <1>2. QED  BY <1>1, Structure, PTL

\* The dummy entry of every log survives every truncation of AppendEntries and
\* every restart, so that no handler indexes an empty log.
THEOREM DummyIsKept == Spec => []DummyKept
  <1>1. StructInv => DummyKept
    BY DEF StructInv
  <1>2. QED  BY <1>1, Structure, PTL

-----------------------------------------------------------------------------
(* The order of ApplyMsgs.                                                 *)

\* Elements of a concatenation.
LEMMA ConcatAt ==
  ASSUME NEW S, NEW a \in Seq(S), NEW b \in Seq(S)
  PROVE  /\ Len(a \o b) = Len(a) + Len(b)
         /\ \A k \in 1..(Len(a) + Len(b)) :
              (a \o b)[k] = IF k <= Len(a) THEN a[k] ELSE b[k - Len(a)]
  BY SMTT(60)

\* Both apply loops continue where the last one stopped.
LEMMA ApplyContinues ==
  ASSUME ApplyTypes, AppliedInOrder, NEW i \in Server, NEW l \in Seq(Entry),
         NEW c \in Nat, c <= LastIndex(l), ApplyUpTo(i, l, c)
  PROVE  AppliedInOrder'
  <1> DEFINE from == lastApplied[i]
             msgs == Messages(l, from, c)
             n == IF c > from THEN c - from ELSE 0
  <1>1. from \in Nat /\ NextToApply(i) - 1 = from
    BY SMTT(60) DEF ApplyTypes, NextToApply
  <1>2. n \in Nat /\ 1..(c - from) = 1..n /\ (IF c > from THEN c ELSE from) = from + n
    BY <1>1, SMTT(60)
  <1>3. msgs \in Seq(ApplyMsg) /\ Len(msgs) = n
    BY <1>1, MessagesType
  <1>4. \A k \in 1..n : msgs[k].index = from + k
    BY <1>2 DEF Messages
  <1>5. /\ lastApplied' = [lastApplied EXCEPT
             ![i] = IF c > from THEN c ELSE from]
        /\ applied' = [applied EXCEPT ![i] = @ \o msgs]
    BY <1>1 DEF ApplyUpTo, Messages
  <1>6. applied[i] \in Seq(ApplyMsg) /\ Len(applied[i]) = from
        /\ \A k \in 1..from : applied[i][k].index = k
    BY DEF ApplyTypes, AppliedInOrder
  <1>7. \A j \in Server : /\ j = i => /\ applied'[j] = applied[i] \o msgs
                                      /\ lastApplied'[j] = from + n
                          /\ j # i => /\ applied'[j] = applied[j]
                                      /\ lastApplied'[j] = lastApplied[j]
    BY <1>2, <1>5 DEF ApplyTypes
  <1> HIDE DEF msgs, n, from
  <1>8. Len(applied[i] \o msgs) = from + n
    BY <1>3, <1>6, ConcatAt
  <1>9. ASSUME NEW k \in 1..(from + n)
        PROVE  (applied[i] \o msgs)[k].index = k
    <2>0. k \in Nat /\ k \in 1..(Len(applied[i]) + Len(msgs))
      BY <1>1, <1>2, <1>3, <1>6, SMTT(60)
    <2>1. (applied[i] \o msgs)[k] = IF k <= from THEN applied[i][k] ELSE msgs[k - from]
      BY <1>3, <1>6, <2>0, ConcatAt
    <2>2. CASE k <= from
      BY <1>1, <1>2, <1>6, <2>1, <2>2, SMTT(60)
    <2>3. CASE k > from
      <3>1. k - from \in 1..n /\ from + (k - from) = k
        BY <1>1, <1>2, <2>3, SMTT(60)
      <3>2. QED  BY <1>1, <1>4, <2>1, <2>3, <3>1, SMTT(60)
    <2>4. QED  BY <1>1, <2>0, <2>2, <2>3, SMTT(60)
  <1>10. QED  BY <1>8, <1>9, <1>7 DEF AppliedInOrder

\* A step that applies nothing keeps the order.
LEMMA ApplyUnchanged ==
  ASSUME AppliedInOrder, UNCHANGED applyVars
  PROVE  AppliedInOrder'
  BY DEF AppliedInOrder, applyVars

\* Every step keeps the order: both apply loops continue at lastApplied + 1.
LEMMA AppliedStep ==
  ASSUME StructInv, AppliedInOrder, Next
  PROVE  AppliedInOrder'
  <1>1. CASE UNCHANGED applyVars
    BY <1>1, ApplyUnchanged
  <1>2. ASSUME NEW r \in CallsIn(requests), AppendEntries(r)
        PROVE  AppliedInOrder'
    <2> DEFINE i == r.dst
               newLog == Upto(log[i], r.prevLogIndex + 1) \o r.entries
               c == IF r.leaderCommit > LastIndex(newLog)
                    THEN LastIndex(newLog) ELSE r.leaderCommit
    <2>1. CASE AcceptEntries(r) /\ r.leaderCommit > commitIndex[i]
      <3>1. ApplyUpTo(i, newLog, c)
        BY <2>1 DEF AcceptEntries, NewLog
      <3>2. /\ i \in Server /\ r.prevLogIndex \in Nat
            /\ r.entries \in Seq(Entry) /\ r.leaderCommit \in Nat
        BY <1>2, RequestType DEF AppendEntries
      <3>3. Anchored(log[i])
        BY <3>2, LogAnchored
      <3>4. r.prevLogIndex + 1 \in Nat /\ 1 <= r.prevLogIndex + 1
            /\ r.prevLogIndex + 1 <= Len(log[i])
        BY <2>1, <3>2, <3>3, SMTT(60) DEF AcceptEntries, Anchored
      <3>5. Anchored(newLog)
        BY <3>2, <3>3, <3>4, UptoAnchored, ConcatAnchored
      <3> HIDE DEF newLog
      <3>6. newLog \in Seq(Entry) /\ c \in Nat /\ c <= LastIndex(newLog)
        BY <3>2, <3>5, LastType, SMTT(60) DEF Anchored
      <3> HIDE DEF c, i
      <3>7. QED  BY <3>1, <3>2, <3>6, StructParts, ApplyContinues
    <2>2. CASE UNCHANGED applyVars
      BY <2>2, ApplyUnchanged
    <2>3. QED
      BY <1>2, <2>1, <2>2 DEF AppendEntries, RejectEntries, MissEntries,
         ConflictEntries, AcceptEntries
  <1>3. ASSUME NEW c \in CallsIn(replies), sendAppendEntries(c)
        PROVE  AppliedInOrder'
    <2> DEFINE i == c.req.src
    <2>1. i \in Server
      BY ReplyType
    <2>2. CASE UNCHANGED applyVars
      BY <2>2, ApplyUnchanged
    <2>3. ASSUME NEW match, NEW m \in Committable(i, match),
                 ApplyUpTo(i, log[i], m)
          PROVE  AppliedInOrder'
      <3>1. commitIndex[i] \in Nat /\ LastIndex(log[i]) \in Nat
            /\ log[i] \in Seq(Entry)
        <4>1. Anchored(log[i])
          BY <2>1, LogAnchored
        <4>2. commitIndex[i] \in Nat /\ log[i] \in Seq(Entry)
          BY <2>1, FieldTypes
        <4>3. QED  BY <4>1, <4>2, LastType
      <3>2. m \in Nat /\ m <= LastIndex(log[i])
        BY <3>1, SMTT(60) DEF Committable
      <3>3. QED  BY <2>1, <2>3, <3>1, <3>2, StructParts, ApplyContinues
    <2>4. QED
      BY <1>3, <2>2, <2>3 DEF sendAppendEntries, LeaderStepsDown, BackOff,
         Matched, AdvanceCommit
  <1>4. ASSUME NEW i \in Server, Restart(i)
        PROVE  AppliedInOrder'
    <2>1. /\ lastApplied' = [lastApplied EXCEPT ![i] = 0]
          /\ applied' = [applied EXCEPT ![i] = <<>>]
      BY <1>4 DEF Restart
    <2>2. \A j \in Server : \/ lastApplied'[j] = 0 /\ applied'[j] = <<>>
                            \/ lastApplied'[j] = lastApplied[j] /\ applied'[j] = applied[j]
      BY <2>1, FieldTypes
    <2>3. QED  BY <2>2, SMTT(60) DEF AppliedInOrder
  <1>5. QED
    BY <1>1, <1>2, <1>3, <1>4 DEF Next, Start, persist, becomeCandidate,
       sendHeartBeats, RequestVote, sendRequestVote, LoseCalls

\* A peer sends index 1, 2, 3, ... to applyCh, each once, since it was made:
\* the follower's loop in AppendEntries and the leader's in sendAppendEntries
\* share lastApplied, and neither skips or repeats an index.
THEOREM AppliesInOrder == Spec => []AppliedInOrder
  <1>1. Init => AppliedInOrder
    BY SMTT(60) DEF Init, AppliedInOrder
  <1>2. StructInv /\ AppliedInOrder /\ [Next]_vars => AppliedInOrder'
    BY AppliedStep, ApplyUnchanged DEF vars
  <1>3. QED  BY <1>1, <1>2, Structure, PTL DEF Spec

-----------------------------------------------------------------------------
(* Terms and votes.                                                        *)

\* A step that leaves state, term and vote alone breaks no promise.
LEMMA PromiseUnchanged ==
  ASSUME StructInv, UNCHANGED electionVars, NEW j \in Server
  PROVE  Promise(j)
  BY DEF Promise, electionVars

\* Stepping down to a higher term breaks none: the vote was for a lower one.
LEMMA PromiseStepDown ==
  ASSUME StructInv, NEW i \in Server, NEW t \in Nat, t > currentTerm[i],
         StepDown(i, t), NEW j \in Server
  PROVE  Promise(j)
  BY FieldTypes DEF Promise, StepDown

\* No step but a restart makes a peer take back a term or a vote.
LEMMA PromiseStep ==
  ASSUME StructInv, Next, restarts' = restarts, NEW j \in Server
  PROVE  Promise(j)
  <1>1. ASSUME NEW i \in Server, NEW command \in Command, Start(i, command)
        PROVE  Promise(j)
    BY <1>1, PromiseUnchanged DEF Start
  <1>2. ASSUME NEW i \in Server, persist(i)
        PROVE  Promise(j)
    BY <1>2, PromiseUnchanged DEF persist
  <1>3. ASSUME NEW i \in Server, becomeCandidate(i)
        PROVE  Promise(j)
    <2>1. /\ currentTerm' = [currentTerm EXCEPT ![i] = @ + 1]
          /\ votedFor' = [votedFor EXCEPT ![i] = i]
      BY <1>3 DEF becomeCandidate
    <2>2. QED  BY <2>1, FieldTypes, SMTT(60) DEF Promise
  <1>4. ASSUME NEW i \in Server, sendHeartBeats(i)
        PROVE  Promise(j)
    BY <1>4, PromiseUnchanged DEF sendHeartBeats
  <1>5. ASSUME NEW r \in CallsIn(requests), RequestVote(r)
        PROVE  Promise(j)
    <2>1. r.dst \in Server /\ r.term \in Nat
      BY RequestType
    <2>2. CASE RejectVote(r)
      BY <2>2, PromiseUnchanged DEF RejectVote
    <2>3. CASE DecideVote(r)
      <3> DEFINE i == r.dst
      <3>1. /\ r.term >= currentTerm[i]
            /\ currentTerm' = [currentTerm EXCEPT ![i] = r.term]
            /\ votedFor' = [votedFor EXCEPT
                 ![i] = IF GrantVote(i, r) THEN r.candidateId
                        ELSE IF r.term > currentTerm[i] THEN Nil ELSE @]
        BY <2>3 DEF DecideVote
      <3>2. /\ currentTerm \in [Server -> Nat]
            /\ votedFor \in [Server -> Server \cup {Nil}]
        BY FieldTypes
      <3>3. GrantVote(i, r)
              => r.term > currentTerm[i] \/ votedFor[i] \in {Nil, r.candidateId}
        BY DEF GrantVote
      <3>4. QED  BY <2>1, <3>1, <3>2, <3>3, SMTT(60) DEF Promise
    <2>4. QED  BY <1>5, <2>2, <2>3 DEF RequestVote
  <1>6. ASSUME NEW r \in CallsIn(requests), AppendEntries(r)
        PROVE  Promise(j)
    <2>1. r.dst \in Server /\ r.term \in Nat
      BY RequestType
    <2>2. CASE UNCHANGED electionVars
      BY <2>2, PromiseUnchanged
    <2>3. CASE ObserveTerm(r.dst, r.term)
      BY <2>1, <2>3, PromiseUnchanged, PromiseStepDown DEF ObserveTerm
    <2>4. QED
      BY <1>6, <2>2, <2>3
         DEF AppendEntries, RejectEntries, MissEntries, ConflictEntries,
             AcceptEntries
  <1>7. ASSUME NEW c \in CallsIn(replies), sendRequestVote(c)
        PROVE  Promise(j)
    <2>1. c.req.src \in Server /\ c.term \in Nat
      BY ReplyType
    <2>2. CASE c.term > currentTerm[c.req.src] /\ StepDown(c.req.src, c.term)
      BY <2>1, <2>2, PromiseStepDown
    <2>3. CASE UNCHANGED <<currentTerm, votedFor>>
      BY <2>3 DEF Promise
    <2>4. QED
      BY <1>7, <2>2, <2>3 DEF sendRequestVote, CountVote, BecomeLeader, electionVars
  <1>8. ASSUME NEW c \in CallsIn(replies), sendAppendEntries(c)
        PROVE  Promise(j)
    <2>1. c.req.src \in Server /\ c.term \in Nat
      BY ReplyType
    <2>2. CASE c.term > currentTerm[c.req.src] /\ StepDown(c.req.src, c.term)
      BY <2>1, <2>2, PromiseStepDown
    <2>3. CASE UNCHANGED electionVars
      BY <2>3, PromiseUnchanged
    <2>4. QED
      BY <1>8, <2>2, <2>3 DEF sendAppendEntries, LeaderStepsDown, BackOff, Matched
  <1>9. ASSUME NEW i \in Server, LoseCalls(i)
        PROVE  Promise(j)
    BY <1>9, PromiseUnchanged DEF LoseCalls
  <1>10. ASSUME NEW i \in Server, Restart(i)
         PROVE  Promise(j)
    <2>1. restarts' = restarts + 1 /\ restarts \in Nat
      BY <1>10 DEF Restart, StructInv, TypeOK
    <2>2. QED  BY <2>1, SMTT(60)
  <1>11. QED
    BY <1>1, <1>2, <1>3, <1>4, <1>5, <1>6, <1>7, <1>8, <1>9, <1>10 DEF Next

\* As long as it is not restarted, a peer's currentTerm never decreases and the
\* vote it has given in a term never changes, whatever arrives in whatever
\* order: no path of raft.go resets votedFor without raising currentTerm.
THEOREM PromisesAreKept == Spec => PromisesKept
  <1>1. StructInv /\ [Next]_vars =>
          [\A i \in Server :
             \/ restarts' # restarts
             \/ currentTerm'[i] > currentTerm[i]
             \/ /\ currentTerm'[i] = currentTerm[i]
                /\ votedFor[i] = Nil \/ votedFor'[i] = votedFor[i]]_vars
    BY PromiseStep DEF Promise
  <1>2. QED  BY <1>1, Structure, PTL DEF Spec, PromisesKept

-----------------------------------------------------------------------------
(* The order of terms in a log.                                            *)

\* The terms in l do not decrease and do not exceed t.
Ordered(l, t) ==
  \A m \in 0..LastIndex(l) :
    /\ At(l, m).term <= t
    /\ \A k \in 0..m : At(l, k).term <= At(l, m).term

\* The terms in m lie between low and high and do not decrease.
Grows(m, low, high) ==
  \A k \in 1..Len(m) :
    /\ low <= m[k].term /\ m[k].term <= high
    /\ \A h \in 1..k : m[h].term <= m[k].term

\* Start: an entry of a term that no entry of the log exceeds may follow it.
LEMMA OrderedAppend ==
  ASSUME NEW l, Anchored(l), NEW e \in Entry, Ordered(l, e.term)
  PROVE  Ordered(Append(l, e), e.term)
  <1>1. l \in Seq(Entry) /\ Len(l) \in Nat /\ Len(Append(l, e)) = Len(l) + 1
    BY SMTT(60) DEF Anchored
  <1>2. \A k \in 0..Len(l) :
          At(Append(l, e), k) = IF k = Len(l) THEN e ELSE At(l, k)
    BY <1>1, SMTT(60) DEF At
  <1>3. e.term \in Nat /\ LastIndex(Append(l, e)) = Len(l)
    BY <1>1, SMTT(60) DEF Entry, LastIndex
  <1>4. \A m \in 0..(Len(l) - 1) : /\ At(l, m).term <= e.term
                                   /\ \A k \in 0..m : At(l, k).term <= At(l, m).term
    BY DEF Ordered, LastIndex
  <1>5. ASSUME NEW m \in 0..Len(l)
        PROVE  /\ At(Append(l, e), m).term <= e.term
               /\ \A k \in 0..m : At(Append(l, e), k).term <= At(Append(l, e), m).term
    <2>1. CASE m = Len(l)
      <3>1. At(Append(l, e), m) = e
        BY <1>1, <1>2, <2>1
      <3>2. \A k \in 0..m : At(Append(l, e), k).term <= e.term
        BY <1>1, <1>2, <1>3, <1>4, <2>1, SMTT(60)
      <3>3. QED  BY <1>3, <3>1, <3>2, SMTT(60)
    <2>2. CASE m # Len(l)
      <3>1. m \in 0..(Len(l) - 1) /\ \A k \in 0..m : At(Append(l, e), k) = At(l, k)
        BY <1>1, <1>2, <2>2, SMTT(60)
      <3>2. QED  BY <1>4, <3>1, SMTT(60)
    <2>3. QED  BY <2>1, <2>2
  <1>6. QED  BY <1>3, <1>5 DEF Ordered

\* Elements of a prefix.
LEMMA UptoAt ==
  ASSUME NEW l \in Seq(Entry), NEW k \in Nat, k <= Len(l), NEW m \in 0..(k - 1)
  PROVE  At(Upto(l, k), m) = At(l, m)
  BY SMTT(60) DEF At, Upto

\* Truncation keeps a log ordered.
LEMMA OrderedUpto ==
  ASSUME NEW l, Anchored(l), NEW t \in Nat, Ordered(l, t),
         NEW k \in Nat, 1 <= k, k <= Len(l)
  PROVE  Ordered(Upto(l, k), t)
  <1>1. l \in Seq(Entry) /\ Len(Upto(l, k)) = k
    BY UptoAnchored DEF Anchored
  <1>2. \A m \in 0..(k - 1) : At(Upto(l, k), m) = At(l, m)
    BY <1>1, UptoAt
  <1>3. QED  BY <1>1, <1>2, SMTT(60) DEF Ordered, LastIndex

\* AcceptEntries: entries that begin at the last term of an ordered log may
\* follow it.
LEMMA OrderedConcat ==
  ASSUME NEW l, Anchored(l), NEW t \in Nat, Ordered(l, t), NEW m \in Seq(Entry),
         Grows(m, At(l, LastIndex(l)).term, t)
  PROVE  Ordered(l \o m, t)
  <1> DEFINE n == Len(l)
             low == At(l, LastIndex(l)).term
  <1>1. l \in Seq(Entry) /\ n \in Nat /\ n >= 1 /\ Len(m) \in Nat
    BY SMTT(60) DEF Anchored
  <1>2. Len(l \o m) = n + Len(m)
    BY <1>1, SMTT(60)
  <1>3. \A k \in 0..(n + Len(m) - 1) :
          At(l \o m, k) = IF k < n THEN At(l, k) ELSE m[k + 1 - n]
    <2>1. TAKE k \in 0..(n + Len(m) - 1)
    <2>2. k + 1 \in 1..(Len(l) + Len(m)) /\ k \in Nat
      BY <1>1, SMTT(60)
    <2>3. (l \o m)[k + 1] = IF k + 1 <= Len(l) THEN l[k + 1] ELSE m[k + 1 - Len(l)]
      BY <1>1, <2>2, ConcatAt, SMTT(60)
    <2>4. QED  BY <1>1, <2>2, <2>3, SMTT(60) DEF At
  <1>4. low \in Nat /\ \A k \in 0..(n - 1) : At(l, k).term \in Nat
    <2>1. \A k \in 0..(n - 1) : At(l, k) \in Entry
      BY <1>1, AtType, SMTT(60)
    <2>2. QED  BY <2>1, LastType DEF Entry
  <1>5. \A k \in 1..Len(m) : m[k].term \in Nat
    <2>1. \A k \in 1..Len(m) : m[k] \in Entry
      BY SMTT(60)
    <2>2. QED  BY <2>1 DEF Entry
  <1>6. \A k \in 0..(n - 1) : At(l, k).term <= low
    BY <1>1, SMTT(60) DEF Ordered, LastIndex
  <1>7. \A k \in 0..(n - 1) : /\ At(l, k).term <= t
                              /\ \A h \in 0..k : At(l, h).term <= At(l, k).term
    BY DEF Ordered, LastIndex
  <1>8. \A k \in 1..Len(m) :
          /\ low <= m[k].term /\ m[k].term <= t
          /\ \A h \in 1..k : m[h].term <= m[k].term
    BY DEF Grows
  <1> HIDE DEF n, low
  <1>9. ASSUME NEW k \in 0..(n + Len(m) - 1)
        PROVE  /\ At(l \o m, k).term <= t
               /\ \A h \in 0..k : At(l \o m, h).term <= At(l \o m, k).term
    <2>1. CASE k < n
      <3>1. k \in 0..(n - 1)
        BY <1>1, <2>1, SMTT(60)
      <3>2. \A h \in 0..k : At(l \o m, h) = At(l, h)
        BY <1>1, <1>3, <2>1, SMTT(60)
      <3>3. QED  BY <1>7, <3>1, <3>2, SMTT(60)
    <2>2. CASE k >= n
      <3>1. k + 1 - n \in 1..Len(m) /\ At(l \o m, k) = m[k + 1 - n]
        BY <1>1, <1>3, <2>2, SMTT(60)
      <3>2. ASSUME NEW h \in 0..k
            PROVE  At(l \o m, h).term <= At(l \o m, k).term
        <4>1. CASE h < n
          <5>1. At(l \o m, h) = At(l, h) /\ h \in 0..(n - 1)
            BY <1>1, <1>3, <4>1, SMTT(60)
          <5>2. QED  BY <1>4, <1>5, <1>6, <1>8, <3>1, <5>1, SMTT(60)
        <4>2. CASE h >= n
          <5>1. At(l \o m, h) = m[h + 1 - n] /\ h + 1 - n \in 1..(k + 1 - n)
            BY <1>1, <1>3, <4>2, SMTT(60)
          <5>2. QED  BY <1>8, <3>1, <5>1
        <4>3. QED  BY <1>1, <4>1, <4>2, SMTT(60)
      <3>3. QED  BY <1>8, <3>1, <3>2
    <2>3. QED  BY <1>1, <2>1, <2>2, SMTT(60)
  <1>10. QED  BY <1>2, <1>9, SMTT(60) DEF Ordered, LastIndex, n

\* A log ordered below a term is ordered below any later one.
LEMMA OrderedLater ==
  ASSUME NEW l, Anchored(l), NEW t \in Nat, Ordered(l, t), NEW u \in Nat, t <= u
  PROVE  Ordered(l, u)
  <1>1. \A m \in 0..LastIndex(l) : At(l, m).term \in Nat
    <2>1. \A m \in 0..LastIndex(l) : At(l, m) \in Entry
      BY AtType, SMTT(60) DEF Anchored, LastIndex
    <2>2. QED  BY <2>1 DEF Entry
  <1>2. QED  BY <1>1, SMTT(60) DEF Ordered

\* sendHeartBeats: what follows index next - 1 of an ordered log has terms from
\* that entry's on.
LEMMA FromGrows ==
  ASSUME NEW l, Anchored(l), NEW t \in Nat, Ordered(l, t),
         NEW next \in Nat \ {0}, next < Len(l)
  PROVE  Grows(From(l, next), At(l, next - 1).term, t)
  <1>1. l \in Seq(Entry) /\ Len(l) \in Nat
    BY SMTT(60) DEF Anchored
  <1>2. Len(From(l, next)) = Len(l) - next
        /\ \A k \in 1..(Len(l) - next) : From(l, next)[k] = At(l, next + k - 1)
    BY <1>1, SMTT(60) DEF From, At
  <1>3. \A k \in 1..(Len(l) - next) : \A h \in 0..(next + k - 1) :
          /\ At(l, next + k - 1).term <= t
          /\ At(l, h).term <= At(l, next + k - 1).term
    BY <1>1, SMTT(60) DEF Ordered, LastIndex
  <1>4. ASSUME NEW k \in 1..(Len(l) - next)
        PROVE  /\ At(l, next - 1).term <= From(l, next)[k].term
               /\ From(l, next)[k].term <= t
               /\ \A h \in 1..k : From(l, next)[h].term <= From(l, next)[k].term
    <2>1. next - 1 \in 0..(next + k - 1) /\ next + k - 1 \in 0..(next + k - 1)
      BY <1>1, SMTT(60)
    <2>2. \A h \in 1..k : /\ h \in 1..(Len(l) - next)
                          /\ next + h - 1 \in 0..(next + k - 1)
      BY <1>1, SMTT(60)
    <2>3. QED  BY <1>2, <1>3, <2>1, <2>2
  <1>5. QED  BY <1>2, <1>4 DEF Grows

\* What a call carries fits behind the entry it names, and what a peer saved is
\* as ordered as its log.
GrowingCall(r) ==
  r.rpc = "AppendEntries" => Grows(r.entries, r.prevLogTerm, r.term)
OrderInv ==
  /\ \A i \in Server : Ordered(log[i], currentTerm[i])
  /\ \A i \in Server : Ordered(persisted[i].log, persisted[i].currentTerm)
  /\ \A r \in CallsIn(requests) : GrowingCall(r)

\* Terms do not decrease, logs stay or are ordered, and new calls carry entries
\* in order.
LEMMA OrderKeeps ==
  ASSUME StructInv, StructInv', OrderInv, persisted' = persisted,
         \A j \in Server : currentTerm'[j] >= currentTerm[j],
         \A j \in Server : log'[j] = log[j] \/ Ordered(log'[j], currentTerm'[j]),
         \A r \in CallsIn(requests') : r \in CallsIn(requests) \/ GrowingCall(r)
  PROVE  OrderInv'
  <1>1. ASSUME NEW j \in Server
        PROVE  Ordered(log'[j], currentTerm'[j])
    <2>1. CASE log'[j] = log[j]
      <3>1. Anchored(log[j]) /\ currentTerm[j] \in Nat /\ currentTerm'[j] \in Nat
        <4>1. currentTerm[j] \in Nat
          BY FieldTypes
        <4>2. currentTerm'[j] \in Nat
          BY FieldTypesPrime
        <4>3. QED  BY <4>1, <4>2, LogAnchored
      <3>2. QED  BY <2>1, <3>1, OrderedLater DEF OrderInv
    <2>2. QED  BY <2>1
  <1>2. QED  BY <1>1 DEF OrderInv

\* But for a restart, no step lowers a term.
LEMMA TermsRise ==
  ASSUME StructInv, StructInv', Next, restarts' = restarts
  PROVE  \A j \in Server : currentTerm'[j] >= currentTerm[j]
  <1>1. \A j \in Server : currentTerm[j] \in Nat /\ currentTerm'[j] \in Nat
    BY FieldTypes, FieldTypesPrime
  <1>2. QED  BY <1>1, PromiseStep, SMTT(60) DEF Promise

\* A step that changes no log and sends entries in order, if any.
LEMMA OrderQuiet ==
  ASSUME StructInv, StructInv', OrderInv, Next,
         log' = log, persisted' = persisted, restarts' = restarts,
         \A r \in CallsIn(requests') : r \in CallsIn(requests) \/ GrowingCall(r)
  PROVE  OrderInv'
  <1>1. \A j \in Server : currentTerm'[j] >= currentTerm[j]
    BY TermsRise
  <1>2. \A j \in Server : log'[j] = log[j]
    OBVIOUS
  <1>3. QED  BY <1>1, <1>2, OrderKeeps

\* Start keeps every log ordered.
LEMMA OrderStart ==
  ASSUME StructInv, StructInv', OrderInv, Next,
         NEW i \in Server, NEW command \in Command, Start(i, command)
  PROVE  OrderInv'
  <1> DEFINE e == [term |-> currentTerm[i], command |-> command]
  <1>1. e \in Entry /\ e.term = currentTerm[i]
    BY FieldTypes DEF Entry
  <1>2. log' = [log EXCEPT ![i] = Append(log[i], e)]
    BY DEF Start
  <1> HIDE DEF e
  <1>3. Ordered(Append(log[i], e), currentTerm[i])
    BY <1>1, LogAnchored, OrderedAppend DEF OrderInv
  <1>4. currentTerm' = currentTerm /\ persisted' = persisted
        /\ requests' = requests /\ restarts' = restarts
    BY DEF Start, electionVars, callVars, boundVars
  <1>5. \A j \in Server : log'[j] = log[j] \/ Ordered(log'[j], currentTerm'[j])
    BY <1>2, <1>3, <1>4, FieldTypes
  <1>6. QED  BY <1>4, <1>5, TermsRise, OrderKeeps

\* sendHeartBeats sends entries in order.
LEMMA OrderHeartBeats ==
  ASSUME StructInv, StructInv', OrderInv, Next, NEW i \in Server, sendHeartBeats(i)
  PROVE  OrderInv'
  <1>1. ASSUME NEW j \in Server
        PROVE  GrowingCall(HeartBeat(i, j))
    <2> DEFINE next == nextIndex[i][j]
    <2>1. /\ HeartBeat(i, j).entries =
               IF next < Len(log[i]) THEN From(log[i], next) ELSE <<>>
          /\ HeartBeat(i, j).prevLogTerm = PrevLogTerm(log[i], next)
          /\ HeartBeat(i, j).term = currentTerm[i]
      BY DEF HeartBeat
    <2>2. next \in Nat \ {0} /\ currentTerm[i] \in Nat /\ Anchored(log[i])
      <3>1. next \in Nat \ {0} /\ currentTerm[i] \in Nat
        BY FieldTypes
      <3>2. QED  BY <3>1, LogAnchored
    <2> HIDE DEF next
    <2>3. CASE next < Len(log[i])
      <3>1. Grows(From(log[i], next), At(log[i], next - 1).term, currentTerm[i])
        BY <2>2, <2>3, FromGrows DEF OrderInv
      <3>2. QED  BY <2>1, <2>3, <3>1 DEF GrowingCall, PrevLogTerm
    <2>4. CASE ~(next < Len(log[i]))
      BY <2>1, <2>4, SMTT(60) DEF GrowingCall, Grows
    <2>5. QED  BY <2>3, <2>4
  <1>2. CallsIn(requests') = CallsIn(requests) \cup {HeartBeat(i, j) : j \in Peers(i)}
    BY SentCalls DEF sendHeartBeats
  <1>3. \A r \in CallsIn(requests') : r \in CallsIn(requests) \/ GrowingCall(r)
    BY <1>1, <1>2 DEF Peers
  <1>4. log' = log /\ persisted' = persisted /\ restarts' = restarts
    BY DEF sendHeartBeats, boundVars
  <1>5. QED  BY <1>3, <1>4, OrderQuiet

\* The AppendEntries handler leaves an ordered log, whichever branch it takes.
LEMMA OrderAppendEntries ==
  ASSUME StructInv, StructInv', OrderInv, Next,
         NEW r \in CallsIn(requests), AppendEntries(r)
  PROVE  OrderInv'
  <1> DEFINE i == r.dst
  <1>1. /\ i \in Server /\ r.term \in Nat /\ r.prevLogIndex \in Nat
        /\ r.prevLogTerm \in Nat /\ r.entries \in Seq(Entry)
    BY RequestType DEF AppendEntries
  <1>2. /\ Anchored(log[i]) /\ Len(log[i]) \in Nat /\ currentTerm[i] \in Nat
        /\ Ordered(log[i], currentTerm[i])
        /\ \A j \in Server : log[j] \in Seq(Entry)
    <2>1. currentTerm[i] \in Nat /\ \A j \in Server : log[j] \in Seq(Entry)
      BY <1>1, FieldTypes
    <2>2. Anchored(log[i]) /\ Ordered(log[i], currentTerm[i])
      BY <1>1, LogAnchored DEF OrderInv
    <2>3. QED  BY <2>1, <2>2, SMTT(60) DEF Anchored
  <1>3. persisted' = persisted /\ restarts' = restarts
    BY DEF AppendEntries, boundVars
  <1>4. CallsIn(requests') \subseteq CallsIn(requests)
    BY TakenCalls DEF AppendEntries, RejectEntries, MissEntries, ConflictEntries,
       AcceptEntries, Answer
  <1>5. \A j \in Server : currentTerm'[j] >= currentTerm[j]
    BY <1>3, TermsRise
  <1>6. currentTerm'[i] \in Nat
    BY <1>1, FieldTypesPrime
  <1>7. \A j \in Server : log'[j] = log[j] \/ Ordered(log'[j], currentTerm'[j])
    <2>1. CASE log' = log
      BY <2>1
    <2>2. CASE ConflictEntries(r)
      <3>1. r.prevLogIndex >= 1 /\ r.prevLogIndex < Len(log[i])
            /\ log' = [log EXCEPT ![i] = Upto(log[i], r.prevLogIndex)]
        <4>1. r.prevLogIndex = 0 => r.prevLogTerm = 0
          BY DEF AppendEntries, StructInv, HeartBeatsAnchored
        <4>2. /\ r.prevLogIndex < Len(log[i])
              /\ r.prevLogTerm # At(log[i], r.prevLogIndex).term
              /\ log' = [log EXCEPT ![i] = Upto(log[i], r.prevLogIndex)]
          BY <2>2 DEF ConflictEntries, Fits
        <4> HIDE DEF i
        <4>3. r.prevLogIndex # 0
          BY <1>2, <4>1, <4>2 DEF Anchored
        <4>4. QED  BY <1>1, <4>2, <4>3, SMTT(60)
      <3>2. /\ Ordered(Upto(log[i], r.prevLogIndex), currentTerm[i])
            /\ Anchored(Upto(log[i], r.prevLogIndex))
        BY <1>1, <1>2, <3>1, OrderedUpto, UptoAnchored, SMTT(60)
      <3>3. Ordered(Upto(log[i], r.prevLogIndex), currentTerm'[i])
        BY <1>1, <1>2, <1>5, <1>6, <3>2, OrderedLater
      <3> HIDE DEF i
      <3>4. QED  BY <1>1, <3>1, <3>3, FieldTypes
    <2>3. CASE AcceptEntries(r)
      <3> DEFINE kept == Upto(log[i], r.prevLogIndex + 1)
                 newLog == kept \o r.entries
      <3>1. /\ r.prevLogIndex + 1 \in Nat /\ 1 <= r.prevLogIndex + 1
            /\ r.prevLogIndex + 1 <= Len(log[i])
            /\ r.prevLogTerm = At(log[i], r.prevLogIndex).term
            /\ log' = [log EXCEPT ![i] = newLog]
        <4>1. /\ r.prevLogIndex < Len(log[i])
              /\ r.prevLogTerm = At(log[i], r.prevLogIndex).term
              /\ log' = [log EXCEPT ![i] = newLog]
          BY <2>3 DEF AcceptEntries, Fits, NewLog
        <4> HIDE DEF newLog, i
        <4>2. QED  BY <1>1, <1>2, <4>1, SMTT(60)
      <3>2. Anchored(kept) /\ Len(kept) = r.prevLogIndex + 1
            /\ Ordered(kept, currentTerm[i])
        BY <1>2, <3>1, UptoAnchored, OrderedUpto
      <3>3. LastIndex(kept) = r.prevLogIndex
            /\ At(kept, r.prevLogIndex) = At(log[i], r.prevLogIndex)
        <4>1. LastIndex(kept) = r.prevLogIndex
          BY <1>1, <3>2, SMTT(60) DEF LastIndex
        <4>2. log[i] \in Seq(Entry) /\ r.prevLogIndex \in 0..(r.prevLogIndex + 1 - 1)
          BY <1>1, <1>2, SMTT(60)
        <4>3. QED  BY <3>1, <4>1, <4>2, UptoAt, SMTT(60)
      <3>4. r.term >= currentTerm[i] /\ currentTerm'[i] = r.term
        <4>1. r.term >= currentTerm[i] /\ ObserveTerm(i, r.term)
          BY <2>3 DEF AcceptEntries, Current
        <4>2. currentTerm \in [Server -> Nat]
          BY FieldTypes
        <4>3. QED
          BY <1>1, <1>2, <4>1, <4>2, SMTT(60) DEF ObserveTerm, StepDown, electionVars
      <3>5. Ordered(kept, r.term)
        BY <1>1, <1>2, <3>2, <3>4, OrderedLater
      <3>6. Grows(r.entries, At(kept, LastIndex(kept)).term, r.term)
        BY <3>1, <3>3 DEF OrderInv, GrowingCall, AppendEntries
      <3> HIDE DEF kept
      <3>7. Ordered(newLog, r.term)
        BY <1>1, <3>2, <3>5, <3>6, OrderedConcat
      <3> HIDE DEF newLog, i
      <3>8. QED  BY <1>1, <3>1, <3>4, <3>7, FieldTypes
    <2>4. QED
      BY <2>1, <2>2, <2>3 DEF AppendEntries, RejectEntries, MissEntries
  <1>8. QED  BY <1>3, <1>4, <1>5, <1>7, OrderKeeps

\* Every step preserves the invariant.
LEMMA OrderStep ==
  ASSUME StructInv, StructInv', OrderInv, Next
  PROVE  OrderInv'
  <1>1. ASSUME NEW i \in Server, persist(i)
        PROVE  OrderInv'
    <2>1. \A j \in Server : \/ persisted'[j] = persisted[j]
                            \/ persisted'[j] = Durable(j)
      BY <1>1, FieldTypes DEF persist
    <2>2. log' = log /\ currentTerm' = currentTerm /\ requests' = requests
      BY <1>1 DEF persist, electionVars, callVars
    <2>3. ASSUME NEW j \in Server
          PROVE  Ordered(persisted'[j].log, persisted'[j].currentTerm)
      <3>1. /\ Durable(j).log = log[j] /\ Durable(j).currentTerm = currentTerm[j]
            /\ Ordered(log[j], currentTerm[j])
            /\ Ordered(persisted[j].log, persisted[j].currentTerm)
        BY DEF Durable, OrderInv
      <3>2. QED  BY <2>1, <3>1
    <2>4. QED  BY <2>2, <2>3 DEF OrderInv
  <1>2. ASSUME NEW i \in Server, becomeCandidate(i)
        PROVE  OrderInv'
    <2>1. \A r \in CallsIn(requests') : r \in CallsIn(requests) \/ GrowingCall(r)
      <3> DEFINE Ask(j) ==
            [rpc |-> "RequestVote", src |-> i, dst |-> j,
             term |-> currentTerm[i] + 1, candidateId |-> i,
             lastLogIndex |-> LastIndex(log[i]),
             lastLogTerm |-> At(log[i], LastIndex(log[i])).term]
      <3>1. requests' = Send(requests, {Ask(j) : j \in Peers(i)})
        BY <1>2 DEF becomeCandidate
      <3>2. \A j \in Peers(i) : Ask(j).rpc = "RequestVote"
        OBVIOUS
      <3> HIDE DEF Ask
      <3>3. CallsIn(requests') = CallsIn(requests) \cup {Ask(j) : j \in Peers(i)}
        BY <3>1, SentCalls
      <3>4. QED  BY <3>2, <3>3 DEF GrowingCall
    <2>2. log' = log /\ persisted' = persisted /\ restarts' = restarts
      BY <1>2 DEF becomeCandidate
    <2>3. QED  BY <2>1, <2>2, OrderQuiet
  <1>3. ASSUME NEW r \in CallsIn(requests), RequestVote(r)
        PROVE  OrderInv'
    <2>1. CallsIn(requests') \subseteq CallsIn(requests)
      BY <1>3, TakenCalls DEF RequestVote, RejectVote, DecideVote, Answer
    <2>2. log' = log /\ persisted' = persisted /\ restarts' = restarts
      BY <1>3 DEF RequestVote, boundVars
    <2>3. QED  BY <2>1, <2>2, OrderQuiet
  <1>4. ASSUME NEW c \in CallsIn(replies), sendRequestVote(c)
        PROVE  OrderInv'
    <2>1. \A r \in CallsIn(requests') : r \in CallsIn(requests) \/ GrowingCall(r)
      <3>1. CASE requests' = requests
        BY <3>1
      <3>2. CASE BecomeLeader(c.req.src)
        <4> DEFINE S == {[rpc |-> "AppendEntries", src |-> c.req.src, dst |-> j,
                          term |-> 0, prevLogIndex |-> 0, prevLogTerm |-> 0,
                          entries |-> <<>>, leaderCommit |-> 0] :
                            j \in Peers(c.req.src)}
        <4>1. CallsIn(requests') = CallsIn(requests) \cup S
          BY <3>2, SentCalls DEF BecomeLeader
        <4>2. \A r \in S : r.entries = <<>>
          BY SMTT(60)
        <4>3. \A r \in S : GrowingCall(r)
          BY <4>2, SMTT(60) DEF GrowingCall, Grows
        <4>4. QED  BY <4>1, <4>3
      <3>3. QED  BY <1>4, <3>1, <3>2 DEF sendRequestVote, CountVote
    <2>2. log' = log /\ persisted' = persisted /\ restarts' = restarts
      BY <1>4 DEF sendRequestVote, boundVars
    <2>3. QED  BY <2>1, <2>2, OrderQuiet
  <1>5. ASSUME NEW c \in CallsIn(replies), sendAppendEntries(c)
        PROVE  OrderInv'
    <2>1. log' = log /\ persisted' = persisted /\ restarts' = restarts
          /\ requests' = requests
      BY <1>5 DEF sendAppendEntries, boundVars
    <2>2. QED  BY <2>1, OrderQuiet
  <1>6. ASSUME NEW i \in Server, LoseCalls(i)
        PROVE  OrderInv'
    <2>1. CallsIn(requests') \subseteq CallsIn(requests)
      BY <1>6, KeptCalls DEF LoseCalls
    <2>2. log' = log /\ persisted' = persisted /\ restarts' = restarts
      BY <1>6 DEF LoseCalls, boundVars
    <2>3. QED  BY <2>1, <2>2, OrderQuiet
  <1>7. ASSUME NEW i \in Server, Restart(i)
        PROVE  OrderInv'
    <2>1. /\ log' = [log EXCEPT ![i] = Recovered(i).log]
          /\ currentTerm' = [currentTerm EXCEPT ![i] = Recovered(i).currentTerm]
          /\ persisted' = [persisted EXCEPT ![i] = Recovered(i)]
      BY <1>7 DEF Restart
    <2>2. Ordered(Recovered(i).log, Recovered(i).currentTerm)
      BY DEF Recovered, Durable, OrderInv
    <2>3. /\ \A j \in Server : Ordered(log'[j], currentTerm'[j])
          /\ \A j \in Server : Ordered(persisted'[j].log, persisted'[j].currentTerm)
      BY <2>1, <2>2, FieldTypes DEF OrderInv
    <2>4. ASSUME NEW q \in CallsIn(requests')
          PROVE  GrowingCall(q)
      <3>1. PICK r \in CallsIn(requests) : q = Orphaned(r, i)
        BY <1>7, KeptCalls, OrphanedCalls, SMTT(60) DEF Restart
      <3>2. r \in Request /\ GrowingCall(r)
        BY RequestType DEF OrderInv
      <3>3. /\ q.rpc = r.rpc
            /\ r.rpc = "AppendEntries" => /\ q.entries = r.entries
                                          /\ q.prevLogTerm = r.prevLogTerm
                                          /\ q.term = r.term
        BY <3>1, <3>2 DEF Orphaned, Request, RequestVoteArgs, AppendEntriesArgs
      <3>4. QED  BY <3>2, <3>3 DEF GrowingCall
    <2>5. QED  BY <2>3, <2>4 DEF OrderInv
  <1>8. QED
    BY <1>1, <1>2, <1>3, <1>4, <1>5, <1>6, <1>7, OrderStart, OrderHeartBeats,
       OrderAppendEntries DEF Next

\* In every log the terms do not decrease and do not exceed the peer's term,
\* although AppendEntries joins a part of the follower's log to a part of a
\* leader's that may have been sent long ago, and a crash may bring back an
\* older log.
THEOREM LogTermsAreOrdered == Spec => []LogTermsOrdered
  <1>1. Init => OrderInv
    <2>1. ASSUME Init PROVE OrderInv
      <3>1. Ordered(<<Dummy>>, 0)
        BY SMTT(60) DEF Ordered, LastIndex, At, Dummy
      <3>2. \A i \in Server : /\ log[i] = <<Dummy>> /\ currentTerm[i] = 0
                              /\ persisted[i].log = <<Dummy>>
                              /\ persisted[i].currentTerm = 0
        BY <2>1 DEF Init
      <3>3. CallsIn(requests) = {}
        BY <2>1, NoneYet DEF Init
      <3>4. QED  BY <3>1, <3>2, <3>3 DEF OrderInv
    <2>2. QED  BY <2>1
  <1>2. StructInv /\ StructInv' /\ OrderInv /\ [Next]_vars => OrderInv'
    <2>1. ASSUME OrderInv, UNCHANGED vars PROVE OrderInv'
      BY <2>1 DEF OrderInv, vars, electionVars, callVars
    <2>2. QED  BY <2>1, OrderStep
  <1>3. OrderInv => LogTermsOrdered
    BY DEF OrderInv, Ordered, LogTermsOrdered
  <1>4. QED  BY <1>1, <1>2, <1>3, Structure, PTL DEF Spec

-----------------------------------------------------------------------------
(* How often a call is in flight.                                          *)

\* A call that is sent is in flight once if it was not before; others stay.
LEMMA OnceAdd ==
  ASSUME NEW B, NEW S, NEW e,
         \/ e \in CallsIn(B) /\ B[e] = 1 /\ e \notin S
         \/ e \notin CallsIn(B) /\ e \in S
  PROVE  Send(B, S)[e] = 1
  BY SMTT(60) DEF Send, Copies, CallsIn

\* A call that was in flight once is gone when it is taken; others stay.
LEMMA OnceRemove ==
  ASSUME NEW B, NEW x
  PROVE  /\ B[x] = 1 => x \notin CallsIn(Take(B, x))
         /\ \A e \in CallsIn(Take(B, x)) :
              e # x /\ B[e] = 1 => Take(B, x)[e] = 1
  BY SMTT(60) DEF Take, Keep, CallsIn

\* Losing calls does not multiply others.
LEMMA OnceKeep ==
  ASSUME NEW B, NEW S, NEW e \in CallsIn(Keep(B, S))
  PROVE  e \in CallsIn(B) /\ Keep(B, S)[e] = B[e]
  BY DEF Keep, CallsIn

\* A restart leaves the awaited calls of others as they were.
LEMMA OnceOrphan ==
  ASSUME Counting, NEW B, CallsIn(B) \subseteq Request, NEW i \in Server,
         NEW e \in CallsIn(OrphanRequests(B, i)), e.src # Nil
  PROVE  e \in CallsIn(B) /\ e.src # i /\ (B[e] = 1 => OrphanRequests(B, i)[e] = 1)
  <1>1. ASSUME NEW r \in CallsIn(B), r.src = i
        PROVE  Orphaned(r, i).src = Nil
    BY <1>1 DEF Orphaned, Request, RequestVoteArgs, AppendEntriesArgs
  <1>2. PICK q \in CallsIn(B) : e = Orphaned(q, i)
    BY OrphanedCalls, SMTT(60)
  <1>3. e \in CallsIn(B) /\ e.src # i
    BY <1>1, <1>2 DEF Orphaned
  <1>4. \A r \in CallsIn(B) : Orphaned(r, i) = e <=> r = e
    BY <1>3, <1>1 DEF Orphaned
  <1> DEFINE K == Keep(B, {r \in CallsIn(B) : Orphaned(r, i) = e})
  <1>5. OrphanRequests(B, i)[e] = Number(K)
    BY DEF OrphanRequests, Turn, CallsIn
  <1>6. CallsIn(K) = {e} /\ K[e] = B[e]
    BY <1>4, <1>3 DEF Keep, CallsIn
  <1> HIDE DEF K
  <1>7. B[e] = 1 => Number(K) = 1
    <2>1. B[e] = 1 => UNION {{c} \X (1 .. K[c]) : c \in CallsIn(K)} = {<<e, 1>>}
      BY <1>6, SMTT(60)
    <2>2. Cardinality({<<e, 1>>}) = 1
      BY DEF Counting
    <2> QED BY <2>1, <2>2 DEF Number
  <1> QED BY <1>3, <1>5, <1>7

-----------------------------------------------------------------------------
(* Steps that start no election and move no vote.                          *)

FewerRequests ==
  \A r \in VoteRequests' : r \in VoteRequests /\ (requests[r] = 1 => requests'[r] = 1)
FewerReplies ==
  \A c \in VoteReplies' : c \in VoteReplies /\ (replies[c] = 1 => replies'[c] = 1)

\* A candidacy after the step is one from before it.
Stays(i) == Standing(i)' => Standing(i) /\ currentTerm'[i] = currentTerm[i]

\* Who is asked for a vote, and who answers, are peers.
LEMMA VoteCallType ==
  ASSUME StructInv
  PROVE  /\ \A r \in VoteRequests :
              /\ r \in CallsIn(requests) /\ r \in Request /\ r.src \in Server
              /\ r.dst \in Server /\ r.candidateId \in Server /\ r.term \in Nat
         /\ \A c \in VoteReplies :
              /\ c \in CallsIn(replies) /\ c.req \in Request /\ c.req.src \in Server
              /\ c.req.dst \in Server /\ c.req.term \in Nat
  <1>1. ASSUME NEW r \in VoteRequests
        PROVE  /\ r \in CallsIn(requests) /\ r \in Request /\ r.src \in Server
               /\ r.dst \in Server /\ r.candidateId \in Server /\ r.term \in Nat
    <2>1. r \in Request /\ r.rpc = "RequestVote" /\ r.src # Nil
      BY RequestType DEF VoteRequests
    <2>2. QED
      BY <2>1 DEF VoteRequests, Request, RequestVoteArgs, AppendEntriesArgs
  <1>2. ASSUME NEW c \in VoteReplies
        PROVE  /\ c \in CallsIn(replies) /\ c.req \in Request /\ c.req.src \in Server
               /\ c.req.dst \in Server /\ c.req.term \in Nat
    <2>1. c \in CallsIn(replies) /\ c.req \in Request /\ c.req.src \in Server
          /\ c.req.dst \in Server
      BY ReplyType DEF VoteReplies
    <2>2. QED  BY <2>1 DEF Request, RequestVoteArgs, AppendEntriesArgs
  <1>3. QED  BY <1>1, <1>2

\* A call stays recent while its caller starts no election.
LEMMA RecentKept ==
  ASSUME NEW r, Recent(r), Stays(r.src)
  PROVE  Recent(r)'
  BY DEF Recent, Stays

\* Fewer calls, and no new candidacy: calls are still made once.
LEMMA CallsKept ==
  ASSUME StructInv, CallsOnce, FewerRequests, FewerReplies,
         \A j \in Server : Stays(j)
  PROVE  CallsOnce'
  <1>1. ASSUME NEW r \in VoteRequests'
        PROVE  r \in VoteRequests /\ requests'[r] = 1 /\ Recent(r)'
    BY VoteCallType, RecentKept DEF FewerRequests, CallsOnce
  <1>2. ASSUME NEW c \in VoteReplies'
        PROVE  c \in VoteReplies /\ replies'[c] = 1 /\ Recent(c.req)'
    BY VoteCallType, RecentKept DEF FewerReplies, CallsOnce
  <1>3. QED  BY <1>1, <1>2 DEF CallsOnce, SameCall

\* The step changes no candidacy.
Unmoved(i) ==
  /\ Stays(i) /\ Promise(i)
  /\ Standing(i)' => state'[i] = state[i] /\ votes'[i] = votes[i]

\* Votes that are not taken back elect the same peers.
LEMMA ElectorsMore ==
  ASSUME NEW V, NEW U, VotesStay(V, U), NEW t \in Nat, NEW i \in Server
  PROVE  /\ Electors(V, t, i) \subseteq Electors(U, t, i)
         /\ Electors(U, t, i) \subseteq Server
  BY NilAssumption DEF VotesStay, Electors

\* Fewer calls are waited for.
LEMMA FewerPending ==
  ASSUME FewerRequests, FewerReplies, NEW i
  PROVE  Pending(i)' \subseteq Pending(i)
  <1>1. ASSUME NEW p \in Pending(i)'
        PROVE  p \in Pending(i)
    <2>1. \/ \E r \in VoteRequests' : r.src = i /\ p = r.dst
          \/ \E c \in VoteReplies' : c.req.src = i /\ p = c.req.dst
      BY DEF Pending
    <2>2. \/ \E r \in VoteRequests : r.src = i /\ p = r.dst
          \/ \E c \in VoteReplies : c.req.src = i /\ p = c.req.dst
      BY <2>1 DEF FewerRequests, FewerReplies
    <2>3. QED  BY <2>2 DEF Pending
  <1>2. QED  BY <1>1

\* Who has the votes, and waits for fewer, has them still.
LEMMA CountedMore ==
  ASSUME Counting, StructInv, StructInv', NEW V, NEW U, VotesStay(V, U), NEW i \in Server,
         Counted(V, i), currentTerm'[i] = currentTerm[i], state'[i] = state[i],
         votes'[i] = votes[i], Pending(i)' \subseteq Pending(i)
  PROVE  Counted(U, i)'
  <1> DEFINE S == Electors(V, currentTerm[i], i) \ Pending(i)
             T == Electors(U, currentTerm[i], i) \ Pending(i)'
  <1>1. currentTerm[i] \in Nat /\ votes[i] \in Nat
    BY StructParts DEF ElectionTypes, CountTypes
  <1>2. S \subseteq T /\ T \subseteq Server
    BY <1>1, ElectorsMore
  <1>3. currentTerm[i] >= 1 /\ votes[i] <= Cardinality(S)
        /\ (state[i] = "Leader" => Majority(votes[i]))
    BY DEF Counted
  <1> HIDE DEF S
  <1>4. votes'[i] <= Cardinality(T)
    <2> HIDE DEF T
    <2>1. Cardinality(S) <= Cardinality(T) /\ Cardinality(S) \in Nat /\ Cardinality(T) \in Nat
      BY <1>2 DEF Counting
    <2>2. QED  BY <1>1, <1>3, <2>1, SMTT(60)
  <1>5. Electors(U, currentTerm[i], i)' = Electors(U, currentTerm[i], i)
    BY DEF Electors
  <1>6. QED  BY <1>3, <1>4, <1>5 DEF Counted, Majority

\* A vote that is under way was given, as before.
LEMMA GivenKept ==
  ASSUME StructInv, NEW V, NEW U, VotesStay(V, U), Given(V), FewerReplies
  PROVE  Given(U)'
  <1>1. ASSUME NEW c \in VoteReplies', c.ok
        PROVE  U[c.req.term][c.req.dst] = c.req.src
    <2>1. c \in VoteReplies
      BY DEF FewerReplies
    <2>2. c.req.term \in Nat /\ c.req.dst \in Server /\ c.req.src # Nil
      BY <2>1, VoteCallType, NilAssumption
    <2>3. V[c.req.term][c.req.dst] = c.req.src
      BY <1>1, <2>1 DEF Given
    <2>4. QED  BY <2>2, <2>3 DEF VotesStay
  <1>2. QED  BY <1>1 DEF Given

\* Fewer calls, kept promises and no change to a candidate: the votes add up.
LEMMA BallotsKept ==
  ASSUME Counting, StructInv, StructInv', NEW V, Ballots(V), NEW U, U = Recall(V),
         FewerRequests, FewerReplies, \A j \in Server : Unmoved(j)
  PROVE  Ballots(U)'
  <1>1. CallsOnce /\ Recorded(V) /\ Given(V)
    BY DEF Ballots
  <1>2. VotesStay(V, U) /\ Recorded(U)'
    BY <1>1, VotesRecalled DEF Unmoved
  <1>3. CallsOnce'
    BY <1>1, CallsKept DEF Unmoved
  <1>4. Given(U)'
    BY <1>1, <1>2, GivenKept
  <1>5. ASSUME NEW i \in Server, Standing(i)'
        PROVE  Counted(U, i)'
    <2>1. /\ Standing(i) /\ currentTerm'[i] = currentTerm[i]
          /\ state'[i] = state[i] /\ votes'[i] = votes[i]
      BY <1>5 DEF Unmoved, Stays
    <2>2. Counted(V, i) /\ Pending(i)' \subseteq Pending(i)
      BY <2>1, FewerPending DEF Ballots
    <2>3. QED  BY <1>2, <2>1, <2>2, CountedMore
  <1>6. QED  BY <1>2, <1>3, <1>4, <1>5 DEF Ballots

\* Sending AppendEntries sends no vote request.
LEMMA SendNoVote ==
  ASSUME NEW S, \A r \in S : r.rpc = "AppendEntries",
         requests' = Send(requests, S)
  PROVE  FewerRequests
  <1>1. CallsIn(requests') = CallsIn(requests) \cup S
    BY SentCalls
  <1>2. ASSUME NEW r \in VoteRequests'
        PROVE  r \in VoteRequests /\ (requests[r] = 1 => requests'[r] = 1)
    <2>1. r \in CallsIn(requests) /\ r \notin S
      BY <1>1 DEF VoteRequests
    <2>2. QED  BY <2>1, OnceAdd DEF VoteRequests
  <1>3. QED  BY <1>2 DEF FewerRequests

\* Nor does a step that leaves the requests alone, or the replies.
LEMMA CallsStay ==
  /\ requests' = requests => FewerRequests
  /\ replies' = replies => FewerReplies
  BY DEF FewerRequests, FewerReplies, VoteRequests, VoteReplies

\* Taking out a request that is no awaited vote request.
LEMMA TakeRequest ==
  ASSUME NEW r, r \notin VoteRequests, requests' = Take(requests, r)
  PROVE  FewerRequests
  <1>1. CallsIn(requests') \subseteq CallsIn(requests)
    BY TakenCalls
  <1>2. ASSUME NEW q \in VoteRequests'
        PROVE  q \in VoteRequests /\ (requests[q] = 1 => requests'[q] = 1)
    BY <1>1, OnceRemove DEF VoteRequests
  <1>3. QED  BY <1>2 DEF FewerRequests

\* Receiving a reply, which is there once if it carries a vote.
LEMMA TakeReply ==
  ASSUME CallsOnce, NEW c \in CallsIn(replies),
         replies' = Take(replies, c)
  PROVE  FewerReplies /\ c \notin VoteReplies'
  <1>1. CallsIn(replies') \subseteq CallsIn(replies)
    BY TakenCalls
  <1>2. c \notin VoteReplies'
    BY OnceRemove DEF CallsOnce, VoteReplies
  <1>3. ASSUME NEW d \in VoteReplies'
        PROVE  d \in VoteReplies /\ (replies[d] = 1 => replies'[d] = 1)
    <2>1. d # c
      BY <1>2
    <2>2. d \in CallsIn(replies') /\ d.req.rpc = "RequestVote"
      BY DEF VoteReplies
    <2>3. replies[d] = 1 => replies'[d] = 1
      <3>1. \A e \in CallsIn(replies') : e # c /\ replies[e] = 1 => replies'[e] = 1
        BY OnceRemove
      <3>2. QED  BY <2>1, <2>2, <3>1
    <2>4. QED  BY <1>1, <2>2, <2>3 DEF VoteReplies
  <1>4. QED  BY <1>2, <1>3 DEF FewerReplies

\* An answer to a request that is no awaited vote request.
LEMMA AnswerNoVote ==
  ASSUME NEW r \in CallsIn(requests), NEW t, NEW ok, Answer(r, t, ok),
         r.rpc = "AppendEntries" \/ r.src = Nil
  PROVE  FewerRequests /\ FewerReplies
  <1> DEFINE c == [req |-> r, term |-> t, ok |-> ok]
  <1>1. FewerRequests
    BY TakeRequest DEF Answer, VoteRequests
  <1>2. CASE r.src = Nil
    BY <1>1, <1>2, CallsStay DEF Answer
  <1>3. CASE r.src # Nil
    <2>1. replies' = Send(replies, {c}) /\ c.req = r
      BY <1>3 DEF Answer
    <2> HIDE DEF c
    <2>2. CallsIn(replies') = CallsIn(replies) \cup {c}
      BY <2>1, SentCalls
    <2>3. ASSUME NEW d \in VoteReplies'
          PROVE  d \in VoteReplies /\ (replies[d] = 1 => replies'[d] = 1)
      <3>1. d \in CallsIn(replies) /\ d \notin {c} /\ d.req.rpc = "RequestVote"
        BY <1>3, <2>1, <2>2 DEF VoteReplies
      <3>2. QED  BY <2>1, <3>1, OnceAdd, SMTT(60) DEF VoteReplies
    <2>4. QED  BY <1>1, <2>3 DEF FewerReplies
  <1>4. QED  BY <1>2, <1>3

-----------------------------------------------------------------------------
(* The votes, action by action.                                            *)

\* A step that leaves state, term, vote and count alone.
LEMMA UnmovedVars ==
  ASSUME StructInv, UNCHANGED <<electionVars, votes>>, NEW j \in Server
  PROVE  Unmoved(j)
  BY PromiseUnchanged DEF Unmoved, Stays, Standing, electionVars

\* A step in which one peer steps down.
LEMMA UnmovedStepDown ==
  ASSUME StructInv, NEW i \in Server, NEW t \in Nat, t > currentTerm[i],
         StepDown(i, t), votes' = votes, NEW j \in Server
  PROVE  Unmoved(j)
  <1>1. Promise(j)
    BY PromiseStepDown
  <1>2. CASE j = i
    <2>1. state'[j] = "Follower"
      BY <1>2, StructParts DEF StepDown, ElectionTypes
    <2>2. QED  BY <1>1, <2>1 DEF Unmoved, Stays, Standing
  <1>3. CASE j # i
    <2>1. state'[j] = state[j] /\ currentTerm'[j] = currentTerm[j]
      BY <1>3, StructParts DEF StepDown, ElectionTypes
    <2>2. QED  BY <1>1, <2>1 DEF Unmoved, Stays, Standing
  <1>4. QED  BY <1>2, <1>3

\* Start moves no vote.
LEMMA BallotsStart ==
  ASSUME Counting, StructInv, StructInv', NEW V, Ballots(V), NEW U, U = Recall(V),
         NEW i, NEW command, Start(i, command)
  PROVE  Ballots(U)'
  BY UnmovedVars, CallsStay, BallotsKept DEF Start, callVars

\* Nor does persist().
LEMMA BallotsPersist ==
  ASSUME Counting, StructInv, StructInv', NEW V, Ballots(V), NEW U, U = Recall(V),
         NEW i, persist(i)
  PROVE  Ballots(U)'
  BY UnmovedVars, CallsStay, BallotsKept DEF persist, callVars

\* Heartbeats ask for no vote.
LEMMA BallotsHeartBeats ==
  ASSUME Counting, StructInv, StructInv', NEW V, Ballots(V), NEW U, U = Recall(V),
         NEW i \in Server, sendHeartBeats(i)
  PROVE  Ballots(U)'
  <1> DEFINE S == {HeartBeat(i, j) : j \in Peers(i)}
  <1>1. \A r \in S : r.rpc = "AppendEntries"
    BY SMTT(60) DEF HeartBeat
  <1>2. requests' = Send(requests, S) /\ replies' = replies
        /\ UNCHANGED <<electionVars, votes>>
    BY DEF sendHeartBeats
  <1> HIDE DEF S
  <1>3. FewerRequests /\ FewerReplies
    BY <1>1, <1>2, SendNoVote, CallsStay
  <1>4. QED  BY <1>2, <1>3, UnmovedVars, BallotsKept

\* AppendEntries can end a candidacy, and moves no vote.
LEMMA BallotsAppendEntries ==
  ASSUME Counting, StructInv, StructInv', NEW V, Ballots(V), NEW U, U = Recall(V),
         NEW r \in CallsIn(requests),
         AppendEntries(r)
  PROVE  Ballots(U)'
  <1>1. r.dst \in Server /\ r.term \in Nat /\ currentTerm[r.dst] \in Nat
    BY RequestType, FieldTypes
  <1>2. \E t, ok : Answer(r, t, ok)
    BY DEF AppendEntries, RejectEntries, MissEntries, ConflictEntries,
       AcceptEntries
  <1>3. FewerRequests /\ FewerReplies
    BY <1>2, AnswerNoVote DEF AppendEntries
  <1>4. ObserveTerm(r.dst, r.term) \/ UNCHANGED electionVars
    BY DEF AppendEntries, RejectEntries, MissEntries, ConflictEntries,
       AcceptEntries
  <1>5. votes' = votes
    BY DEF AppendEntries
  <1>6. \A j \in Server : Unmoved(j)
    BY <1>1, <1>4, <1>5, UnmovedVars, UnmovedStepDown DEF ObserveTerm
  <1>7. QED  BY <1>3, <1>6, BallotsKept

\* A leader that reads a reply steps down or changes only its indexes.
LEMMA BallotsSendAppendEntries ==
  ASSUME Counting, StructInv, StructInv', NEW V, Ballots(V), NEW U, U = Recall(V),
         NEW c \in CallsIn(replies),
         sendAppendEntries(c)
  PROVE  Ballots(U)'
  <1>1. c.req.src \in Server /\ c.term \in Nat
    BY ReplyType
  <1>2. FewerRequests /\ FewerReplies
    BY TakeReply, CallsStay DEF sendAppendEntries, Ballots
  <1>3. votes' = votes
    BY DEF sendAppendEntries
  <1>4. \/ UNCHANGED electionVars
        \/ c.term > currentTerm[c.req.src] /\ StepDown(c.req.src, c.term)
    BY DEF sendAppendEntries, LeaderStepsDown, BackOff, Matched
  <1>5. \A j \in Server : Unmoved(j)
    BY <1>1, <1>3, <1>4, UnmovedVars, UnmovedStepDown
  <1>6. QED  BY <1>2, <1>5, BallotsKept

\* Lost calls are fewer calls.
LEMMA BallotsLoseCalls ==
  ASSUME Counting, StructInv, StructInv', NEW V, Ballots(V), NEW U, U = Recall(V),
         NEW i \in Server, LoseCalls(i)
  PROVE  Ballots(U)'
  <1>1. FewerRequests /\ FewerReplies
    BY OnceKeep DEF LoseCalls, FewerRequests, FewerReplies, VoteRequests, VoteReplies
  <1>2. UNCHANGED <<electionVars, votes>>
    BY DEF LoseCalls
  <1>3. QED  BY <1>1, <1>2, UnmovedVars, BallotsKept

\* A restarted peer is a follower that remembers its term and its vote, as long
\* as a crash loses neither; and nobody waits for its calls any more.
LEMMA BallotsRestart ==
  ASSUME Counting, StructInv, StructInv', NEW V, Ballots(V), NEW U, U = Recall(V),
         ~LossyCrash, NEW i \in Server,
         Restart(i)
  PROVE  Ballots(U)'
  <1> DEFINE K == Keep(requests, {r \in CallsIn(requests) : r.dst # i})
  <1>1. /\ state' = [state EXCEPT ![i] = "Follower"]
        /\ currentTerm' = [currentTerm EXCEPT ![i] = currentTerm[i]]
        /\ votedFor' = [votedFor EXCEPT ![i] = votedFor[i]]
        /\ votes' = [votes EXCEPT ![i] = 0]
        /\ requests' = OrphanRequests(K, i)
        /\ replies' = Keep(replies, {c \in CallsIn(replies) : c.req.src # i})
    BY DEF Restart, Recovered, Durable
  <1>2. currentTerm' = currentTerm /\ votedFor' = votedFor
    BY <1>1, FieldTypes
  <1>3. FewerReplies
    BY <1>1, OnceKeep DEF FewerReplies, VoteReplies
  <1>4. FewerRequests
    <2>1. CallsIn(K) \subseteq CallsIn(requests)
      BY KeptCalls
    <2>2. CallsIn(K) \subseteq Request
      BY <2>1, StructParts DEF CallInv
    <2>3. \A r \in CallsIn(K) : K[r] = requests[r]
      BY OnceKeep
    <2> HIDE DEF K
    <2>4. ASSUME NEW r \in VoteRequests'
          PROVE  r \in VoteRequests /\ (requests[r] = 1 => requests'[r] = 1)
      <3>1. r \in CallsIn(OrphanRequests(K, i)) /\ r.src # Nil /\ r.rpc = "RequestVote"
        BY <1>1 DEF VoteRequests
      <3>2. r \in CallsIn(K) /\ (K[r] = 1 => OrphanRequests(K, i)[r] = 1)
        BY <2>2, <3>1, OnceOrphan, SMTT(60)
      <3>3. QED  BY <1>1, <2>1, <2>3, <3>1, <3>2 DEF VoteRequests
    <2>5. QED  BY <2>4 DEF FewerRequests
  <1>5. ASSUME NEW j \in Server
        PROVE  Unmoved(j)
    <2>1. Promise(j)
      BY <1>2 DEF Promise
    <2>2. j = i => state'[j] = "Follower"
      BY <1>1, StructParts DEF ElectionTypes
    <2>3. j # i => state'[j] = state[j] /\ votes'[j] = votes[j]
      BY <1>1, StructParts DEF ElectionTypes, CountTypes
    <2>4. QED  BY <1>2, <2>1, <2>2, <2>3 DEF Unmoved, Stays, Standing
  <1>6. QED  BY <1>3, <1>4, <1>5, BallotsKept

\* A new candidate has no call outstanding, so the calls it makes are its only
\* ones; and it has its own vote.
LEMMA BallotsCandidate ==
  ASSUME Counting, StructInv, StructInv', NEW V, Ballots(V), NEW U, U = Recall(V), Prompt,
         NEW i \in Server, becomeCandidate(i), \A j \in Server : Promise(j)
  PROVE  Ballots(U)'
  <1> DEFINE S == {[rpc |-> "RequestVote", src |-> i, dst |-> j,
                    term |-> currentTerm[i] + 1, candidateId |-> i,
                    lastLogIndex |-> LastIndex(log[i]),
                    lastLogTerm |-> At(log[i], LastIndex(log[i])).term] :
                     j \in Peers(i)}
  <1>1. /\ Quiet(i)
        /\ state' = [state EXCEPT ![i] = "Candidate"]
        /\ currentTerm' = [currentTerm EXCEPT ![i] = @ + 1]
        /\ votedFor' = [votedFor EXCEPT ![i] = i]
        /\ votes' = [votes EXCEPT ![i] = 1]
        /\ requests' = Send(requests, S)
        /\ replies' = replies
    BY DEF becomeCandidate
  <1>2. /\ \A r \in S : /\ r.src = i /\ r.dst \in Server /\ r.dst # i
                        /\ r.term = currentTerm[i] + 1 /\ r.candidateId = i
        /\ \A r, q \in S : r.dst = q.dst => r = q
    BY SMTT(60) DEF Peers
  <1> HIDE DEF S
  <1>3. CallsOnce /\ Recorded(V) /\ Given(V)
    BY DEF Ballots
  <1>4. VotesStay(V, U) /\ Recorded(U)'
    BY <1>3, VotesRecalled
  <1>5. /\ state'[i] = "Candidate" /\ currentTerm'[i] = currentTerm[i] + 1
        /\ votedFor'[i] = i /\ votes'[i] = 1 /\ currentTerm[i] \in Nat
        /\ \A j \in Server : j # i => /\ state'[j] = state[j] /\ votes'[j] = votes[j]
                                      /\ currentTerm'[j] = currentTerm[j]
    BY <1>1, StructParts DEF ElectionTypes, CountTypes
  <1>6. VoteReplies' = VoteReplies /\ \A c \in VoteReplies : c.req.src # i
    BY <1>1 DEF VoteReplies, Quiet
  <1>7. /\ \A r \in VoteRequests : r.src # i
        /\ \A r \in VoteRequests' : r \in S \/ r \in VoteRequests
        /\ \A r \in VoteRequests' : r \in VoteRequests => r \notin S /\ r \in CallsIn(requests)
        /\ \A r \in S : r \notin CallsIn(requests)
    <2>1. CallsIn(requests') = CallsIn(requests) \cup S
      BY <1>1, SentCalls
    <2>2. QED  BY <1>1, <1>2, <2>1 DEF VoteRequests, Quiet
  <1>8. CallsOnce'
    <2>1. ASSUME NEW r \in VoteRequests'
          PROVE  requests'[r] = 1 /\ Recent(r)'
      <3>1. CASE r \in S
        <4>1. requests'[r] = 1
          BY <1>1, <1>7, <3>1, OnceAdd
        <4>2. QED  BY <1>2, <1>5, <3>1, <4>1 DEF Recent
      <3>2. CASE r \in VoteRequests
        <4>1. requests[r] = 1 /\ Recent(r) /\ r.src # i /\ r.src \in Server
          BY <1>3, <1>7, <3>2, VoteCallType DEF CallsOnce
        <4>2. requests'[r] = 1
          BY <1>1, <1>7, <3>2, <4>1, OnceAdd
        <4>3. QED  BY <1>5, <4>1, <4>2 DEF Recent, Standing
      <3>3. QED  BY <1>7, <3>1, <3>2
    <2>2. ASSUME NEW c \in VoteReplies'
          PROVE  c \in VoteReplies /\ replies'[c] = 1 /\ Recent(c.req)'
      <3>1. c \in VoteReplies /\ replies[c] = 1 /\ Recent(c.req) /\ c.req.src # i
            /\ c.req.src \in Server
        BY <1>3, <1>6, VoteCallType DEF CallsOnce
      <3>2. QED  BY <1>1, <1>5, <3>1 DEF Recent, Standing
    <2>3. ASSUME NEW r \in VoteRequests', NEW q \in VoteRequests', SameCall(r, q)
          PROVE  r = q
      BY <1>2, <1>3, <1>7, <2>3 DEF SameCall, CallsOnce
    <2>4. ASSUME NEW r \in VoteRequests', NEW c \in VoteReplies
          PROVE  ~SameCall(r, c.req)
      BY <1>2, <1>3, <1>6, <1>7 DEF SameCall, CallsOnce
    <2>5. \A c, d \in VoteReplies : SameCall(c.req, d.req) => c = d
      BY <1>3 DEF CallsOnce
    <2>6. QED  BY <1>6, <2>1, <2>2, <2>3, <2>4, <2>5 DEF CallsOnce, SameCall
  <1>9. Given(U)'
    BY <1>1, <1>3, <1>4, CallsStay, GivenKept
  <1>10. ASSUME NEW j \in Server, Standing(j)', j # i
         PROVE  Counted(U, j)'
    <2>1. /\ Standing(j) /\ currentTerm'[j] = currentTerm[j]
          /\ state'[j] = state[j] /\ votes'[j] = votes[j]
      BY <1>5, <1>10 DEF Standing
    <2>2. Pending(j)' \subseteq Pending(j)
      <3>1. \A r \in VoteRequests' : r.src = j => r \in VoteRequests
        BY <1>2, <1>7, <1>10
      <3>2. ASSUME NEW p \in Pending(j)'
            PROVE  p \in Pending(j)
        <4>1. \/ \E r \in VoteRequests' : r.src = j /\ p = r.dst
              \/ \E c \in VoteReplies' : c.req.src = j /\ p = c.req.dst
          BY DEF Pending
        <4>2. \/ \E r \in VoteRequests : r.src = j /\ p = r.dst
              \/ \E c \in VoteReplies : c.req.src = j /\ p = c.req.dst
          BY <1>6, <3>1, <4>1
        <4>3. QED  BY <4>2 DEF Pending
      <3>3. QED  BY <3>2
    <2>3. Counted(V, j)
      BY <2>1 DEF Ballots
    <2>4. QED  BY <1>4, <2>1, <2>2, <2>3, CountedMore
  <1>11. Counted(U, i)'
    <2> DEFINE t == currentTerm'[i]
               E == Electors(U, t, i) \ Pending(i)'
    <2>1. t \in Nat /\ t >= 1
      BY <1>5, SMTT(60)
    <2>2. U[t][i] = i
      BY <1>4, <1>5 DEF Recorded
    <2>3. i \notin Pending(i)'
      BY <1>2, <1>6, <1>7 DEF Pending
    <2>4. i \in E /\ E \subseteq Server
      BY <2>2, <2>3 DEF Electors
    <2>5. 1 <= Cardinality(E)
      <3> HIDE DEF E
      <3>1. {i} \subseteq E /\ {i} \subseteq Server
        BY <2>4
      <3>2. Cardinality({i}) = 1 /\ Cardinality({i}) <= Cardinality(E)
        BY <2>4, <3>1 DEF Counting
      <3>3. QED  BY <3>2
    <2>6. E = (Electors(U, currentTerm[i], i) \ Pending(i))'
      BY DEF Electors
    <2>7. QED  BY <1>5, <2>1, <2>5, <2>6 DEF Counted
  <1>12. QED  BY <1>4, <1>8, <1>9, <1>10, <1>11 DEF Ballots

\* The RequestVote handler changes its peer's candidacy only by ending it.
LEMMA VoteStays ==
  ASSUME StructInv, NEW r \in CallsIn(requests), RequestVote(r),
         \A j \in Server : Promise(j)
  PROVE  \A j \in Server : Unmoved(j)
  <1>1. r.dst \in Server /\ r.term \in Nat /\ currentTerm[r.dst] \in Nat
    BY RequestType, FieldTypes
  <1>2. CASE RejectVote(r)
    BY <1>2, UnmovedVars DEF RequestVote, RejectVote
  <1>3. CASE DecideVote(r)
    <2> DEFINE newer == r.term > currentTerm[r.dst]
    <2>1. /\ r.term >= currentTerm[r.dst] /\ votes' = votes
          /\ currentTerm' = [currentTerm EXCEPT ![r.dst] = r.term]
          /\ state' = [state EXCEPT ![r.dst] = IF newer THEN "Follower" ELSE @]
      BY <1>3 DEF RequestVote, DecideVote
    <2>2. ASSUME NEW j \in Server, j # r.dst
          PROVE  state'[j] = state[j] /\ currentTerm'[j] = currentTerm[j]
      BY <2>1, <2>2, StructParts DEF ElectionTypes
    <2>3. newer => state'[r.dst] = "Follower"
      BY <1>1, <2>1, StructParts DEF ElectionTypes
    <2>4. ~newer => /\ state'[r.dst] = state[r.dst]
                    /\ currentTerm'[r.dst] = currentTerm[r.dst]
      BY <1>1, <2>1, StructParts, SMTT(60) DEF ElectionTypes
    <2> HIDE DEF newer
    <2>5. QED  BY <2>1, <2>2, <2>3, <2>4 DEF Unmoved, Stays, Standing
  <1>4. QED  BY <1>2, <1>3 DEF RequestVote

\* The step adds reply c to call r, and no other.
Answered(r, c) ==
  /\ c.req = r /\ c \notin VoteReplies /\ replies'[c] = 1
  /\ \A d \in VoteReplies' : d = c \/ (d \in VoteReplies /\ replies'[d] = 1)

\* What an awaited vote request turns into.
LEMMA AnswerVote ==
  ASSUME StructInv, CallsOnce, NEW r \in VoteRequests, NEW t, NEW ok, Answer(r, t, ok)
  PROVE  /\ FewerRequests /\ r \notin VoteRequests'
         /\ \E c : c.ok = ok /\ Answered(r, c)
  <1> DEFINE c == [req |-> r, term |-> t, ok |-> ok]
  <1>1. r \in CallsIn(requests) /\ r.rpc = "RequestVote" /\ r.src # Nil
        /\ requests[r] = 1
    BY DEF VoteRequests, CallsOnce
  <1>2. /\ requests' = Take(requests, r)
        /\ replies' = Send(replies, {c}) /\ c.req = r /\ c.ok = ok
    BY <1>1 DEF Answer
  <1> HIDE DEF c
  <1>3. /\ CallsIn(requests') \subseteq CallsIn(requests)
        /\ r \notin CallsIn(requests')
    BY <1>1, <1>2, TakenCalls, OnceRemove
  <1>4. FewerRequests
    <2>1. ASSUME NEW q \in VoteRequests'
          PROVE  q \in VoteRequests /\ (requests[q] = 1 => requests'[q] = 1)
      <3>1. q \in CallsIn(requests') /\ q # r /\ q.rpc = "RequestVote" /\ q.src # Nil
        BY <1>3 DEF VoteRequests
      <3>2. \A e \in CallsIn(requests') : e # r /\ requests[e] = 1 => requests'[e] = 1
        BY <1>2, OnceRemove
      <3>3. QED  BY <1>3, <3>1, <3>2 DEF VoteRequests
    <2>2. QED  BY <2>1 DEF FewerRequests
  <1>5. c \notin VoteReplies /\ c \notin CallsIn(replies)
    <2>1. c \notin VoteReplies
      BY <1>2 DEF CallsOnce, SameCall
    <2>2. QED  BY <1>1, <1>2, <2>1 DEF VoteReplies
  <1>6. replies'[c] = 1
    BY <1>2, <1>5, OnceAdd
  <1>7. ASSUME NEW d \in VoteReplies', d # c
        PROVE  d \in VoteReplies /\ replies'[d] = 1
    <2>1. CallsIn(replies') = CallsIn(replies) \cup {c}
      BY <1>2, SentCalls
    <2>2. d \in CallsIn(replies) /\ d \in VoteReplies
      BY <1>7, <2>1 DEF VoteReplies
    <2>3. replies[d] = 1
      BY <2>2 DEF CallsOnce
    <2>4. d \notin {c}
      BY <1>7
    <2>5. QED  BY <1>2, <2>2, <2>3, <2>4, OnceAdd
  <1>8. r \notin VoteRequests'
    BY <1>3 DEF VoteRequests
  <1>9. \A d \in VoteReplies' : d = c \/ (d \in VoteReplies /\ replies'[d] = 1)
    BY <1>7
  <1>10. c.ok = ok /\ Answered(r, c)
    BY <1>2, <1>5, <1>6, <1>9 DEF Answered
  <1>11. QED  BY <1>4, <1>8, <1>10

\* The RequestVote handler: a vote that is granted is recorded as given to the
\* candidate of the call.
LEMMA BallotsRequestVote ==
  ASSUME Counting, StructInv, StructInv', NEW V, Ballots(V), NEW U, U = Recall(V),
         NEW r \in CallsIn(requests), RequestVote(r), \A j \in Server : Promise(j)
  PROVE  Ballots(U)'
  <1>1. \A j \in Server : Unmoved(j)
    BY VoteStays
  <1>2. \/ RejectVote(r) /\ Answer(r, currentTerm[r.dst], FALSE)
        \/ DecideVote(r) /\ Answer(r, 0, GrantVote(r.dst, r))
    BY DEF RequestVote, RejectVote, DecideVote
  <1>3. CASE r.src = Nil
    <2>1. FewerRequests /\ FewerReplies
      <3>1. PICK t, ok : Answer(r, t, ok)
        BY <1>2
      <3>2. QED  BY <1>3, <3>1, AnswerNoVote
    <2>2. QED  BY <1>1, <2>1, BallotsKept
  <1>4. CASE r.src # Nil
    <2>1. r \in VoteRequests /\ CallsOnce /\ Recent(r) /\ Recorded(V) /\ Given(V)
      BY <1>4 DEF VoteRequests, RequestVote, Ballots, CallsOnce
    <2>2. r.src \in Server /\ r.dst \in Server /\ r.term \in Nat
      BY <2>1, VoteCallType
    <2>3. PICK ok \in BOOLEAN :
            \E t : Answer(r, t, ok) /\ (ok => DecideVote(r) /\ GrantVote(r.dst, r))
      <3>1. GrantVote(r.dst, r) \in BOOLEAN
        BY DEF GrantVote, UpToDate
      <3>2. QED  BY <1>2, <3>1
    <2>4. FewerRequests /\ r \notin VoteRequests'
      BY <2>1, <2>3, AnswerVote
    <2>c. PICK c : c.ok = ok /\ Answered(r, c)
      BY <2>1, <2>3, AnswerVote
    <2>5. /\ c.req = r /\ c.ok = ok /\ c \notin VoteReplies /\ replies'[c] = 1
          /\ \A d \in VoteReplies' : d = c \/ (d \in VoteReplies /\ replies'[d] = 1)
      BY <2>c DEF Answered
    <2>6. CallsOnce'
      <3>1. ASSUME NEW q \in VoteRequests'
            PROVE  q \in VoteRequests /\ q # r /\ requests'[q] = 1 /\ Recent(q)'
        BY <1>1, <2>1, <2>4, VoteCallType, RecentKept
           DEF FewerRequests, CallsOnce, Unmoved
      <3>2. Recent(r)'
        BY <1>1, <2>1, <2>2, RecentKept DEF Unmoved
      <3>3. ASSUME NEW d \in VoteReplies', d # c
            PROVE  d \in VoteReplies /\ replies'[d] = 1 /\ Recent(d.req)'
        BY <1>1, <2>1, <2>5, <3>3, VoteCallType, RecentKept DEF CallsOnce, Unmoved
      <3>4. \A d \in VoteReplies' : replies'[d] = 1 /\ Recent(d.req)'
        BY <2>5, <3>2, <3>3
      <3>5. \A q, p \in VoteRequests' : SameCall(q, p) => q = p
        BY <2>1, <3>1 DEF CallsOnce
      <3>6. \A d, e \in VoteReplies' : SameCall(d.req, e.req) => d = e
        BY <2>1, <2>5, <3>3 DEF CallsOnce, SameCall
      <3>7. \A q \in VoteRequests', d \in VoteReplies' : ~SameCall(q, d.req)
        BY <2>1, <2>5, <3>1, <3>3, SMTT(60) DEF CallsOnce, SameCall
      <3>8. QED  BY <3>1, <3>4, <3>5, <3>6, <3>7 DEF CallsOnce, SameCall
    <2>7. VotesStay(V, U) /\ Recorded(U)'
      BY <2>1, VotesRecalled
    <2>8. Given(U)'
      <3>1. ASSUME NEW d \in VoteReplies', d.ok, d # c
            PROVE  U[d.req.term][d.req.dst] = d.req.src
        <4>1. d \in VoteReplies
          BY <2>5, <3>1
        <4>2. d.req.term \in Nat /\ d.req.dst \in Server /\ d.req.src # Nil
          BY <4>1, VoteCallType, NilAssumption
        <4>3. V[d.req.term][d.req.dst] = d.req.src
          BY <2>1, <3>1, <4>1 DEF Given
        <4>4. QED  BY <2>7, <4>2, <4>3 DEF VotesStay
      <3>2. ASSUME ok
            PROVE  U[r.term][r.dst] = r.src
        <4>1. DecideVote(r) /\ GrantVote(r.dst, r) /\ r.candidateId = r.src
          BY <2>1, <2>3, <3>2 DEF Recent
        <4>2. currentTerm'[r.dst] = r.term /\ votedFor'[r.dst] = r.src
          BY <2>2, <4>1, FieldTypes DEF DecideVote
        <4>3. QED  BY <2>2, <2>7, <4>2 DEF Recorded
      <3>3. QED  BY <2>5, <3>1, <3>2 DEF Given
    <2>9. ASSUME NEW j \in Server, Standing(j)'
          PROVE  Counted(U, j)'
      <3>1. /\ Standing(j) /\ currentTerm'[j] = currentTerm[j]
            /\ state'[j] = state[j] /\ votes'[j] = votes[j]
        BY <1>1, <2>9 DEF Unmoved, Stays
      <3>2. ASSUME NEW p \in Pending(j)'
            PROVE  p \in Pending(j)
        <4>1. \/ \E q \in VoteRequests' : q.src = j /\ p = q.dst
              \/ \E d \in VoteReplies' : d.req.src = j /\ p = d.req.dst
          BY DEF Pending
        <4>2. \/ \E q \in VoteRequests : q.src = j /\ p = q.dst
              \/ \E d \in VoteReplies : d.req.src = j /\ p = d.req.dst
          BY <2>1, <2>4, <2>5, <4>1 DEF FewerRequests
        <4>3. QED  BY <4>2 DEF Pending
      <3>3. Counted(V, j)
        BY <3>1 DEF Ballots
      <3>4. Pending(j)' \subseteq Pending(j)
        BY <3>2
      <3>5. QED  BY <2>7, <3>1, <3>3, <3>4, CountedMore
    <2>10. QED  BY <2>6, <2>7, <2>8, <2>9 DEF Ballots
  <1>5. QED  BY <1>3, <1>4

\* A vote that arrives comes on top of those that are counted: the call was made
\* once, and its caller waited for it.
LEMMA VoteComes ==
  ASSUME Counting, StructInv, NEW V, Ballots(V), NEW c \in VoteReplies, c.ok,
         NEW i \in Server, i = c.req.src, Standing(i), NEW P, P \subseteq Pending(i),
         c.req.dst \notin P
  PROVE  /\ votes[i] \in Nat
         /\ votes[i] + 1 <= Cardinality(Electors(V, currentTerm[i], i) \ P)
  <1> DEFINE E == Electors(V, currentTerm[i], i) \ Pending(i)
             F == Electors(V, currentTerm[i], i) \ P
             p == c.req.dst
  <1>1. p \in Server /\ c.req.term \in Nat
    BY VoteCallType
  <1>2. Recent(c.req) /\ V[c.req.term][p] = i /\ votes[i] <= Cardinality(E)
    BY DEF Ballots, CallsOnce, Given, Counted
  <1>3. V[currentTerm[i]][p] = i
    BY <1>2 DEF Recent
  <1>4. p \in Pending(i)
    BY DEF Pending
  <1>5. p \notin E /\ E \cup {p} \subseteq F /\ F \subseteq Server /\ E \subseteq Server
    BY <1>1, <1>3, <1>4 DEF Electors
  <1>6. votes[i] \in Nat
    BY StructParts DEF CountTypes
  <1> HIDE DEF E, F
  <1>7. Cardinality(E \cup {p}) = Cardinality(E) + 1 /\ Cardinality(E) \in Nat
    BY <1>1, <1>5 DEF Counting
  <1>8. Cardinality(E \cup {p}) <= Cardinality(F) /\ Cardinality(F) \in Nat
    BY <1>1, <1>5 DEF Counting
  <1>9. votes[i] + 1 <= Cardinality(F)
    BY <1>2, <1>6, <1>7, <1>8, SMTT(60)
  <1>10. QED  BY <1>6, <1>9 DEF F

\* A larger number of votes is a majority too.
LEMMA MajorityMore ==
  ASSUME Counting, NEW m \in Nat, NEW n \in Nat, m <= n, Majority(m)
  PROVE  Majority(n)
  <1>1. Cardinality(Server) \in Nat
    BY DEF Counting
  <1>2. QED  BY <1>1, SMTT(60) DEF Majority

\* Who counts a majority was elected by a quorum.
LEMMA VoteWins ==
  ASSUME Counting, StructInv, NEW V, Ballots(V), NEW c \in VoteReplies, c.ok,
         NEW i \in Server, i = c.req.src, Standing(i), Majority(votes[i] + 1)
  PROVE  currentTerm[i] >= 1 /\ WonBy(V, currentTerm[i], i)
  <1> DEFINE E == Electors(V, currentTerm[i], i)
  <1>1. votes[i] \in Nat /\ votes[i] + 1 <= Cardinality(E \ {})
    <2>1. PICK P : P = {}
      OBVIOUS
    <2>2. P \subseteq Pending(i) /\ c.req.dst \notin P
      BY <2>1
    <2>3. votes[i] \in Nat /\ votes[i] + 1 <= Cardinality(E \ P)
      BY <2>2, VoteComes
    <2>4. QED  BY <2>1, <2>3
  <1>2. E \ {} = E /\ E \subseteq Server /\ \A p \in E : V[currentTerm[i]][p] = i
    BY DEF Electors
  <1>3. currentTerm[i] >= 1
    BY DEF Ballots, Counted
  <1> HIDE DEF E
  <1>4. Cardinality(E) \in Nat
    BY <1>2 DEF Counting
  <1>5. votes[i] + 1 \in Nat /\ votes[i] + 1 <= Cardinality(E)
    BY <1>1, <1>2, SMTT(60)
  <1>6. E \in Quorums
    BY <1>2, <1>4, <1>5, MajorityMore DEF Quorums
  <1>7. QED  BY <1>2, <1>3, <1>6 DEF WonBy

\* A candidate or leader that counts a vote has one more.
LEMMA BallotsCount ==
  ASSUME Counting, StructInv, StructInv', NEW V, Ballots(V), NEW U, U = Recall(V),
         NEW c \in VoteReplies, c.ok, NEW i \in Server, i = c.req.src, Standing(i),
         CountVote(i), replies' = Take(replies, c), \A j \in Server : Promise(j)
  PROVE  Ballots(U)'
  <1>1. /\ c \in CallsIn(replies) /\ c.req.dst \in Server
        /\ CallsOnce /\ Recorded(V) /\ Given(V)
    BY VoteCallType DEF Ballots
  <1>2. FewerReplies /\ c \notin VoteReplies'
    BY <1>1, TakeReply
  <1>3. FewerRequests
    <2>1. CASE BecomeLeader(i)
      <3> DEFINE S == {[rpc |-> "AppendEntries", src |-> i, dst |-> j, term |-> 0,
                        prevLogIndex |-> 0, prevLogTerm |-> 0, entries |-> <<>>,
                        leaderCommit |-> 0] : j \in Peers(i)}
      <3>1. requests' = Send(requests, S) /\ \A r \in S : r.rpc = "AppendEntries"
        BY <2>1, SMTT(60) DEF BecomeLeader
      <3> HIDE DEF S
      <3>2. QED  BY <3>1, SendNoVote
    <2>2. CASE requests' = requests
      BY <2>2, CallsStay
    <2>3. QED  BY <2>1, <2>2 DEF CountVote
  <1>4. /\ votes'[i] = votes[i] + 1 /\ votes[i] \in Nat
        /\ state'[i] = "Leader" => state[i] = "Leader" \/ Majority(votes[i] + 1)
        /\ \A j \in Server : j # i => state'[j] = state[j] /\ votes'[j] = votes[j]
    BY StructParts DEF CountVote, BecomeLeader, electionVars, ElectionTypes, CountTypes
  <1>5. currentTerm' = currentTerm
    BY DEF CountVote, BecomeLeader, electionVars
  <1>6. \A j \in Server : Standing(j)' => Standing(j)
    BY <1>4 DEF Standing
  <1>7. CallsOnce'
    BY <1>1, <1>2, <1>3, <1>5, <1>6, CallsKept DEF Stays
  <1>8. VotesStay(V, U) /\ Recorded(U)' /\ Given(U)'
    BY <1>1, <1>2, VotesRecalled, GivenKept
  <1>9. \A j \in Server : Pending(j)' \subseteq Pending(j)
    BY <1>2, <1>3, FewerPending
  <1>10. ASSUME NEW j \in Server, Standing(j)', j # i
         PROVE  Counted(U, j)'
    <2>1. Counted(V, j)
      BY <1>6, <1>10 DEF Ballots
    <2>2. state'[j] = state[j] /\ votes'[j] = votes[j] /\ currentTerm'[j] = currentTerm[j]
          /\ Pending(j)' \subseteq Pending(j)
      BY <1>4, <1>5, <1>9, <1>10
    <2>3. QED  BY <1>8, <2>1, <2>2, CountedMore
  <1>11. Counted(U, i)'
    <2> DEFINE E == Electors(V, currentTerm[i], i) \ Pending(i)'
               F == Electors(U, currentTerm[i], i) \ Pending(i)'
    <2>1. c.req.dst \notin Pending(i)'
      <3>1. \A r \in VoteRequests' : ~(r.src = i /\ r.dst = c.req.dst)
        BY <1>1, <1>3 DEF FewerRequests, CallsOnce, SameCall
      <3>2. \A d \in VoteReplies' : ~(d.req.src = i /\ d.req.dst = c.req.dst)
        BY <1>1, <1>2 DEF FewerReplies, CallsOnce, SameCall
      <3>3. QED  BY <3>1, <3>2 DEF Pending
    <2>2. votes[i] + 1 <= Cardinality(E)
      BY <1>9, <2>1, VoteComes
    <2>3. currentTerm[i] \in Nat
      BY StructParts DEF ElectionTypes
    <2>4. E \subseteq F /\ F \subseteq Server
      <3>1. ASSUME NEW t \in Nat, NEW j \in Server
            PROVE  /\ Electors(V, t, j) \subseteq Electors(U, t, j)
                   /\ Electors(U, t, j) \subseteq Server
        BY <1>8, ElectorsMore
      <3>2. /\ Electors(V, currentTerm[i], i) \subseteq Electors(U, currentTerm[i], i)
            /\ Electors(U, currentTerm[i], i) \subseteq Server
        BY <2>3, <3>1
      <3>3. QED  BY <3>2
    <2>5. F = (Electors(U, currentTerm[i], i) \ Pending(i))'
      BY <1>5 DEF Electors
    <2> HIDE DEF E, F
    <2>6. Cardinality(E) <= Cardinality(F) /\ Cardinality(F) \in Nat /\ Cardinality(E) \in Nat
      BY <2>4 DEF Counting
    <2>7. votes'[i] <= Cardinality(F)
      BY <1>4, <2>2, <2>6, SMTT(60)
    <2>8. currentTerm[i] >= 1 /\ (state[i] = "Leader" => Majority(votes[i]))
      BY DEF Ballots, Counted
    <2>9. votes[i] + 1 \in Nat /\ votes[i] <= votes[i] + 1
      BY <1>4, SMTT(60)
    <2>10. state'[i] = "Leader" => Majority(votes'[i])
      BY <1>4, <2>8, <2>9, MajorityMore
    <2>11. QED  BY <1>5, <2>5, <2>7, <2>8, <2>10 DEF Counted, Majority
  <1>12. QED  BY <1>7, <1>8, <1>10, <1>11 DEF Ballots

\* The caller of RequestVote steps down, ignores the reply, or counts the vote; a
\* follower that counts one counts for nothing.
LEMMA BallotsSendRequestVote ==
  ASSUME Counting, StructInv, StructInv', NEW V, Ballots(V), NEW U, U = Recall(V),
         NEW c \in CallsIn(replies), sendRequestVote(c), \A j \in Server : Promise(j)
  PROVE  Ballots(U)'
  <1> DEFINE i == c.req.src
  <1>1. i \in Server /\ c.term \in Nat
    BY ReplyType
  <1>2. replies' = Take(replies, c) /\ c \in VoteReplies
    BY DEF sendRequestVote, VoteReplies
  <1>3. FewerReplies
    BY <1>2, TakeReply DEF Ballots
  <1>4. \/ /\ c.term > currentTerm[i] /\ StepDown(i, c.term)
           /\ votes' = votes /\ requests' = requests
        \/ UNCHANGED <<electionVars, votes>> /\ requests' = requests
        \/ c.ok /\ CountVote(i)
    BY DEF sendRequestVote
  <1> HIDE DEF i
  <1>5. CASE /\ c.term > currentTerm[i] /\ StepDown(i, c.term)
             /\ votes' = votes /\ requests' = requests
    BY <1>1, <1>3, <1>5, CallsStay, UnmovedStepDown, BallotsKept
  <1>6. CASE UNCHANGED <<electionVars, votes>> /\ requests' = requests
    BY <1>3, <1>6, CallsStay, UnmovedVars, BallotsKept
  <1>7. CASE c.ok /\ CountVote(i) /\ Standing(i)
    BY <1>1, <1>2, <1>7, BallotsCount DEF i
  <1>8. CASE CountVote(i) /\ ~Standing(i)
    <2>1. UNCHANGED electionVars /\ requests' = requests
          /\ votes' = [votes EXCEPT ![i] = @ + 1]
      BY <1>8 DEF CountVote, Standing
    <2>2. ASSUME NEW j \in Server
          PROVE  Unmoved(j)
      <3>1. Promise(j) /\ state' = state /\ currentTerm' = currentTerm
        BY <2>1 DEF electionVars
      <3>2. j # i => votes'[j] = votes[j]
        BY <1>1, <2>1, StructParts DEF CountTypes
      <3>3. QED  BY <1>8, <3>1, <3>2 DEF Unmoved, Stays, Standing
    <2>3. QED  BY <1>3, <2>1, <2>2, CallsStay, BallotsKept
  <1>9. QED  BY <1>4, <1>5, <1>6, <1>7, <1>8

-----------------------------------------------------------------------------
(* One leader per term.                                                    *)

\* Nobody has voted at the start.
NoVotesYet == [t \in Nat |-> [p \in Server |-> Nil]]

\* Nobody stands at the start.
LEMMA BallotsInit == Init => Ballots(NoVotesYet)
  <1> SUFFICES ASSUME Init PROVE Ballots(NoVotesYet)
    OBVIOUS
  <1>1. VoteRequests = {} /\ VoteReplies = {}
    BY NoneYet DEF Init, VoteRequests, VoteReplies
  <1>2. CallsOnce /\ Given(NoVotesYet)
    BY <1>1 DEF CallsOnce, Given
  <1>3. \A i \in Server : ~Standing(i)
    BY DEF Init, Standing
  <1>4. Recorded(NoVotesYet)
    <2>1. NoVotesYet \in [Nat -> [Server -> Server \cup {Nil}]]
      BY DEF NoVotesYet
    <2>2. 0 \in Nat
      BY SMTT(60)
    <2>3. \A p \in Server : votedFor[p] = Nil /\ currentTerm[p] = 0
      BY DEF Init
    <2>4. \A t \in Nat, p \in Server : NoVotesYet[t][p] = Nil
      BY DEF NoVotesYet
    <2>5. QED  BY <2>1, <2>2, <2>3, <2>4 DEF Recorded
  <1>5. QED  BY <1>2, <1>3, <1>4 DEF Ballots

\* Every step keeps the votes accounted for.
LEMMA BallotsStep ==
  ASSUME Counting, Prompt, ~LossyCrash, StructInv, StructInv', NEW V, Ballots(V), NEW U,
         U = Recall(V), Next
  PROVE  Ballots(U)'
  <1>1. restarts' = restarts => \A j \in Server : Promise(j)
    BY PromiseStep
  <1>2. ASSUME NEW i \in Server, NEW command \in Command, Start(i, command)
        PROVE  Ballots(U)'
    BY <1>2, BallotsStart
  <1>3. ASSUME NEW i \in Server, persist(i)
        PROVE  Ballots(U)'
    BY <1>3, BallotsPersist
  <1>4. ASSUME NEW i \in Server, becomeCandidate(i)
        PROVE  Ballots(U)'
    <2>1. restarts' = restarts
      BY <1>4 DEF becomeCandidate
    <2>2. QED  BY <1>1, <1>4, <2>1, BallotsCandidate
  <1>5. ASSUME NEW i \in Server, sendHeartBeats(i)
        PROVE  Ballots(U)'
    BY <1>5, BallotsHeartBeats
  <1>6. ASSUME NEW r \in CallsIn(requests), RequestVote(r)
        PROVE  Ballots(U)'
    <2>1. restarts' = restarts
      BY <1>6 DEF RequestVote, boundVars
    <2>2. QED  BY <1>1, <1>6, <2>1, BallotsRequestVote
  <1>7. ASSUME NEW r \in CallsIn(requests), AppendEntries(r)
        PROVE  Ballots(U)'
    BY <1>7, BallotsAppendEntries
  <1>8. ASSUME NEW c \in CallsIn(replies), sendRequestVote(c)
        PROVE  Ballots(U)'
    <2>1. restarts' = restarts
      BY <1>8 DEF sendRequestVote, boundVars
    <2>2. QED  BY <1>1, <1>8, <2>1, BallotsSendRequestVote
  <1>9. ASSUME NEW c \in CallsIn(replies), sendAppendEntries(c)
        PROVE  Ballots(U)'
    BY <1>9, BallotsSendAppendEntries
  <1>10. ASSUME NEW i \in Server, LoseCalls(i)
         PROVE  Ballots(U)'
    BY <1>10, BallotsLoseCalls
  <1>11. ASSUME NEW i \in Server, Restart(i)
         PROVE  Ballots(U)'
    BY <1>11, BallotsRestart
  <1>12. QED
    BY <1>2, <1>3, <1>4, <1>5, <1>6, <1>7, <1>8, <1>9, <1>10, <1>11 DEF Next

\* A step that changes nothing does not either.
LEMMA BallotsStutter ==
  ASSUME Counting, StructInv, StructInv', NEW V, Ballots(V), NEW U, U = Recall(V),
         UNCHANGED vars
  PROVE  Ballots(U)'
  <1>1. UNCHANGED <<electionVars, votes>> /\ requests' = requests /\ replies' = replies
    BY DEF vars, callVars
  <1>2. QED  BY <1>1, UnmovedVars, CallsStay, BallotsKept

\* The electors of a leader are a quorum.
LEMMA LeaderElected ==
  ASSUME Counting, StructInv, NEW V, Ballots(V), NEW i \in Server, state[i] = "Leader"
  PROVE  WonBy(V, currentTerm[i], i)
  <1> DEFINE E == Electors(V, currentTerm[i], i)
             F == E \ Pending(i)
  <1>1. votes[i] <= Cardinality(F) /\ Majority(votes[i])
    BY DEF Ballots, Counted, Standing
  <1>2. /\ F \subseteq Server /\ E \subseteq Server /\ F \subseteq E
        /\ \A p \in E : V[currentTerm[i]][p] = i
    BY DEF Electors
  <1>3. votes[i] \in Nat
    BY StructParts DEF CountTypes
  <1> HIDE DEF E, F
  <1>4. Cardinality(F) \in Nat
    BY <1>2 DEF Counting
  <1>5. F \in Quorums
    BY <1>1, <1>2, <1>3, <1>4, MajorityMore DEF Quorums
  <1>6. QED  BY <1>2, <1>5 DEF WonBy

\* Two leaders of one term would have two quorums without a common voter.
LEMMA OneLeader ==
  ASSUME Counting, QuorumsMeet, StructInv, NEW V, Ballots(V)
  PROVE  ElectionSafety
  <1> SUFFICES ASSUME NEW i \in Server, NEW j \in Server, state[i] = "Leader",
                      state[j] = "Leader", currentTerm[i] = currentTerm[j]
               PROVE  i = j
    BY DEF ElectionSafety
  <1>1. WonBy(V, currentTerm[i], i) /\ WonBy(V, currentTerm[i], j)
    BY LeaderElected
  <1>2. QED  BY <1>1 DEF WonBy, QuorumsMeet

=============================================================================
