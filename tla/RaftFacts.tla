----------------------------- MODULE RaftFacts ------------------------------
(***************************************************************************)
(* The shape of a peer and of the calls under way, and what it says of     *)
(* each field: the facts about Raft that all proofs rest on.  And what     *)
(* relates the handlers that wait for a ticker to the replies under way.   *)
(***************************************************************************)
EXTENDS RaftHistory, TLAPS

\* Leaves are first-order unless they say otherwise.
USE ZenonT(60)

-----------------------------------------------------------------------------
(* What sending, taking and losing calls does to those that are under way. *)

\* Sending adds the calls that are sent.
LEMMA SentCalls ==
  ASSUME NEW B, NEW S
  PROVE  CallsIn(Send(B, S)) = CallsIn(B) \cup S
  BY DEF Send, CallsIn

\* Taking a call out adds none.
LEMMA TakenCalls ==
  ASSUME NEW B, NEW c
  PROVE  CallsIn(Take(B, c)) \subseteq CallsIn(B)
  BY DEF Take, Keep, CallsIn

\* Keep adds none.
LEMMA KeptCalls ==
  ASSUME NEW B, NEW S
  PROVE  CallsIn(Keep(B, S)) = CallsIn(B) \cap S
  BY DEF Keep, CallsIn

\* Orphaning requests changes nothing but their src.
LEMMA OrphanedCalls ==
  ASSUME NEW B, NEW i
  PROVE  CallsIn(OrphanRequests(B, i)) = {Orphaned(r, i) : r \in CallsIn(B)}
  BY DEF OrphanRequests, Turn, CallsIn

-----------------------------------------------------------------------------
(* Types.                                                                  *)

\* An element of a log is an entry.
LEMMA AtType ==
  ASSUME NEW l \in Seq(Entry), NEW k \in Nat, k < Len(l)
  PROVE  At(l, k) \in Entry
  BY SMTT(60) DEF At

\* A log that still begins with the dummy entry.
Anchored(l) == l \in Seq(Entry) /\ Len(l) >= 1 /\ At(l, 0).term = 0

\* AppendEntries at index 0 names the term of the dummy entry: no follower
\* ever finds its dummy entry in conflict and truncates it.
HeartBeatsAnchored ==
  \A r \in CallsIn(requests) :
    r.rpc = "AppendEntries" /\ r.prevLogIndex = 0 => r.prevLogTerm = 0

\* The answer of a call nobody waits for any more is not kept.
RepliesAwaited == \A c \in CallsIn(replies) : c.req.src \in Server

StructInv == TypeOK /\ DummyKept /\ HeartBeatsAnchored /\ RepliesAwaited

\* What StructInv says of one peer's log.
LEMMA LogAnchored ==
  ASSUME StructInv, NEW i \in Server
  PROVE  Anchored(log[i]) /\ Anchored(persisted[i].log)
  BY DEF StructInv, TypeOK, DummyKept, Anchored, Durables

\* The calls under way.
CallInv ==
  /\ CallsIn(requests) \subseteq Request
  /\ CallsIn(replies) \subseteq Reply
  /\ HeartBeatsAnchored
  /\ RepliesAwaited

ElectionTypes ==
  /\ state \in [Server -> {"Follower", "Candidate", "Leader"}]
  /\ currentTerm \in [Server -> Nat]
  /\ votedFor \in [Server -> Server \cup {Nil}]
LogTypes == log \in [Server -> Seq(Entry)] /\ persisted \in [Server -> Durables]
IndexTypes ==
  /\ nextIndex \in [Server -> [Server -> Nat \ {0}]]
  /\ matchIndex \in [Server -> [Server -> Nat]]
ApplyTypes ==
  /\ commitIndex \in [Server -> Nat]
  /\ lastApplied \in [Server -> Nat]
  /\ applied \in [Server -> Seq(ApplyMsg)]
  /\ delivered \subseteq Nat \X (Command \cup {Nil})
CountTypes ==
  /\ votes \in [Server -> Nat]
  /\ elections \in Nat
  /\ restarts \in Nat

\* StructInv, taken apart.
LEMMA StructParts ==
  StructInv <=> /\ ElectionTypes /\ LogTypes /\ IndexTypes /\ ApplyTypes
                /\ CountTypes /\ DummyKept /\ CallInv
  BY DEF StructInv, TypeOK, ElectionTypes, LogTypes, IndexTypes, ApplyTypes,
         CountTypes, CallInv

\* The same of the next state.
LEMMA StructPartsPrime ==
  StructInv' <=> /\ ElectionTypes' /\ LogTypes' /\ IndexTypes' /\ ApplyTypes'
                 /\ CountTypes' /\ DummyKept' /\ CallInv'
  BY StructParts, PTL

\* The fields of the peers, one by one.
LEMMA FieldTypes ==
  ASSUME StructInv
  PROVE  /\ currentTerm \in [Server -> Nat]
         /\ votedFor \in [Server -> Server \cup {Nil}]
         /\ log \in [Server -> Seq(Entry)] /\ persisted \in [Server -> Durables]
         /\ nextIndex \in [Server -> [Server -> Nat \ {0}]]
         /\ commitIndex \in [Server -> Nat]
         /\ lastApplied \in [Server -> Nat] /\ applied \in [Server -> Seq(ApplyMsg)]
  BY DEF StructInv, TypeOK

\* What FieldTypes says of the terms in the next state.
LEMMA FieldTypesPrime == StructInv' => currentTerm' \in [Server -> Nat]
  BY StructPartsPrime DEF ElectionTypes

\* A request that is handled is well-formed.
LEMMA RequestType ==
  ASSUME StructInv, NEW r \in CallsIn(requests)
  PROVE  /\ r \in Request /\ r.dst \in Server /\ r.term \in Nat
         /\ r.rpc = "AppendEntries" =>
              /\ r.prevLogIndex \in Nat /\ r.prevLogTerm \in Nat
              /\ r.entries \in Seq(Entry) /\ r.leaderCommit \in Nat
  <1>1. r \in Request
    BY DEF StructInv, TypeOK
  <1>2. QED  BY <1>1 DEF Request, RequestVoteArgs, AppendEntriesArgs

\* A reply that is received comes from a well-formed call of a live caller.
LEMMA ReplyType ==
  ASSUME StructInv, NEW c \in CallsIn(replies)
  PROVE  /\ c.req \in Request /\ c.term \in Nat /\ c.ok \in BOOLEAN
         /\ c.req.src \in Server /\ c.req.dst \in Server
  <1>1. c \in Reply /\ c.req.src \in Server
    BY StructParts DEF CallInv, RepliesAwaited
  <1>2. QED
    BY <1>1 DEF Reply, Request, RequestVoteArgs, AppendEntriesArgs

-----------------------------------------------------------------------------
(* Votes.                                                                  *)

\* What PromisesKept asks of one peer in a step that restarts nobody.
Promise(i) ==
  \/ currentTerm'[i] > currentTerm[i]
  \/ /\ currentTerm'[i] = currentTerm[i]
     /\ votedFor[i] = Nil \/ votedFor'[i] = votedFor[i]

\* Votes are recorded, and not taken back.
LEMMA VotesRecalled ==
  ASSUME StructInv, StructInv', NEW V, Recorded(V), \A p \in Server : Promise(p),
         NEW U, U = Recall(V)
  PROVE  VotesStay(V, U) /\ Recorded(U)' /\ Rising
  <1>1. /\ currentTerm \in [Server -> Nat] /\ currentTerm' \in [Server -> Nat]
        /\ votedFor' \in [Server -> Server \cup {Nil}]
        /\ V \in [Nat -> [Server -> Server \cup {Nil}]]
    BY FieldTypes, FieldTypesPrime, StructPartsPrime DEF ElectionTypes, Recorded
  <1>2. ASSUME NEW t \in Nat, NEW p \in Server
        PROVE  U[t][p] = IF t = currentTerm'[p] THEN votedFor'[p] ELSE V[t][p]
    BY DEF Recall
  <1>3. U \in [Nat -> [Server -> Server \cup {Nil}]]
    BY <1>1 DEF Recall
  <1>4. Rising
    BY <1>1, SMTT(60) DEF Rising, Promise
  <1>5. ASSUME NEW t \in Nat, NEW p \in Server
        PROVE  /\ V[t][p] # Nil => U[t][p] = V[t][p]
               /\ t > currentTerm'[p] => U[t][p] = Nil
    <2>1. /\ V[currentTerm[p]][p] = votedFor[p]
          /\ t > currentTerm[p] => V[t][p] = Nil
      BY DEF Recorded
    <2>2. Promise(p) /\ currentTerm[p] \in Nat /\ currentTerm'[p] \in Nat
      BY <1>1
    <2>3. QED  BY <1>2, <2>1, <2>2, SMTT(60) DEF Promise
  <1>6. ASSUME NEW p \in Server
        PROVE  U[currentTerm'[p]][p] = votedFor'[p]
    <2>1. currentTerm'[p] \in Nat
      BY <1>1
    <2>2. QED  BY <1>2, <2>1
  <1>7. VotesStay(V, U)
    BY <1>5 DEF VotesStay
  <1>8. Recorded(U)'
    BY <1>3, <1>5, <1>6 DEF Recorded
  <1>9. QED  BY <1>4, <1>7, <1>8

-----------------------------------------------------------------------------
(* Handlers that wait for the ticker, and their replies.                   *)

\* A row of n is n long.
Rows == \A x : \A n \in Nat : Cardinality({x} \X (1..n)) = n

\* There are finitely many copies of call c.
Some(c, B) == c \in CallsIn(B) => B[c] \in Nat \ {0}

\* Handler b of B waits with a reply that R holds as often.
Attended(b, B, R) ==
  /\ b.peer \in Server
  /\ b.reply # Nil => /\ b = HandlerOf(b.reply)
                      /\ Some(b, B)
                      /\ Copies(b, B) <= Copies(b.reply, R)

\* What makes TickerTypeOK inductive: replies are counted, handlers too unless
\* nobody waits for them.
Waiting ==
  /\ ticker \in [Server -> {"top", "elect", "beat"}]
  /\ \A c \in CallsIn(replies) : Some(c, replies)
  /\ \A b \in CallsIn(blocked) : Attended(b, blocked, replies)

\* The number of copies.
LEMMA SomeCopies ==
  ASSUME NEW c, NEW B, Some(c, B)
  PROVE  /\ Copies(c, B) \in Nat /\ (c \in CallsIn(B) <=> Copies(c, B) # 0)
         /\ c \in CallsIn(B) => Copies(c, B) = B[c]
  <1>1. c \in CallsIn(B) => B[c] \in Nat /\ B[c] # 0
    BY DEF Some
  <1>2. QED  BY <1>1, SMTT(60) DEF Copies

\* Sending makes a copy more of what is sent.
LEMMA SentCopies ==
  ASSUME NEW c, NEW B, Some(c, B), NEW S
  PROVE  /\ Some(c, Send(B, S))
         /\ c \in S => Copies(c, Send(B, S)) = Copies(c, B) + 1
         /\ c \notin S => Copies(c, Send(B, S)) = Copies(c, B)
  <1> DEFINE D == Send(B, S)
  <1>1. CallsIn(D) = CallsIn(B) \cup S
    BY DEF Send, CallsIn
  <1>2. c \in CallsIn(D) => D[c] = Copies(c, B) + (IF c \in S THEN 1 ELSE 0)
    BY <1>1 DEF Send
  <1> HIDE DEF D
  <1>3. Copies(c, B) \in Nat /\ (c \in CallsIn(B) <=> Copies(c, B) # 0)
    BY SomeCopies
  <1>4. QED  BY <1>1, <1>2, <1>3, SMTT(60) DEF Some, Copies, D

\* What is kept keeps its copies.
LEMMA KeptCopies ==
  ASSUME NEW c, NEW B, Some(c, B), NEW S
  PROVE  Some(c, Keep(B, S)) /\ (c \in S => Copies(c, Keep(B, S)) = Copies(c, B))
  <1>1. CallsIn(Keep(B, S)) = CallsIn(B) \cap S
    BY DEF Keep, CallsIn
  <1>2. c \in CallsIn(B) \cap S => Keep(B, S)[c] = B[c]
    BY DEF Keep
  <1>3. QED  BY <1>1, <1>2 DEF Some, Copies

\* Taking a call makes a copy less of it.
LEMMA TakenCopies ==
  ASSUME NEW c, NEW B, Some(c, B), NEW d \in CallsIn(B)
  PROVE  /\ Some(c, Take(B, d))
         /\ c = d => Copies(c, Take(B, d)) = Copies(c, B) - 1
         /\ c # d => Copies(c, Take(B, d)) = Copies(c, B)
  <1>1. CASE B[d] > 1
    <2>1. Take(B, d) = [B EXCEPT ![d] = B[d] - 1]
      BY <1>1 DEF Take
    <2>2. CallsIn(Take(B, d)) = CallsIn(B)
      BY <2>1 DEF CallsIn
    <2>3. CASE c = d
      <3>1. Take(B, d)[c] = B[d] - 1
        BY <2>1, <2>3 DEF CallsIn
      <3>2. B[d] \in Nat /\ B[d] # 0
        BY <2>3 DEF Some
      <3>3. B[d] - 1 \in Nat /\ B[d] - 1 # 0
        BY <1>1, <3>2, SMTT(60)
      <3>4. QED  BY <2>2, <2>3, <3>1, <3>3 DEF Some, Copies
    <2>4. CASE c # d
      <3>1. c \in CallsIn(B) => Take(B, d)[c] = B[c]
        BY <2>1, <2>4 DEF CallsIn
      <3>2. QED  BY <2>2, <2>4, <3>1 DEF Some, Copies
    <2>5. QED  BY <2>3, <2>4
  <1>2. CASE ~(B[d] > 1)
    <2>1. Take(B, d) = Keep(B, CallsIn(B) \ {d})
      BY <1>2 DEF Take
    <2>2. CallsIn(Take(B, d)) = CallsIn(B) \ {d}
      BY <2>1 DEF Keep, CallsIn
    <2>3. CASE c = d
      <3>1. B[d] \in Nat /\ B[d] # 0
        BY <2>3 DEF Some
      <3>2. 0 = B[d] - 1
        BY <1>2, <3>1, SMTT(60)
      <3>3. QED  BY <2>2, <2>3, <3>2 DEF Some, Copies
    <2>4. CASE c # d
      <3>1. c \in CallsIn(B) => Take(B, d)[c] = B[c]
        BY <2>1, <2>4 DEF Keep
      <3>2. QED  BY <2>2, <2>4, <3>1 DEF Some, Copies
    <2>5. QED  BY <2>3, <2>4
  <1>3. QED  BY <1>1, <1>2

\* A handler that loses its caller returns nothing; the others stay.
LEMMA OrphanedHandlers ==
  ASSUME Rows, NEW B, NEW i,
         \A b \in CallsIn(B) : b.reply # Nil => b = HandlerOf(b.reply) /\ Some(b, B),
         NEW d \in CallsIn(OrphanHandlers(B, i))
  PROVE  \/ d.reply = Nil /\ \E b \in CallsIn(B) : d.peer = b.peer
         \/ /\ d.reply # Nil /\ d \in CallsIn(B) /\ d.reply.req.src # i
            /\ Some(d, OrphanHandlers(B, i))
            /\ Copies(d, OrphanHandlers(B, i)) = Copies(d, B)
  <1> DEFINE F(b) == IF b.reply # Nil /\ b.reply.req.src = i
                     THEN [b EXCEPT !.reply = Nil] ELSE b
             E == {b \in CallsIn(B) : F(b) = d}
  <1>1. OrphanHandlers(B, i) = [e \in {F(b) : b \in CallsIn(B)} |->
                                  Number(Keep(B, {b \in CallsIn(B) : F(b) = e}))]
    BY DEF OrphanHandlers, Turn
  <1>2. PICK b \in CallsIn(B) : F(b) = d
    BY <1>1 DEF CallsIn
  <1>3. OrphanHandlers(B, i)[d] = Number(Keep(B, E))
    BY <1>1, <1>2
  <1>4. ASSUME NEW x \in CallsIn(B), x.reply # Nil, x.reply.req.src = i
        PROVE  F(x).reply = Nil /\ F(x).peer = x.peer
    <2>1. x = [peer |-> x.reply.req.dst, rpc |-> x.reply.req.rpc, reply |-> x.reply]
      BY <1>4 DEF HandlerOf
    <2>2. F(x) = [x EXCEPT !.reply = Nil]
      BY <1>4
    <2>3. ASSUME NEW p, NEW r, NEW c, NEW y, y = [peer |-> p, rpc |-> r, reply |-> c]
          PROVE  [y EXCEPT !.reply = Nil].reply = Nil /\ [y EXCEPT !.reply = Nil].peer = y.peer
      BY <2>3, SMTT(60)
    <2>4. QED  BY <2>1, <2>2, <2>3
  <1>5. CASE b.reply # Nil /\ b.reply.req.src = i
    <2>1. F(b).reply = Nil /\ F(b).peer = b.peer
      BY <1>4, <1>5
    <2>2. QED  BY <1>2, <2>1
  <1>6. CASE ~(b.reply # Nil /\ b.reply.req.src = i)
    <2>1. d = b
      BY <1>2, <1>6
    <2>2. CASE d.reply = Nil
      BY <2>1, <2>2
    <2>3. CASE d.reply # Nil
      <3>1. d.reply.req.src # i /\ d \in CallsIn(B) /\ Some(d, B)
        BY <1>6, <2>1, <2>3
      <3>2. ASSUME NEW x \in E PROVE x = d
        <4>1. x \in CallsIn(B) /\ F(x) = d
          OBVIOUS
        <4>2. ~(x.reply # Nil /\ x.reply.req.src = i)
          BY <1>4, <2>3, <4>1
        <4>3. QED  BY <4>1, <4>2
      <3>3. d \in E
        BY <1>2, <2>1
      <3> HIDE DEF E, F
      <3>4. E = {d}
        BY <3>2, <3>3
      <3>5. Keep(B, E) = [c \in {d} |-> B[c]]
        BY <3>1, <3>4 DEF Keep
      <3>6. Number(Keep(B, E)) = Cardinality({d} \X (1..B[d]))
        <4>1. CallsIn(Keep(B, E)) = {d} /\ Keep(B, E)[d] = B[d]
          BY <3>5 DEF CallsIn
        <4>2. UNION {{c} \X (1..Keep(B, E)[c]) : c \in CallsIn(Keep(B, E))}
                = {d} \X (1..B[d])
          BY <4>1
        <4>3. QED  BY <4>2 DEF Number
      <3>7. B[d] \in Nat \ {0}
        BY <3>1 DEF Some
      <3>8. OrphanHandlers(B, i)[d] = B[d]
        BY <1>3, <3>6, <3>7 DEF Rows
      <3>9. QED  BY <2>3, <3>1, <3>7, <3>8 DEF Some, Copies
    <2>4. QED  BY <2>2, <2>3
  <1>7. QED  BY <1>5, <1>6

\* So there are finitely many copies of any reply.
LEMMA AllSome ==
  ASSUME Waiting, NEW c
  PROVE  Some(c, replies)
  BY DEF Waiting, Some

\* Waiting gives TickerTypeOK.
LEMMA WaitingTyped ==
  ASSUME Waiting
  PROVE  TickerTypeOK
  <1>1. ASSUME NEW b \in CallsIn(blocked), b.reply # Nil
        PROVE  b = HandlerOf(b.reply) /\ blocked[b] <= Copies(b.reply, replies)
    <2>1. Attended(b, blocked, replies)
      BY DEF Waiting
    <2>2. b = HandlerOf(b.reply) /\ Some(b, blocked)
          /\ Copies(b, blocked) <= Copies(b.reply, replies)
      BY <1>1, <2>1 DEF Attended
    <2>3. Copies(b, blocked) = blocked[b]
      BY DEF Copies
    <2>4. QED  BY <2>2, <2>3
  <1>2. \A b \in CallsIn(blocked) : b.peer \in Server
    BY DEF Waiting, Attended
  <1>3. QED  BY <1>1, <1>2 DEF Waiting, TickerTypeOK

\* A step of the ticker that leaves handlers and replies alone.
LEMMA WaitingCalm ==
  ASSUME Waiting, NEW i \in Server, NEW x \in {"top", "elect", "beat"},
         ticker' = [ticker EXCEPT ![i] = x] \/ ticker' = ticker,
         blocked' = blocked, replies' = replies
  PROVE  Waiting'
  <1>1. ticker' \in [Server -> {"top", "elect", "beat"}]
    BY SMTT(60) DEF Waiting
  <1>2. QED  BY <1>1 DEF Waiting

\* The ticker takes a token.
LEMMA WaitingReceive ==
  ASSUME Waiting, NEW i \in Server, NEW b \in CallsIn(blocked), TickerReceive(i, b)
  PROVE  Waiting'
  <1>1. ticker' \in [Server -> {"top", "elect", "beat"}]
    BY SMTT(60) DEF Waiting, TickerReceive
  <1>2. blocked' = Take(blocked, b) /\ replies' = replies
    BY DEF TickerReceive, vars, callVars
  <1>3. CallsIn(Take(blocked, b)) \subseteq CallsIn(blocked)
    BY DEF Take, Keep, CallsIn
  <1>4. ASSUME NEW d \in CallsIn(Take(blocked, b))
        PROVE  Attended(d, Take(blocked, b), replies)
    <2>1. Attended(d, blocked, replies)
      BY <1>3 DEF Waiting
    <2>2. CASE d.reply = Nil
      BY <2>1, <2>2 DEF Attended
    <2>3. CASE d.reply # Nil
      <3>1. d = HandlerOf(d.reply) /\ Some(d, blocked) /\ d.peer \in Server
            /\ Copies(d, blocked) <= Copies(d.reply, replies)
        BY <2>1, <2>3 DEF Attended
      <3>2. /\ Some(d, Take(blocked, b))
            /\ \/ Copies(d, Take(blocked, b)) = Copies(d, blocked) - 1
               \/ Copies(d, Take(blocked, b)) = Copies(d, blocked)
        BY <3>1, TakenCopies
      <3>3. Copies(d, blocked) \in Nat
        BY <3>1, SomeCopies
      <3>4. Copies(d.reply, replies) \in Nat
        BY SomeCopies, AllSome
      <3>5. Copies(d, Take(blocked, b)) <= Copies(d.reply, replies)
        BY <3>1, <3>2, <3>3, <3>4, SMTT(60)
      <3>6. QED  BY <3>1, <3>2, <3>5 DEF Attended
    <2>4. QED  BY <2>2, <2>3
  <1>5. QED  BY <1>1, <1>2, <1>4 DEF Waiting

\* A call returns once a handler with its reply has.
LEMMA WaitingReturn ==
  ASSUME Waiting, NEW c \in CallsIn(replies), CallReturns(c)
  PROVE  Waiting'
  <1>1. /\ replies' = Take(replies, c) /\ blocked' = blocked /\ ticker' = ticker
        /\ Copies(c, replies) > Copies(HandlerOf(c), blocked)
    BY DEF CallReturns, sendRequestVote, sendAppendEntries, Returned
  <1>2. \A d : Some(d, Take(replies, c))
    BY AllSome, TakenCopies
  <1>3. ASSUME NEW b \in CallsIn(blocked)
        PROVE  Attended(b, blocked, Take(replies, c))
    <2>1. Attended(b, blocked, replies)
      BY DEF Waiting
    <2>2. CASE b.reply = Nil
      BY <2>1, <2>2 DEF Attended
    <2>3. CASE b.reply # Nil
      <3>1. b = HandlerOf(b.reply) /\ Some(b, blocked) /\ b.peer \in Server
            /\ Copies(b, blocked) <= Copies(b.reply, replies)
        BY <2>1, <2>3 DEF Attended
      <3>2. /\ b.reply = c => Copies(b.reply, Take(replies, c)) = Copies(c, replies) - 1
            /\ b.reply # c => Copies(b.reply, Take(replies, c)) = Copies(b.reply, replies)
        BY AllSome, TakenCopies
      <3>3. Copies(b, blocked) \in Nat /\ Copies(c, replies) \in Nat
        BY <3>1, SomeCopies, AllSome
      <3>4. b.reply = c => Copies(c, replies) > Copies(b, blocked)
        BY <1>1, <3>1
      <3>5. Copies(b, blocked) <= Copies(b.reply, Take(replies, c))
        BY <3>1, <3>2, <3>3, <3>4, SMTT(60)
      <3>6. QED  BY <3>1, <3>5 DEF Attended
    <2>4. QED  BY <2>2, <2>3
  <1>4. QED  BY <1>1, <1>2, <1>3 DEF Waiting

\* A handler begins to wait, with its reply.
LEMMA WaitingHandle ==
  ASSUME Waiting, NEW r \in CallsIn(requests), r.dst \in Server, Handle(r)
  PROVE  Waiting'
  <1>1. ticker' = ticker
    BY DEF Handle
  <1>2. CASE r.src = Nil
    <2> DEFINE w == [peer |-> r.dst, rpc |-> r.rpc, reply |-> Nil]
    <2>1. blocked' = Send(blocked, {w})
      BY <1>2 DEF Handle
    <2>2. replies' = replies
      BY <1>2 DEF Handle, RequestVote, RejectVote, DecideVote, AppendEntries,
         RejectEntries, MissEntries, ConflictEntries, AcceptEntries, Answer
    <2>3. w.reply = Nil /\ w.peer = r.dst
      OBVIOUS
    <2> HIDE DEF w
    <2>4. ASSUME NEW b \in CallsIn(Send(blocked, {w}))
          PROVE  Attended(b, Send(blocked, {w}), replies)
      <3>1. CASE b.reply = Nil
        <4>1. b \in CallsIn(blocked) \/ b = w
          BY DEF Send, CallsIn
        <4>2. b.peer \in Server
          BY <2>3, <4>1 DEF Waiting, Attended
        <4>3. QED  BY <3>1, <4>2 DEF Attended
      <3>2. CASE b.reply # Nil
        <4>1. b # w /\ b \in CallsIn(blocked)
          BY <2>3, <3>2 DEF Send, CallsIn
        <4>2. Attended(b, blocked, replies)
          BY <4>1 DEF Waiting
        <4>3. b = HandlerOf(b.reply) /\ Some(b, blocked) /\ b.peer \in Server
              /\ Copies(b, blocked) <= Copies(b.reply, replies)
          BY <3>2, <4>2 DEF Attended
        <4>4. b \notin {w}
          BY <4>1
        <4>5. Some(b, Send(blocked, {w}))
              /\ Copies(b, Send(blocked, {w})) = Copies(b, blocked)
          BY <4>3, <4>4, SentCopies
        <4>6. QED  BY <4>3, <4>5 DEF Attended
      <3>3. QED  BY <3>1, <3>2
    <2>5. QED  BY <1>1, <2>1, <2>2, <2>4 DEF Waiting
  <1>3. CASE r.src # Nil
    <2>1. PICK t \in {0, currentTerm'[r.dst]}, ok \in BOOLEAN :
            LET c == [req |-> r, term |-> t, ok |-> ok]
            IN  /\ replies' = Send(replies, {c})
                /\ blocked' = Send(blocked,
                                   {[peer |-> r.dst, rpc |-> r.rpc, reply |-> c]})
      BY <1>3 DEF Handle
    <2> DEFINE c == [req |-> r, term |-> t, ok |-> ok]
               w == HandlerOf(c)
    <2>2. replies' = Send(replies, {c}) /\ blocked' = Send(blocked, {w})
      BY <2>1 DEF HandlerOf
    <2>3. w.reply = c /\ w.peer = r.dst
      BY DEF HandlerOf
    <2> HIDE DEF c
    <2>4. w = HandlerOf(w.reply)
      BY <2>3
    <2> HIDE DEF w
    <2>5. \A d : Some(d, Send(replies, {c}))
      BY AllSome, SentCopies
    <2>6. ASSUME NEW b \in CallsIn(Send(blocked, {w}))
          PROVE  Attended(b, Send(blocked, {w}), Send(replies, {c}))
      <3>1. b \in CallsIn(blocked) \/ b = w
        BY DEF Send, CallsIn
      <3>2. b.peer \in Server
        BY <2>3, <3>1 DEF Waiting, Attended
      <3>3. CASE b.reply = Nil
        BY <3>2, <3>3 DEF Attended
      <3>4. CASE b.reply # Nil
        <4>1. b \in CallsIn(blocked) => Attended(b, blocked, replies)
          BY DEF Waiting
        <4>2. b = HandlerOf(b.reply)
          BY <2>4, <3>1, <3>4, <4>1 DEF Attended
        <4>3. Some(b, blocked)
          BY <3>4, <4>1 DEF Attended, Some
        <4>4. b \in CallsIn(blocked) => Copies(b, blocked) <= Copies(b.reply, replies)
          BY <3>4, <4>1 DEF Attended
        <4>5. b \notin CallsIn(blocked) => Copies(b, blocked) = 0
          BY DEF Copies
        <4>6. Copies(b.reply, replies) \in Nat /\ Copies(b, blocked) \in Nat
          BY <4>3, SomeCopies, AllSome
        <4>7. Copies(b, blocked) <= Copies(b.reply, replies)
          BY <4>4, <4>5, <4>6, SMTT(60)
        <4>8. /\ Some(b, Send(blocked, {w}))
              /\ b \in {w} => Copies(b, Send(blocked, {w})) = Copies(b, blocked) + 1
              /\ b \notin {w} => Copies(b, Send(blocked, {w})) = Copies(b, blocked)
          BY <4>3, SentCopies
        <4>9. /\ b.reply \in {c} => Copies(b.reply, Send(replies, {c}))
                                        = Copies(b.reply, replies) + 1
              /\ b.reply \notin {c} => Copies(b.reply, Send(replies, {c}))
                                        = Copies(b.reply, replies)
          BY AllSome, SentCopies
        <4>10. b \in {w} => b.reply \in {c}
          BY <2>3
        <4>11. Copies(b, Send(blocked, {w})) <= Copies(b.reply, Send(replies, {c}))
          BY <4>6, <4>7, <4>8, <4>9, <4>10, SMTT(60)
        <4>12. QED  BY <3>2, <4>2, <4>8, <4>11 DEF Attended
      <3>5. QED  BY <3>3, <3>4
    <2>7. QED  BY <1>1, <2>2, <2>5, <2>6 DEF Waiting
  <1>4. QED  BY <1>2, <1>3

\* Calls are lost: the handlers of the lost ones wait for nobody.
LEMMA WaitingOrphan ==
  ASSUME Rows, Waiting, NEW i, NEW B,
         \A b \in CallsIn(B) : /\ b \in CallsIn(blocked)
                               /\ Some(b, blocked) => Some(b, B)
                               /\ Copies(b, B) = Copies(b, blocked),
         replies' = Keep(replies, {c \in CallsIn(replies) : c.req.src # i}),
         blocked' = OrphanHandlers(B, i),
         ticker' \in [Server -> {"top", "elect", "beat"}]
  PROVE  Waiting'
  <1> DEFINE S == {c \in CallsIn(replies) : c.req.src # i}
  <1>1. \A c : Some(c, Keep(replies, S))
    BY AllSome, KeptCopies
  <1>2. ASSUME NEW b \in CallsIn(B), b.reply # Nil
        PROVE  /\ b = HandlerOf(b.reply) /\ Some(b, B) /\ b.peer \in Server
               /\ Copies(b, B) <= Copies(b.reply, replies)
    BY <1>2 DEF Waiting, Attended
  <1>3. ASSUME NEW d \in CallsIn(OrphanHandlers(B, i))
        PROVE  Attended(d, OrphanHandlers(B, i), Keep(replies, S))
    <2>1. \/ d.reply = Nil /\ \E b \in CallsIn(B) : d.peer = b.peer
          \/ /\ d.reply # Nil /\ d \in CallsIn(B) /\ d.reply.req.src # i
             /\ Some(d, OrphanHandlers(B, i))
             /\ Copies(d, OrphanHandlers(B, i)) = Copies(d, B)
      BY <1>2, OrphanedHandlers
    <2>2. CASE d.reply = Nil
      <3>1. d.peer \in Server
        BY <2>1, <2>2 DEF Waiting, Attended
      <3>2. QED  BY <2>2, <3>1 DEF Attended
    <2>3. CASE d.reply # Nil
      <3>1. /\ d \in CallsIn(B) /\ d.reply.req.src # i
            /\ Some(d, OrphanHandlers(B, i))
            /\ Copies(d, OrphanHandlers(B, i)) = Copies(d, B)
        BY <2>1, <2>3
      <3>2. /\ d = HandlerOf(d.reply) /\ Some(d, B) /\ d.peer \in Server
            /\ Copies(d, B) <= Copies(d.reply, replies)
        BY <1>2, <2>3, <3>1
      <3>3. Copies(d, B) \in Nat /\ Copies(d, B) # 0
        BY <3>1, <3>2, SomeCopies
      <3>4. Copies(d.reply, replies) \in Nat
            /\ (d.reply \in CallsIn(replies) <=> Copies(d.reply, replies) # 0)
        BY AllSome, SomeCopies
      <3>5. Copies(d.reply, replies) # 0
        BY <3>2, <3>3, <3>4, SMTT(60)
      <3>6. d.reply \in S
        BY <3>1, <3>4, <3>5
      <3>7. Copies(d.reply, Keep(replies, S)) = Copies(d.reply, replies)
        BY <3>6, AllSome, KeptCopies
      <3>8. QED  BY <3>1, <3>2, <3>7 DEF Attended
    <2>4. QED  BY <2>2, <2>3
  <1>4. QED  BY <1>1, <1>3 DEF Waiting

\* LoseCalls.
LEMMA WaitingLoseCalls ==
  ASSUME Rows, Waiting, NEW i \in Server, TickerLoseCalls(i)
  PROVE  Waiting'
  <1>1. /\ replies' = Keep(replies, {c \in CallsIn(replies) : c.req.src # i})
        /\ blocked' = OrphanHandlers(blocked, i) /\ ticker' = ticker
    BY DEF TickerLoseCalls, LoseCalls
  <1>2. ticker' \in [Server -> {"top", "elect", "beat"}]
    BY <1>1 DEF Waiting
  <1>3. QED  BY <1>1, <1>2, WaitingOrphan

\* Restart: the handlers of the old instance are gone as well.
LEMMA WaitingRestart ==
  ASSUME Rows, Waiting, NEW i \in Server, TickerRestart(i)
  PROVE  Waiting'
  <1> DEFINE B == Keep(blocked, {b \in CallsIn(blocked) : b.peer # i})
  <1>1. /\ replies' = Keep(replies, {c \in CallsIn(replies) : c.req.src # i})
        /\ blocked' = OrphanHandlers(B, i)
    BY DEF TickerRestart, Restart
  <1>2. ticker' \in [Server -> {"top", "elect", "beat"}]
    BY SMTT(60) DEF TickerRestart, Waiting
  <1>3. ASSUME NEW b \in CallsIn(B)
        PROVE  /\ b \in CallsIn(blocked)
               /\ Some(b, blocked) => Some(b, B)
               /\ Copies(b, B) = Copies(b, blocked)
    <2>1. b \in CallsIn(blocked) /\ B[b] = blocked[b]
      BY DEF Keep, CallsIn
    <2> HIDE DEF B
    <2>2. QED  BY <2>1 DEF Some, Copies
  <1>4. QED  BY <1>1, <1>2, <1>3, WaitingOrphan

\* Every step.
LEMMA WaitingStep ==
  ASSUME Rows, Waiting, \A r \in CallsIn(requests) : r.dst \in Server,
         [TickerNext]_tickerVars
  PROVE  Waiting'
  <1>1. CASE UNCHANGED tickerVars
    BY <1>1 DEF tickerVars, vars, callVars, Waiting
  <1>2. ASSUME NEW i \in Server, TickerTop(i)
        PROVE  Waiting'
    <2>1. blocked' = blocked /\ replies' = replies
      BY <1>2 DEF TickerTop, persist, vars, callVars
    <2>2. PICK x \in {"top", "elect", "beat"} : ticker' = [ticker EXCEPT ![i] = x]
      BY <1>2 DEF TickerTop
    <2>3. QED  BY <2>1, <2>2, WaitingCalm
  <1>3. ASSUME NEW i \in Server,
               ElectionTimeout(i) \/ HeartBeatTimeout(i)
        PROVE  Waiting'
    <2>1. blocked' = blocked /\ replies' = replies
          /\ ticker' = [ticker EXCEPT ![i] = "top"]
      BY <1>3 DEF ElectionTimeout, HeartBeatTimeout, becomeCandidate, sendHeartBeats,
         vars, callVars
    <2>2. QED  BY <2>1, WaitingCalm
  <1>4. ASSUME NEW i \in Server, NEW command \in Command, TickerStart(i, command)
        PROVE  Waiting'
    <2>1. blocked' = blocked /\ replies' = replies /\ ticker' = ticker
      BY <1>4 DEF TickerStart, Start, callVars
    <2>2. QED  BY <2>1, WaitingCalm
  <1>5. QED  BY <1>1, <1>2, <1>3, <1>4, WaitingReceive, WaitingReturn, WaitingHandle,
                WaitingLoseCalls, WaitingRestart DEF TickerNext, ReliableNext

\* The first state.
LEMMA WaitingInit ==
  ASSUME TickerInit
  PROVE  Waiting
  <1>1. CallsIn(NoCalls) = {}
    BY DEF CallsIn, NoCalls
  <1>2. ticker \in [Server -> {"top", "elect", "beat"}]
    BY SMTT(60) DEF TickerInit
  <1>3. QED  BY <1>1, <1>2 DEF TickerInit, Init, Waiting

=============================================================================
