----------------------------- MODULE RaftTicker -----------------------------
(***************************************************************************)
(* The goroutines of a Raft peer: the ticker of src/raft/raft.go and the   *)
(* RPC handlers that wait for it.                                          *)
(*                                                                         *)
(* The ticker reads rf.state once per loop and then waits in the select of *)
(* that state, until a handler sends it a token or its timer fires.  Every *)
(* handler, having left its critical section, sends a token on an          *)
(* unbuffered channel, and its reply leaves only after the ticker took it. *)
(* Each action here is an action of Raft together with what it does to the *)
(* ticker and to the waiting handlers, so this module implements Raft.     *)
(***************************************************************************)
EXTENDS Raft

CONSTANT MaxBlocked   \* bound: handlers of one peer waiting for its ticker

ASSUME MaxBlockedAssumption == MaxBlocked \in Nat \ {0}

VARIABLES
  ticker,   \* "top" of the loop, or in the select "elect" or "beat"
  blocked   \* bag: the waiting handlers

tickerVars == <<vars, ticker, blocked>>

\* A waiting handler: where, which RPC, and the reply it will return (Nil when
\* nobody waits for it).  The RPC tells the channel: receivedVoteChan for
\* RequestVote, heartBeatChan for AppendEntries.
Handler == [peer : Server, rpc : {"RequestVote", "AppendEntries"},
            reply : Reply \cup {Nil}]

HandlerOf(c) == [peer |-> c.req.dst, rpc |-> c.req.rpc, reply |-> c]
BlockedAt(i) == {b \in CallsIn(blocked) : b.peer = i}

OrphanHandlers(B, i) ==
  Turn(B, LAMBDA b : IF b.reply # Nil /\ b.reply.req.src = i
                     THEN [b EXCEPT !.reply = Nil] ELSE b)

TickerInit ==
  /\ Init
  /\ ticker = [i \in Server |-> "top"]
  /\ blocked = NoCalls

-----------------------------------------------------------------------------
\* Top of the loop: read the state and persist in one critical section, then
\* enter the select of that state.  Follower and Candidate have the same one.
TickerTop(i) ==
  /\ ticker[i] = "top"
  /\ \/ persist(i)
     \/ ~(LossyCrash /\ restarts < MaxRestarts) /\ UNCHANGED vars
  /\ ticker' = [ticker EXCEPT
       ![i] = IF state[i] = "Leader" THEN "beat" ELSE "elect"]
  /\ UNCHANGED blocked

\* The channels a select listens on: heartBeatChan always, receivedVoteChan
\* unless it is the Leader case.
BadListens(i, b) == ticker[i] = "elect"
Listens(i, b) ==
  \/ ticker[i] = "elect"
  \/ ticker[i] = "beat" /\ b.rpc = "AppendEntries"

\* The ticker takes the token of handler b, which returns.
TickerReceive(i, b) ==
  /\ b.peer = i
  /\ Listens(i, b)
  /\ ticker' = [ticker EXCEPT ![i] = "top"]
  /\ blocked' = Take(blocked, b)
  /\ UNCHANGED vars

\* The election timer fires in the select entered as Follower or Candidate.
ElectionTimeout(i) ==
  /\ ticker[i] = "elect"
  /\ becomeCandidate(i)
  /\ ticker' = [ticker EXCEPT ![i] = "top"]
  /\ UNCHANGED blocked

\* The timer is only heeded by a peer that is still leader.
BadHeartBeatTimeout(i) ==
  /\ ticker[i] = "beat"
  /\ sendHeartBeats(i)
  /\ ticker' = [ticker EXCEPT ![i] = "top"]
  /\ UNCHANGED blocked

\* The 50 ms timer fires in the select entered as Leader.
HeartBeatTimeout(i) ==
  /\ ticker[i] = "beat"
  /\ \/ sendHeartBeats(i)
     \/ state[i] # "Leader" /\ UNCHANGED vars
  /\ ticker' = [ticker EXCEPT ![i] = "top"]
  /\ UNCHANGED blocked

\* A handler runs its critical section and then waits for the ticker.
Handle(r) ==
  LET i == r.dst
      Wait(reply) ==
        blocked' = Send(blocked, {[peer |-> i, rpc |-> r.rpc, reply |-> reply]})
  IN  /\ Number(Keep(blocked, BlockedAt(i))) < MaxBlocked
      /\ RequestVote(r) \/ AppendEntries(r)
      /\ \/ r.src = Nil /\ Wait(Nil)
         \/ /\ r.src # Nil
            /\ \E t \in {0, currentTerm'[i]}, ok \in BOOLEAN :
                 LET c == [req |-> r, term |-> t, ok |-> ok]
                 IN  replies' = Send(replies, {c}) /\ Wait(c)
      /\ UNCHANGED ticker

\* Some handler with this reply no longer waits.
BadReturned(c) == TRUE
Returned(c) == Copies(c, replies) > Copies(HandlerOf(c), blocked)

\* Call returns in the caller once the handler has returned.
CallReturns(c) ==
  /\ Returned(c)
  /\ sendRequestVote(c) \/ sendAppendEntries(c)
  /\ UNCHANGED <<ticker, blocked>>

TickerStart(i, command) == Start(i, command) /\ UNCHANGED <<ticker, blocked>>

\* A handler whose call is lost goes on waiting for its ticker.
TickerLoseCalls(i) ==
  /\ LoseCalls(i)
  /\ blocked' = OrphanHandlers(blocked, i)
  /\ UNCHANGED ticker

\* The handlers of the old instance are gone with it.
TickerRestart(i) ==
  /\ Restart(i)
  /\ ticker' = [ticker EXCEPT ![i] = "top"]
  /\ blocked' = OrphanHandlers(
       Keep(blocked, {b \in CallsIn(blocked) : b.peer # i}), i)

\* What happens when no call is lost and no peer crashes.
ReliableNext ==
  \/ \E i \in Server : TickerTop(i)
  \/ \E i \in Server : \E b \in CallsIn(blocked) : TickerReceive(i, b)
  \/ \E i \in Server : ElectionTimeout(i)
  \/ \E i \in Server : HeartBeatTimeout(i)
  \/ \E r \in CallsIn(requests) : Handle(r)
  \/ \E c \in CallsIn(replies) : CallReturns(c)
  \/ \E i \in Server, command \in Command : TickerStart(i, command)

TickerNext ==
  \/ ReliableNext
  \/ \E i \in Server : TickerLoseCalls(i)
  \/ \E i \in Server : TickerRestart(i)

Waits(i, rpc) == \E b \in BlockedAt(i) : b.rpc = rpc
Receive(i, rpc) == \E b \in BlockedAt(i) : b.rpc = rpc /\ TickerReceive(i, b)

\* The ticker goroutine is scheduled, its timer fires if nothing else happens,
\* and a select, which picks at random among the channels that are ready, does
\* not pass over one of them for ever.
Fairness ==
  \A i \in Server :
    /\ WF_tickerVars(TickerTop(i))
    /\ WF_tickerVars(HeartBeatTimeout(i))
    /\ SF_tickerVars(Receive(i, "AppendEntries"))
    /\ SF_tickerVars(Receive(i, "RequestVote"))

TickerSpec == TickerInit /\ [][TickerNext]_tickerVars /\ Fairness
ReliableSpec == TickerInit /\ [][ReliableNext]_tickerVars

-----------------------------------------------------------------------------
\* The ticker and the waiting handlers have their type, and a caller has not
\* got a reply whose handler still waits.
TickerTypeOK ==
  /\ ticker \in [Server -> {"top", "elect", "beat"}]
  /\ \A b \in CallsIn(blocked) :
       /\ b.peer \in Server
       /\ b.reply # Nil => b = HandlerOf(b.reply) /\ blocked[b] <= Copies(b.reply, replies)

\* No handler waits for ever: the ticker goes on taking the tokens of waiting
\* AppendEntries handlers, and those of RequestVote handlers unless the peer
\* stays leader.  A leader deposed inside RequestVote does not listen on
\* receivedVoteChan until its 50 ms timer has fired.
HandlersReturn ==
  \A i \in Server :
    /\ <>[]Waits(i, "AppendEntries")
         => []<><<Receive(i, "AppendEntries")>>_tickerVars
    /\ <>[](Waits(i, "RequestVote") /\ state[i] # "Leader")
         => []<><<Receive(i, "RequestVote")>>_tickerVars

\* "The ticker go routine starts a new election if this peer hasn't received
\* heartsbeats recently": a peer that is not leader comes to wait with an election
\* timer, or becomes leader.  It may have been deposed, by a request or by a reply,
\* while its ticker was in the select of a leader, which has no such timer.
TimerSet ==
  \A i \in Server : state[i] # "Leader" ~> (state[i] = "Leader" \/ ticker[i] = "elect")

\* Without failures a leader stays leader as far as its own timers go: it
\* does not start an election itself.
LeaderKeepsOffice ==
  [][\A i \in Server : state[i] = "Leader" => state'[i] # "Candidate"]_tickerVars

=============================================================================
