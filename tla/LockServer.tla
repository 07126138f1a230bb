----------------------------- MODULE LockServer -----------------------------
(***************************************************************************)
(* The lock servers and clerks of src/raft-lock over a log that Raft       *)
(* agrees on.  Raft is external here: a leader proposes entries, a prefix  *)
(* of the present leader's log is chosen, a deposed leader may go on       *)
(* believing that it leads, and a peer holds rf.mu while it sends a batch  *)
(* of chosen entries on applyCh.  What TLC found Raft itself to do wrong   *)
(* is left out: this module asks what the service makes of a correct log.  *)
(***************************************************************************)
EXTENDS LockStore

CONSTANTS Server,
          FirstLeader,
          Script,        \* for each clerk the operations it calls, in order
          MaxElections, MaxRestarts,
          Budget         \* bounds; the last one limits entries, elections and
                         \* restarts together

ASSUME LockServerAssumption ==
  /\ FirstLeader \in Server /\ None \notin Server
  /\ Script \in [Clerk -> Seq([type : {"Lock", "Unlock"}, key : Key])]
  /\ {MaxElections, MaxRestarts, Budget} \subseteq Nat

VARIABLES
  proposed, chosen,   \* the present leader's log; its first entries are chosen
  leader,             \* elected last, or None
  leads,              \* the peers whose rf.state is Leader
  size,               \* the length of a deposed leader's log
  elections, restarts,
  commit, sent,       \* of each peer: commitIndex; last entry put on applyCh
  taken,              \* the entry that applyOpsLoop has taken last
  stage,              \* what applyOpsLoop does next; it holds ls.mu unless it
                      \* waits for applyCh
  machine, owner,     \* store and lastApplied; the owner before the operation
  results,            \* the indexes whose channel holds an operation
  ck,                 \* the clerks
  holds,              \* the keys a clerk was given and has not unlocked since
  agreed              \* the machine after 0, 1, ... chosen entries (history)

raft == <<proposed, chosen, leader, leads, size, elections, restarts>>
feed == <<commit, sent>>
apply == <<taken, stage, machine, owner>>
vars == <<raft, feed, apply, results, ck, holds, agreed>>

\* A clerk between calls, and one about to call a server.
Idle(n) == [pc |-> "idle", req |-> n, server |-> None, index |-> 0]
Sending(n) == [pc |-> "send", req |-> n, server |-> None, index |-> 0]

Init ==
  /\ proposed = <<>> /\ chosen = 0
  /\ leader = FirstLeader /\ leads = {FirstLeader}
  /\ size = [s \in Server |-> 0]
  /\ elections = 0 /\ restarts = 0
  /\ commit = [s \in Server |-> 0] /\ sent = [s \in Server |-> 0]
  /\ taken = [s \in Server |-> 0] /\ stage = [s \in Server |-> "wait"]
  /\ machine = [s \in Server |-> EmptyMachine]
  /\ owner = [s \in Server |-> None]
  /\ results = [s \in Server |-> {}]
  /\ ck = [c \in Clerk |-> Idle(0)]
  /\ holds = [c \in Clerk |-> {}]
  /\ agreed = <<EmptyMachine>>

\* rf.mu is held for as long as a batch is being sent on applyCh.
Busy(s) == sent[s] < commit[s]

\* n entries fit into the bound.
Within(n) == n + elections + restarts <= Budget

-----------------------------------------------------------------------------
\* Raft, as the service sees it.

Choose ==
  /\ leader # None /\ ~Busy(leader) /\ chosen < Len(proposed)
  /\ chosen' = chosen + 1
  /\ agreed' = Append(agreed, Applied(agreed[chosen + 1], proposed[chosen + 1]))
  /\ UNCHANGED <<proposed, leader, leads, size, elections, restarts, feed, apply,
                 results, ck, holds>>

\* The new leader has the chosen entries and some of those proposed last.
Elect(s) ==
  /\ s # leader /\ ~Busy(s) /\ elections < MaxElections /\ Within(Len(proposed) + 1)
  /\ leader' = s /\ leads' = leads \cup {s} /\ elections' = elections + 1
  /\ \E n \in chosen .. Len(proposed) : proposed' = SubSeq(proposed, 1, n)
  /\ size' = [t \in Server |-> CASE t = s -> 0
                                 [] t = leader -> Len(proposed)
                                 [] OTHER -> size[t]]
  /\ UNCHANGED <<chosen, restarts, feed, apply, results, ck, holds, agreed>>

StepDown(s) ==
  /\ s \in leads \ {leader} /\ ~Busy(s)
  /\ leads' = leads \ {s} /\ size' = [size EXCEPT ![s] = 0]
  /\ UNCHANGED <<proposed, chosen, leader, elections, restarts, feed, apply,
                 results, ck, holds, agreed>>

\* commitIndex moves on, by one entry or by several.  A deposed leader learns of
\* entries only from the next one, which makes it step down.
Learn(s) ==
  /\ ~Busy(s) /\ s \notin leads \ {leader}
  /\ \E n \in sent[s] + 1 .. chosen : commit' = [commit EXCEPT ![s] = n]
  /\ UNCHANGED <<raft, sent, apply, results, ck, holds, agreed>>

\* applyCh holds one message.
Room(s) == sent[s] = taken[s]

Deliver(s) ==
  /\ Busy(s) /\ Room(s)
  /\ sent' = [sent EXCEPT ![s] = @ + 1]
  /\ UNCHANGED <<raft, commit, apply, results, ck, holds, agreed>>

-----------------------------------------------------------------------------
\* applyOpsLoop.

OpOf(s) == proposed[taken[s]]
NewOwner(s) == getLockOwner(machine[s].store, OpOf(s).key)

\* Handlers that wait for the channel of index i.
Waiters(s, i) ==
  {c \in Clerk : /\ ck[c].pc \in {"lookup", "waiting"}
                 /\ ck[c].server = s /\ ck[c].index = i}

\* The operation is put into the channel of its index, which has room because an
\* index is applied once in the life of a server, and ls.mu is unlocked.  A
\* channel that nobody waits for is forgotten.
PutResult(s, i) ==
  /\ results' = [results EXCEPT ![s] = @ \cup (IF Waiters(s, i) = {} THEN {} ELSE {i})]
  /\ stage' = [stage EXCEPT ![s] = "wait"]

\* The loop takes a message, locks ls.mu and applies the operation, or answers at
\* once if it is a retry.
TakeMessage(s) ==
  LET op == proposed[taken[s] + 1] IN
  /\ stage[s] = "wait" /\ taken[s] < sent[s]
  /\ owner' = [owner EXCEPT ![s] = getLockOwner(machine[s].store, op.key)]
  /\ machine' = [machine EXCEPT ![s] = Applied(@, op)]
  /\ taken' = [taken EXCEPT ![s] = @ + 1]
  /\ IF Fresh(machine[s], op)
     THEN stage' = [stage EXCEPT ![s] = "event"] /\ UNCHANGED results
     ELSE PutResult(s, taken[s] + 1)
  /\ UNCHANGED <<raft, feed, ck, holds, agreed>>

BadIsLeader(s) == TRUE

\* isLeader answers once it has got rf.mu.
IsLeader(s) == s \in leads

\* A leader reports the operation to the tester; if the owner changed it goes on
\* to tell the new one.
AskRole(s) ==
  /\ stage[s] = "event" /\ ~Busy(s)
  /\ IF IsLeader(s) /\ NewOwner(s) # owner[s]
     THEN stage' = [stage EXCEPT ![s] = "give"] /\ UNCHANGED results
     ELSE PutResult(s, taken[s])
  /\ UNCHANGED <<raft, feed, taken, machine, owner, ck, holds, agreed>>

\* giveLockToOwner asks again.  There is no clerk to call when nobody waits.
GiveLock(s) ==
  /\ stage[s] = "give" /\ ~Busy(s)
  /\ IF IsLeader(s) /\ NewOwner(s) # None
     THEN stage' = [stage EXCEPT ![s] = "call"] /\ UNCHANGED results
     ELSE PutResult(s, taken[s])
  /\ UNCHANGED <<raft, feed, taken, machine, owner, ck, holds, agreed>>

\* The call reaches the clerk, or is lost; it is not repeated.
ReceiveLock(s) ==
  /\ stage[s] = "call"
  /\ PutResult(s, taken[s])
  /\ holds' = [holds EXCEPT ![NewOwner(s)] = @ \cup {OpOf(s).key}]
  /\ UNCHANGED <<raft, feed, taken, machine, owner, ck, agreed>>

LoseReceiveLock(s) ==
  /\ stage[s] = "call"
  /\ PutResult(s, taken[s])
  /\ UNCHANGED <<raft, feed, taken, machine, owner, ck, holds, agreed>>

-----------------------------------------------------------------------------
\* Clerk and Mutex.

\* Lock or Unlock is called, which gives the request its number.
Call(c) ==
  LET n == ck[c].req + 1 IN
  /\ ck[c].pc = "idle" /\ n <= Len(Script[c])
  /\ ck' = [ck EXCEPT ![c] = Sending(n)]
  /\ holds' = IF Script[c][n].type = "Unlock"
              THEN [holds EXCEPT ![c] = @ \ {Script[c][n].key}]
              ELSE holds
  /\ UNCHANGED <<raft, feed, apply, results, agreed>>

\* A call to a server that leads arrives, and rf.Start appends the operation.
\* Calls that are lost or come to another server only move the clerk on to the
\* next one, so that it may get to any server.  The handler goes on to look the
\* channel of the index up, or to make it, at once if ls.mu is free and otherwise
\* in a step of its own.
Start(c, s) ==
  LET n == IF s = leader THEN Len(proposed) ELSE size[s]
      call == Script[c][ck[c].req]
      op == [clerk |-> c, req |-> ck[c].req, type |-> call.type, key |-> call.key]
  IN /\ ck[c].pc = "send" /\ s \in leads /\ ~Busy(s) /\ Within(n + 1)
     /\ proposed' = IF s = leader THEN Append(proposed, op) ELSE proposed
     /\ size' = IF s = leader THEN size ELSE [size EXCEPT ![s] = n + 1]
     /\ ck' = [ck EXCEPT ![c] = [pc |-> IF stage[s] = "wait" THEN "waiting" ELSE "lookup",
                                 req |-> op.req, server |-> s, index |-> n + 1]]
     /\ UNCHANGED <<chosen, leader, leads, elections, restarts, feed, apply, results,
                    holds, agreed>>

LookUp(c) ==
  /\ ck[c].pc = "lookup" /\ stage[ck[c].server] = "wait"
  /\ ck' = [ck EXCEPT ![c].pc = "waiting"]
  /\ UNCHANGED <<raft, feed, apply, results, holds, agreed>>

BadIsSameOp(c, op) == TRUE

isSameOp(c, op) == op.clerk = c /\ op.req = ck[c].req

\* An operation was applied at the index; it may be another one than was started.
\* The answer reaches the clerk or is lost.
TakeResult(c) ==
  LET s == ck[c].server
      i == ck[c].index
  IN /\ ck[c].pc = "waiting" /\ i \in results[s]
     /\ results' = [results EXCEPT ![s] = @ \ {i}]
     /\ \/ ck' = [ck EXCEPT ![c] = Sending(ck[c].req)]
        \/ /\ isSameOp(c, proposed[i])
           /\ ck' = [ck EXCEPT ![c] = Idle(ck[c].req)]
     /\ UNCHANGED <<raft, feed, apply, holds, agreed>>

\* No time.After in the select.
BadTimeOut(c) == FALSE /\ UNCHANGED vars

\* The clerk takes it for the answer.
BadTimeOutReturns(c) ==
  /\ ck[c].pc = "waiting"
  /\ ck' = [ck EXCEPT ![c] = Idle(ck[c].req)]
  /\ UNCHANGED <<raft, feed, apply, results, holds, agreed>>

\* 20 ms have passed.  The answer sends the clerk to the next server.
TimeOut(c) ==
  LET s == ck[c].server
      i == ck[c].index
  IN /\ ck[c].pc = "waiting"
     /\ ck' = [ck EXCEPT ![c] = Sending(ck[c].req)]
     /\ results' = [results EXCEPT ![s] = IF Waiters(s, i) = {c} THEN @ \ {i} ELSE @]
     /\ UNCHANGED <<raft, feed, apply, holds, agreed>>

BadRebuilt(s) == machine[s]

\* What a new LockServer starts from.
Rebuilt(s) == EmptyMachine

\* ShutdownServer and StartServer: a new LockServer whose Raft peer has kept its
\* log and will send it from the first entry on.
Restart(s) ==
  /\ restarts < MaxRestarts /\ Within(Len(proposed) + 1)
  /\ restarts' = restarts + 1
  /\ leader' = IF leader = s THEN None ELSE leader
  /\ leads' = leads \ {s} /\ size' = [size EXCEPT ![s] = 0]
  /\ commit' = [commit EXCEPT ![s] = 0] /\ sent' = [sent EXCEPT ![s] = 0]
  /\ taken' = [taken EXCEPT ![s] = 0] /\ stage' = [stage EXCEPT ![s] = "wait"]
  /\ machine' = [machine EXCEPT ![s] = Rebuilt(s)]
  /\ owner' = [owner EXCEPT ![s] = None]
  /\ results' = [results EXCEPT ![s] = {}]
  /\ ck' = [c \in Clerk |-> IF ck[c].server = s THEN Sending(ck[c].req) ELSE ck[c]]
  /\ UNCHANGED <<proposed, chosen, elections, holds, agreed>>

-----------------------------------------------------------------------------
Loop(s) ==
  \/ TakeMessage(s) \/ AskRole(s) \/ GiveLock(s) \/ ReceiveLock(s)
  \/ LoseReceiveLock(s)

Handler(c) == LookUp(c) \/ TakeResult(c) \/ TimeOut(c)

Next ==
  \/ Choose
  \/ \E s \in Server : \/ Elect(s) \/ StepDown(s) \/ Learn(s) \/ Deliver(s)
                       \/ Restart(s) \/ Loop(s)
  \/ \E c \in Clerk : Call(c) \/ Handler(c) \/ \E s \in Server : Start(c, s)

Spec == Init /\ [][Next]_vars

\* The goroutines of a server are scheduled and its timers fire.  Raft's sending
\* and the loop's taking go on only together, so that one condition is fair to
\* both.  Nothing is assumed of clerks, network and elections.
Fairness ==
  /\ \A s \in Server : WF_vars(Deliver(s) \/ Loop(s))
  /\ \A c \in Clerk : WF_vars(Handler(c))

FairSpec == Spec /\ Fairness
=============================================================================
