--------------------------- MODULE ServiceProofs ----------------------------
(* The lock service and the simulated network.  The replicas agree and the lock
   service implements LockService, for any number of servers, clerks and keys,
   any calls, and any number of elections, restarts, timeouts and retries.  Calls
   over the network run at most once and are answered by servers that are still
   there, for any number of calls, ends, names and servers. *)
EXTENDS LockServerProps, LabRpc, TLAPS

\* Leaves are first-order unless they say otherwise.
USE ZenonT(60)

-----------------------------------------------------------------------------
(* The lock service.                                                       *)

\* What a clerk knows about its call.
Clerks ==
  /\ ck \in [Clerk -> [pc : {"idle", "send", "lookup", "waiting"}, req : Nat,
                       server : Server \cup {None}, index : Nat]]
  /\ \A c \in Clerk :
       /\ ck[c].req <= Len(Script[c])
       /\ ck[c].pc # "idle" => ck[c].req # 0
       /\ ck[c].pc = "idle" => ck[c].server = None
       /\ ck[c].pc \in {"lookup", "waiting"} => ck[c].server \in Server

\* How far the log and each replica have got: taken, sent, committed, chosen,
\* proposed.  A result is of an entry that was taken.
Log ==
  /\ proposed \in Seq(Op) /\ chosen \in Nat /\ chosen <= Len(proposed)
  /\ size \in [Server -> Nat]

Progress ==
  /\ commit \in [Server -> Nat] /\ sent \in [Server -> Nat] /\ taken \in [Server -> Nat]
  /\ results \in [Server -> SUBSET Nat]
  /\ stage \in [Server -> {"wait", "event", "give", "call"}]
  /\ \A s \in Server :
       /\ taken[s] <= sent[s] /\ sent[s] <= commit[s] /\ commit[s] <= chosen
       /\ \A i \in results[s] : 0 < i /\ i <= taken[s]
       /\ stage[s] # "wait" => 0 < taken[s]

Order == Clerks /\ Log /\ Progress

\* The history of the machine is what the chosen entries make of the empty one,
\* and each replica stands at one of its points.
History ==
  /\ agreed \in Seq({agreed[i] : i \in DOMAIN agreed}) /\ Len(agreed) = chosen + 1
  /\ agreed[1] = EmptyMachine
  /\ \A i \in 1 .. chosen : agreed[i + 1] = Applied(agreed[i], proposed[i])
  /\ agreed[chosen + 1].last \in [Clerk -> Nat]
  /\ machine = [s \in Server |-> agreed[taken[s] + 1]]

\* Entries are calls of the script that have begun.  Only the present call of a
\* clerk may not have taken effect, and it has when it has returned or an entry
\* for it is chosen.
Effects ==
  /\ \A i \in 1 .. Len(proposed) :
       LET c == proposed[i].clerk
           n == proposed[i].req
       IN /\ n <= ck[c].req
          /\ proposed[i].type = Script[c][n].type /\ proposed[i].key = Script[c][n].key
          /\ i <= chosen => n <= agreed[chosen + 1].last[c]
  /\ \A c \in Clerk :
       /\ agreed[chosen + 1].last[c] <= ck[c].req
       /\ ck[c].req <= agreed[chosen + 1].last[c] + 1
       /\ ck[c].pc = "idle" => agreed[chosen + 1].last[c] = ck[c].req

-----------------------------------------------------------------------------
\* The calls of a clerk.
LEMMA Calls ==
  ASSUME NEW c \in Clerk, NEW n \in Nat, n # 0, n <= Len(Script[c])
  PROVE  /\ Len(Script[c]) \in Nat
         /\ Script[c][n].type \in {"Lock", "Unlock"} /\ Script[c][n].key \in Key
<1> DEFINE T == [type : {"Lock", "Unlock"}, key : Key]
<1>1. Script \in [Clerk -> Seq(T)]
  BY LockServerAssumption
<1>2. /\ Len(Script[c]) \in Nat /\ n \in 1 .. Len(Script[c]) /\ Script[c][n] \in T
  <2> HIDE DEF T
  <2>1. Script[c] \in Seq(T)
    BY <1>1
  <2>2. Len(Script[c]) \in Nat /\ n \in 1 .. Len(Script[c])
    BY <2>1, SMTT(60)
  <2> QED BY <2>1, <2>2, SMTT(60)
<1> QED BY <1>2

\* The start: no clerk has called, nothing is proposed.
LEMMA OrderInit == Init => Order
<1> SUFFICES ASSUME Init PROVE Order OBVIOUS
<1>1. Script \in [Clerk -> Seq([type : {"Lock", "Unlock"}, key : Key])]
  BY LockServerAssumption
<1>2. Clerks
  <2>1. \A c \in Clerk : 0 <= Len(Script[c])
    BY <1>1, SMTT(60)
  <2> QED BY <2>1 DEF Init, Clerks, Idle
<1>3. Log
  BY SMTT(60) DEF Init, Log
<1>4. Progress
  BY SMTT(60) DEF Init, Progress
<1> QED BY <1>2, <1>3, <1>4 DEF Order

\* Raft: Choose, Elect, StepDown and Learn.
LEMMA OrderRaft ==
  ASSUME Order, NEW s \in Server, Choose \/ Elect(s) \/ StepDown(s) \/ Learn(s) \/ Deliver(s)
  PROVE  Order'
<1>0. Clerks /\ Log /\ Progress
  BY DEF Order
<1>1. UNCHANGED <<ck, taken, stage, results>>
  BY DEF Choose, Elect, StepDown, Learn, Deliver, apply
<1>2. Clerks'
  BY <1>0, <1>1 DEF Clerks
<1>3. CASE Choose
  <2>1. chosen < Len(proposed) /\ chosen' = chosen + 1 /\ UNCHANGED <<proposed, size, commit, sent>>
    BY <1>3 DEF Choose, feed
  <2>2. Log'
    BY <1>0, <2>1, SMTT(60) DEF Log
  <2>3. Progress'
    BY <1>0, <1>1, <2>1, SMTT(60) DEF Progress, Log
  <2> QED BY <1>2, <2>2, <2>3 DEF Order
<1>4. CASE Elect(s) \/ StepDown(s)
  <2>1. UNCHANGED <<chosen, commit, sent>>
    BY <1>4 DEF Elect, StepDown, feed
  <2>2. Log'
    <3>1. CASE Elect(s)
      <4>1. PICK n \in chosen .. Len(proposed) : proposed' = SubSeq(proposed, 1, n)
        BY <3>1 DEF Elect
      <4>2. size' \in [Server -> Nat]
        BY <1>0, <3>1, SMTT(60) DEF Log, Elect
      <4> QED BY <1>0, <2>1, <4>1, <4>2, SMTT(60) DEF Log
    <3>2. CASE StepDown(s)
      BY <1>0, <3>2 DEF Log, StepDown
    <3> QED BY <1>4, <3>1, <3>2
  <2>3. Progress'
    BY <1>0, <1>1, <2>1 DEF Progress
  <2> QED BY <1>2, <2>2, <2>3 DEF Order
<1>5. CASE Learn(s)
  <2>1. UNCHANGED <<proposed, chosen, size, sent>>
    BY <1>5 DEF Learn, raft
  <2>2. PICK n \in sent[s] + 1 .. chosen : commit' = [commit EXCEPT ![s] = n]
    BY <1>5 DEF Learn
  <2>3. Progress'
    BY <1>0, <1>1, <2>1, <2>2, SMTT(60) DEF Progress, Log
  <2> QED BY <1>0, <1>2, <2>1, <2>3 DEF Order, Log
<1>6. CASE Deliver(s)
  <2>1. UNCHANGED <<proposed, chosen, size, commit>> /\ sent' = [sent EXCEPT ![s] = @ + 1]
        /\ sent[s] < commit[s]
    BY <1>6 DEF Deliver, raft, Busy
  <2>3. Progress'
    BY <1>0, <1>1, <2>1, SMTT(60) DEF Progress
  <2> QED BY <1>0, <1>2, <2>1, <2>3 DEF Order, Log
<1> QED BY <1>3, <1>4, <1>5, <1>6

\* applyOpsLoop.
LEMMA OrderLoop ==
  ASSUME Order, NEW s \in Server, Loop(s)
  PROVE  Order'
<1>0. Clerks /\ Log /\ Progress
  BY DEF Order
<1>1. UNCHANGED <<ck, proposed, chosen, size, commit, sent>>
  BY DEF Loop, TakeMessage, AskRole, GiveLock, ReceiveLock, LoseReceiveLock, raft, feed
<1>2. Clerks' /\ Log'
  BY <1>0, <1>1 DEF Clerks, Log
<1>3. CASE TakeMessage(s)
  <2>1. taken[s] < sent[s] /\ taken' = [taken EXCEPT ![s] = @ + 1]
    BY <1>3 DEF TakeMessage
  <2>2. \/ results' = results
        \/ \E X \in SUBSET {taken[s] + 1} : results' = [results EXCEPT ![s] = @ \cup X]
    BY <1>3 DEF TakeMessage, PutResult
  <2>3. /\ taken' \in [Server -> Nat] /\ taken'[s] = taken[s] + 1
        /\ \A t \in Server : taken[t] <= taken'[t] /\ taken'[t] <= sent[t]
    BY <1>0, <2>1, SMTT(60) DEF Progress
  <2>4. /\ results' \in [Server -> SUBSET Nat]
        /\ \A t \in Server : \A i \in results'[t] : i \in results[t] \/ (t = s /\ i = taken[s] + 1)
    <3>1. taken[s] \in Nat /\ results \in [Server -> SUBSET Nat]
      BY <1>0 DEF Progress
    <3>2. ASSUME NEW X \in SUBSET {taken[s] + 1}, results' = [results EXCEPT ![s] = @ \cup X]
          PROVE  <2>4!:
      <4>1. taken[s] + 1 \in Nat
        BY <3>1, SMTT(60)
      <4> DEFINE n == taken[s] + 1
      <4>2. X \in SUBSET {n} /\ n \in Nat
        BY <4>1
      <4>3. /\ results' \in [Server -> SUBSET Nat]
            /\ \A t \in Server : \A i \in results'[t] : i \in results[t] \/ (t = s /\ i = n)
        <5> HIDE DEF n
        <5> QED BY <3>1, <3>2, <4>2
      <4> QED BY <4>3
    <3> QED BY <2>2, <3>1, <3>2
  <2>5. \A t \in Server : \A i \in results'[t] : 0 < i /\ i <= taken'[t]
    BY <1>0, <2>3, <2>4, SMTT(60) DEF Progress
  <2>6. \E p \in {"wait", "event"} : stage' = [stage EXCEPT ![s] = p]
    BY <1>3 DEF TakeMessage, PutResult
  <2>7. /\ stage' \in [Server -> {"wait", "event", "give", "call"}]
        /\ \A t \in Server : stage'[t] # "wait" => 0 < taken'[t]
    BY <1>0, <2>1, <2>6, SMTT(60) DEF Progress
  <2>8. Progress'
    BY <1>0, <1>1, <2>3, <2>4, <2>5, <2>7 DEF Progress
  <2> QED BY <1>2, <2>8 DEF Order
<1>4. CASE AskRole(s) \/ GiveLock(s) \/ ReceiveLock(s) \/ LoseReceiveLock(s)
  <2>1. taken' = taken /\ stage[s] # "wait"
    BY <1>4 DEF AskRole, GiveLock, ReceiveLock, LoseReceiveLock
  <2>2. \/ results' = results
        \/ \E X \in SUBSET {taken[s]} : results' = [results EXCEPT ![s] = @ \cup X]
    BY <1>4 DEF AskRole, GiveLock, ReceiveLock, LoseReceiveLock, PutResult
  <2>3. 0 < taken[s]
    BY <1>0, <2>1 DEF Progress
  <2>4. /\ results' \in [Server -> SUBSET Nat]
        /\ \A t \in Server : \A i \in results'[t] : i \in results[t] \/ (t = s /\ i = taken[s])
    <3>1. taken[s] \in Nat /\ results \in [Server -> SUBSET Nat]
      BY <1>0 DEF Progress
    <3>2. ASSUME NEW X \in SUBSET {taken[s]}, results' = [results EXCEPT ![s] = @ \cup X]
          PROVE  <2>4!:
      BY <3>1, <3>2
    <3> QED BY <2>2, <3>1, <3>2
  <2>5. \A t \in Server : \A i \in results'[t] : 0 < i /\ i <= taken'[t]
    BY <1>0, <2>1, <2>3, <2>4, SMTT(60) DEF Progress
  <2>6. \E p \in {"wait", "give", "call"} : stage' = [stage EXCEPT ![s] = p]
    BY <1>4 DEF AskRole, GiveLock, ReceiveLock, LoseReceiveLock, PutResult
  <2>7. /\ stage' \in [Server -> {"wait", "event", "give", "call"}]
        /\ \A t \in Server : stage'[t] # "wait" => 0 < taken'[t]
    BY <1>0, <2>1, <2>3, <2>6 DEF Progress
  <2>8. Progress'
    BY <1>0, <1>1, <2>1, <2>4, <2>5, <2>7 DEF Progress
  <2> QED BY <1>2, <2>8 DEF Order
<1> QED BY <1>3, <1>4 DEF Loop

\* The clerks' calls.
LEMMA OrderCall ==
  ASSUME Order, NEW c \in Clerk, Call(c)
  PROVE  Order'
<1>0. Clerks /\ Log /\ Progress
  BY DEF Order
<1>1. UNCHANGED <<proposed, chosen, size, commit, sent, taken, stage, results>>
  BY DEF Call, raft, feed, apply
<1>2. Log' /\ Progress'
  BY <1>0, <1>1 DEF Log, Progress
<1>3. Clerks'
  <2>1. ck' = [ck EXCEPT ![c] = Sending(ck[c].req + 1)] /\ ck[c].req + 1 <= Len(Script[c])
    BY DEF Call
  <2> QED BY <1>0, <2>1, SMTT(60) DEF Clerks, Sending
<1> QED BY <1>2, <1>3 DEF Order

\* rf.Start appends the operation to the log of the server that leads.
LEMMA OrderStart ==
  ASSUME Order, NEW c \in Clerk, NEW s \in Server, Start(c, s)
  PROVE  Order'
<1>0. Clerks /\ Log /\ Progress
  BY DEF Order
<1>1. UNCHANGED <<chosen, commit, sent, taken, stage, results>>
  BY DEF Start, feed, apply
<1>2. Progress'
  BY <1>0, <1>1 DEF Progress
<1> DEFINE n == IF s = leader THEN Len(proposed) ELSE size[s]
           call == Script[c][ck[c].req]
           op == [clerk |-> c, req |-> ck[c].req, type |-> call.type, key |-> call.key]
           p == IF stage[s] = "wait" THEN "waiting" ELSE "lookup"
<1>3. /\ ck[c].pc = "send" /\ proposed' = IF s = leader THEN Append(proposed, op) ELSE proposed
      /\ ck' = [ck EXCEPT ![c] = [pc |-> p, req |-> ck[c].req, server |-> s, index |-> n + 1]]
  BY DEF Start
<1>4. ck[c].req \in Nat /\ ck[c].req # 0 /\ ck[c].req <= Len(Script[c])
  BY <1>0, <1>3 DEF Clerks
<1>5. op \in Op
  <2>1. call.type \in {"Lock", "Unlock"} /\ call.key \in Key
    BY <1>4, Calls
  <2> HIDE DEF call
  <2> QED BY <1>4, <2>1 DEF Op
<1> HIDE DEF op
<1>6. n \in Nat /\ n + 1 \in Nat
  BY <1>0, SMTT(60) DEF Log
<1>7. Log'
  <2>1. size' = IF s = leader THEN size ELSE [size EXCEPT ![s] = n + 1]
    BY DEF Start
  <2> HIDE DEF n
  <2> QED BY <1>0, <1>1, <1>3, <1>5, <1>6, <2>1, SMTT(60) DEF Log
<1>8. Clerks'
  <2>1. p \in {"lookup", "waiting"}
    OBVIOUS
  <2> HIDE DEF p, n
  <2> QED BY <1>0, <1>3, <1>4, <1>6, <2>1 DEF Clerks
<1> QED BY <1>2, <1>7, <1>8 DEF Order

\* The handlers of Mutex.
LEMMA OrderHandler ==
  ASSUME Order, NEW c \in Clerk, Handler(c)
  PROVE  Order'
<1>0. Clerks /\ Log /\ Progress
  BY DEF Order
<1>1. UNCHANGED <<proposed, chosen, size, commit, sent, taken, stage>>
  BY DEF Handler, LookUp, TakeResult, TimeOut, raft, feed, apply
<1>2. Log'
  BY <1>0, <1>1 DEF Log
<1>3. Progress'
  <2>0. results \in [Server -> SUBSET Nat]
    BY <1>0 DEF Progress
  <2>1. results' \in [Server -> SUBSET Nat] /\ \A t \in Server : results'[t] \subseteq results[t]
    <3>1. CASE LookUp(c)
      BY <2>0, <3>1 DEF LookUp
    <3>2. CASE TakeResult(c)
      BY <2>0, <3>2 DEF TakeResult
    <3>3. CASE TimeOut(c)
      BY <2>0, <3>3 DEF TimeOut
    <3> QED BY <3>1, <3>2, <3>3 DEF Handler
  <2> QED BY <1>0, <1>1, <2>1 DEF Progress
<1>4. Clerks'
  <2>1. CASE LookUp(c)
    BY <1>0, <2>1 DEF Clerks, LookUp
  <2>2. CASE TakeResult(c) \/ TimeOut(c)
    <3>1. /\ ck[c].pc = "waiting"
          /\ \/ ck' = [ck EXCEPT ![c] = Sending(ck[c].req)]
             \/ ck' = [ck EXCEPT ![c] = Idle(ck[c].req)]
      BY <2>2 DEF TakeResult, TimeOut
    <3>2. CASE ck' = [ck EXCEPT ![c] = Sending(ck[c].req)]
      BY <1>0, <3>1, <3>2 DEF Clerks, Sending
    <3>3. CASE ck' = [ck EXCEPT ![c] = Idle(ck[c].req)]
      BY <1>0, <3>1, <3>3 DEF Clerks, Idle
    <3> QED BY <3>1, <3>2, <3>3
  <2> QED BY <2>1, <2>2 DEF Handler
<1> QED BY <1>2, <1>3, <1>4 DEF Order

\* A restarted server has taken nothing; its handlers are gone and their clerks
\* call again.
LEMMA OrderRestart ==
  ASSUME Order, NEW s \in Server, Restart(s)
  PROVE  Order'
<1>0. Clerks /\ Log /\ Progress /\ None \notin Server
  BY LockServerAssumption DEF Order
<1>1. Log'
  BY <1>0 DEF Log, Restart
<1>2. Progress'
  <2>1. /\ UNCHANGED chosen
        /\ commit' = [commit EXCEPT ![s] = 0] /\ sent' = [sent EXCEPT ![s] = 0]
        /\ taken' = [taken EXCEPT ![s] = 0] /\ stage' = [stage EXCEPT ![s] = "wait"]
        /\ results' = [results EXCEPT ![s] = {}]
    BY DEF Restart
  <2> QED BY <1>0, <2>1, SMTT(60) DEF Progress, Log
<1>3. Clerks'
  <2>1. ck' = [c \in Clerk |-> IF ck[c].server = s THEN Sending(ck[c].req) ELSE ck[c]]
    BY DEF Restart
  <2>2. \A c \in Clerk : ck'[c] = ck[c] \/ (ck'[c] = Sending(ck[c].req) /\ ck[c].pc # "idle")
    BY <1>0, <2>1 DEF Clerks
  <2>3. \A c \in Clerk : Sending(ck[c].req) \in [pc : {"idle", "send", "lookup", "waiting"}, req : Nat,
                       server : Server \cup {None}, index : Nat]
    BY <1>0 DEF Clerks, Sending
  <2>4. ck' \in [Clerk -> [pc : {"idle", "send", "lookup", "waiting"}, req : Nat,
                       server : Server \cup {None}, index : Nat]]
    BY <1>0, <2>1, <2>3 DEF Clerks
  <2>5. ASSUME NEW c \in Clerk
        PROVE  /\ ck'[c].req <= Len(Script[c])
               /\ ck'[c].pc # "idle" => ck'[c].req # 0
               /\ ck'[c].pc = "idle" => ck'[c].server = None
               /\ ck'[c].pc \in {"lookup", "waiting"} => ck'[c].server \in Server
    <3>1. CASE ck'[c] = ck[c]
      BY <1>0, <3>1 DEF Clerks
    <3>2. CASE ck'[c] = Sending(ck[c].req) /\ ck[c].pc # "idle"
      BY <1>0, <3>2, SMTT(60) DEF Clerks, Sending
    <3> QED BY <2>2, <3>1, <3>2
  <2> QED BY <2>4, <2>5 DEF Clerks
<1> QED BY <1>1, <1>2, <1>3 DEF Order

\* Every step.
LEMMA OrderStep ==
  ASSUME Order, [Next]_vars
  PROVE  Order'
<1>1. CASE Next
  <2>1. ASSUME NEW s \in Server, Choose \/ Elect(s) \/ StepDown(s) \/ Learn(s) \/ Deliver(s)
        PROVE  Order'
    BY <2>1, OrderRaft
  <2>2. ASSUME NEW s \in Server, Restart(s) \/ Loop(s)
        PROVE  Order'
    BY <2>2, OrderRestart, OrderLoop
  <2>3. ASSUME NEW c \in Clerk, Call(c) \/ Handler(c) \/ \E s \in Server : Start(c, s)
        PROVE  Order'
    BY <2>3, OrderCall, OrderHandler, OrderStart
  <2>4. FirstLeader \in Server
    BY LockServerAssumption
  <2> QED BY <1>1, <2>1, <2>2, <2>3, <2>4 DEF Next
<1>2. CASE UNCHANGED vars
  BY <1>2 DEF Order, Clerks, Log, Progress, vars, raft, feed, apply
<1> QED BY <1>1, <1>2

-----------------------------------------------------------------------------
\* While the first leader serves it alone leads, a channel holds the result of an
\* entry that is finished, and a handler waits for the last entry of its clerk.
Serving ==
  /\ leader = FirstLeader /\ leads = {FirstLeader}
  /\ \A i \in results[FirstLeader] : Finished(FirstLeader, i)

LastEntry(c) ==
  ck[c].pc \in {"lookup", "waiting"} =>
    /\ ck[c].server = FirstLeader
    /\ \A i \in 1 .. Len(proposed) : proposed[i].clerk = c => i <= ck[c].index

\* What CallsFinish says of an entry.
Pending(i) ==
  LET c == proposed[i].clerk
  IN  Finished(FirstLeader, i) \/ (ck[c].pc # "idle" /\ ck[c].req = proposed[i].req)

Steady ==
  /\ elections \in Nat /\ restarts \in Nat
  /\ Settled => /\ Serving /\ \A c \in Clerk : LastEntry(c)
                /\ \A i \in 1 .. Len(proposed) : Pending(i)

\* The start.
LEMMA SteadyInit == Init => Steady
<1> SUFFICES ASSUME Init PROVE Steady OBVIOUS
<1>1. elections \in Nat /\ restarts \in Nat /\ Len(proposed) = 0
  BY SMTT(60) DEF Init
<1>2. 1 .. Len(proposed) = {}
  BY <1>1, SMTT(60)
<1>3. FirstLeader \in Server
  BY LockServerAssumption
<1>4. Serving
  BY <1>3 DEF Init, Serving
<1>5. \A c \in Clerk : LastEntry(c)
  BY DEF Init, LastEntry, Idle
<1> QED BY <1>1, <1>2, <1>4, <1>5 DEF Steady

\* Entries before a finished one are finished.
LEMMA FinishedBefore ==
  ASSUME Order, NEW s \in Server, NEW i \in Nat, NEW j \in Nat, j <= i, Finished(s, i)
  PROVE  Finished(s, j)
<1>1. taken[s] \in Nat
  BY DEF Order, Progress
<1> QED BY <1>1, SMTT(60) DEF Finished

\* Raft: an election ends the time of the first leader.
LEMMA SteadyRaft ==
  ASSUME Order, Steady, NEW s \in Server,
         Choose \/ Elect(s) \/ StepDown(s) \/ Learn(s) \/ Deliver(s)
  PROVE  Steady'
<1>1. UNCHANGED <<restarts, ck, taken, stage, results>>
  BY DEF Choose, Elect, StepDown, Learn, Deliver, raft, apply
<1>2. CASE Elect(s)
  <2>1. elections' \in Nat /\ elections' # 0
    BY <1>2, SMTT(60) DEF Elect, Steady
  <2> QED BY <1>1, <2>1 DEF Steady, Settled
<1>3. CASE StepDown(s) /\ Settled
  BY <1>3 DEF StepDown, Steady, Serving
<1>4. CASE StepDown(s) /\ ~Settled
  BY <1>1, <1>4 DEF StepDown, Steady, Settled
<1>5. CASE Choose \/ Learn(s) \/ Deliver(s)
  <2>1. UNCHANGED <<elections, leader, leads, proposed>>
    BY <1>5 DEF Choose, Learn, Deliver, raft
  <2> QED BY <1>1, <2>1 DEF Steady, Settled, Serving, LastEntry, Pending, Finished
<1> QED BY <1>2, <1>3, <1>4, <1>5

\* applyOpsLoop: what is finished stays so, and a result is put into its channel
\* when the entry is finished.
LEMMA FinishedLoop ==
  ASSUME Order, NEW s \in Server, Loop(s), NEW t \in Server
  PROVE  /\ \A i \in Nat : Finished(t, i) => Finished(t, i)'
         /\ \A i \in results'[t] : i \in results[t] \/ Finished(t, i)'
<1>0. /\ taken \in [Server -> Nat] /\ results \in [Server -> SUBSET Nat]
      /\ stage \in [Server -> {"wait", "event", "give", "call"}]
  BY DEF Order, Progress
<1>1. CASE TakeMessage(s)
  <2>1. /\ stage[s] = "wait" /\ taken' = [taken EXCEPT ![s] = @ + 1]
        /\ \/ results' = results /\ stage' = [stage EXCEPT ![s] = "event"]
           \/ PutResult(s, taken[s] + 1)
    BY <1>1 DEF TakeMessage
  <2>2. \A i \in Nat : Finished(t, i) => Finished(t, i)'
    <3>1. taken'[t] = IF t = s THEN taken[t] + 1 ELSE taken[t]
      BY <1>0, <2>1
    <3>2. t # s => stage'[t] = stage[t]
      BY <1>0, <2>1 DEF PutResult
    <3> QED BY <1>0, <3>1, <3>2, SMTT(60) DEF Finished
  <2>3. CASE PutResult(s, taken[s] + 1)
    <3>1. taken'[s] = taken[s] + 1 /\ stage'[s] = "wait"
      BY <1>0, <2>1, <2>3 DEF PutResult
    <3>2. \A i : i = taken[s] + 1 => Finished(s, i)'
      BY <3>1 DEF Finished
    <3>3. \A i \in results'[t] : i \in results[t] \/ (t = s /\ i = taken[s] + 1)
      BY <1>0, <2>3 DEF PutResult
    <3> QED BY <2>2, <3>2, <3>3
  <2> QED BY <2>1, <2>2, <2>3
<1>2. CASE AskRole(s) \/ GiveLock(s) \/ ReceiveLock(s) \/ LoseReceiveLock(s)
  <2>1. /\ stage[s] # "wait" /\ taken' = taken
        /\ \/ results' = results /\ \E p \in {"give", "call"} : stage' = [stage EXCEPT ![s] = p]
           \/ PutResult(s, taken[s])
    BY <1>2 DEF AskRole, GiveLock, ReceiveLock, LoseReceiveLock
  <2>2. \A i \in Nat : Finished(t, i) => Finished(t, i)'
    <3>1. t # s => stage'[t] = stage[t]
      BY <1>0, <2>1 DEF PutResult
    <3> QED BY <2>1, <3>1 DEF Finished
  <2>3. CASE PutResult(s, taken[s])
    <3>1. taken'[s] = taken[s] /\ stage'[s] = "wait"
      BY <1>0, <2>1, <2>3 DEF PutResult
    <3>2. \A i : i = taken[s] => Finished(s, i)'
      BY <3>1 DEF Finished
    <3>3. \A i \in results'[t] : i \in results[t] \/ (t = s /\ i = taken[s])
      BY <1>0, <2>3 DEF PutResult
    <3> QED BY <2>2, <3>2, <3>3
  <2> QED BY <2>1, <2>2, <2>3
<1> QED BY <1>1, <1>2 DEF Loop

LEMMA SteadyLoop ==
  ASSUME Order, Steady, NEW s \in Server, Loop(s)
  PROVE  Steady'
<1>1. UNCHANGED <<elections, restarts, leader, leads, proposed, ck>>
  BY DEF Loop, TakeMessage, AskRole, GiveLock, ReceiveLock, LoseReceiveLock, raft
<1>2. FirstLeader \in Server
  BY LockServerAssumption
<1>3. /\ \A i \in Nat : Finished(FirstLeader, i) => Finished(FirstLeader, i)'
      /\ \A i \in results'[FirstLeader] : i \in results[FirstLeader] \/ Finished(FirstLeader, i)'
  BY <1>2, FinishedLoop
<1>4. results[FirstLeader] \subseteq Nat /\ 1 .. Len(proposed) \subseteq Nat
  <2>1. results[FirstLeader] \subseteq Nat
    BY <1>2 DEF Order, Progress
  <2> QED BY <2>1, SMTT(60)
<1>5. Serving => Serving'
  BY <1>1, <1>3, <1>4 DEF Serving
<1>6. \A c \in Clerk : LastEntry(c) => LastEntry(c)'
  BY <1>1 DEF LastEntry
<1>7. \A i \in 1 .. Len(proposed) : Pending(i) => Pending(i)'
  BY <1>1, <1>3, <1>4 DEF Pending
<1> QED BY <1>1, <1>5, <1>6, <1>7 DEF Steady, Settled

\* An entry is of a clerk.
LEMMA EntryClerk ==
  ASSUME Order, NEW i \in 1 .. Len(proposed)
  PROVE  proposed[i].clerk \in Clerk
<1>1. proposed[i] \in Op
  BY SMTT(60) DEF Order, Log
<1> QED BY <1>1 DEF Op

\* A clerk calls only when the entries of its calls are finished.
LEMMA SteadyCall ==
  ASSUME Order, Steady, NEW c \in Clerk, Call(c)
  PROVE  Steady'
<1>1. /\ UNCHANGED <<elections, restarts, leader, leads, proposed, taken, stage, results>>
      /\ ck[c].pc = "idle" /\ ck' = [ck EXCEPT ![c] = Sending(ck[c].req + 1)]
  BY DEF Call, raft, apply
<1>2. ck'[c].pc = "send" /\ \A d \in Clerk : d # c => ck'[d] = ck[d]
  BY <1>1 DEF Order, Clerks, Sending
<1>3. Serving => Serving'
  BY <1>1 DEF Serving, Finished
<1>4. \A d \in Clerk : LastEntry(d) => LastEntry(d)'
  BY <1>1, <1>2 DEF LastEntry
<1>5. \A i \in 1 .. Len(proposed) : proposed[i].clerk \in Clerk
  BY EntryClerk
<1>6. \A i \in 1 .. Len(proposed) : Pending(i) => Pending(i)'
  BY <1>1, <1>2, <1>5 DEF Pending, Finished
<1> QED BY <1>1, <1>3, <1>4, <1>6 DEF Steady, Settled

\* The first leader appends the operation; the handler waits for its entry.
LEMMA SteadyStart ==
  ASSUME Order, Steady, NEW c \in Clerk, NEW s \in Server, Start(c, s)
  PROVE  Steady'
<1>1. UNCHANGED <<elections, restarts, leader, leads, taken, stage, results>>
  BY DEF Start, apply
<1>2. CASE ~Settled
  BY <1>1, <1>2 DEF Steady, Settled
<1>3. CASE Settled
  <2> DEFINE call == Script[c][ck[c].req]
             op == [clerk |-> c, req |-> ck[c].req, type |-> call.type, key |-> call.key]
             p == IF stage[s] = "wait" THEN "waiting" ELSE "lookup"
             n == Len(proposed)
  <2>1. s = FirstLeader /\ s = leader
    BY <1>3 DEF Steady, Serving, Start
  <2>2. /\ proposed' = Append(proposed, op)
        /\ ck' = [ck EXCEPT ![c] = [pc |-> p, req |-> ck[c].req, server |-> s, index |-> n + 1]]
    BY <2>1 DEF Start
  <2>3. /\ ck'[c].pc # "idle" /\ ck'[c].req = ck[c].req /\ ck'[c].server = FirstLeader
        /\ ck'[c].index = n + 1 /\ \A d \in Clerk : d # c => ck'[d] = ck[d]
    <3>1. p # "idle"
      OBVIOUS
    <3> HIDE DEF p, n
    <3> QED BY <2>1, <2>2, <3>1 DEF Order, Clerks
  <2>4. op.clerk = c /\ op.req = ck[c].req
    OBVIOUS
  <2> HIDE DEF op, p
  <2>5. /\ 1 .. Len(proposed') = 1 .. n \cup {n + 1} /\ proposed'[n + 1] = op
        /\ \A i \in 1 .. n : proposed'[i] = proposed[i]
        /\ \A i \in 1 .. Len(proposed') : i <= n + 1
    BY <2>2, SMTT(60) DEF Order, Log
  <2>6. Serving'
    BY <1>1, <1>3 DEF Steady, Serving, Finished
  <2> HIDE DEF n
  <2>7. ASSUME NEW d \in Clerk PROVE LastEntry(d)'
    <3>1. CASE d = c
      BY <2>3, <2>5, <3>1 DEF LastEntry
    <3>2. CASE d # c
      <4>1. LastEntry(d)
        BY <1>3 DEF Steady
      <4>2. \A i \in 1 .. Len(proposed') :
              proposed'[i].clerk = d => i \in 1 .. n /\ proposed[i].clerk = d
        BY <2>4, <2>5, <3>2
      <4> QED BY <2>3, <3>2, <4>1, <4>2 DEF LastEntry, n
    <3> QED BY <3>1, <3>2
  <2>8. ASSUME NEW i \in 1 .. Len(proposed') PROVE Pending(i)'
    <3>1. CASE i \in 1 .. n
      <4>1. Pending(i) /\ proposed[i].clerk \in Clerk
        BY <1>3, <3>1, EntryClerk DEF Steady, n
      <4>2. proposed'[i] = proposed[i]
        BY <2>5, <3>1
      <4> QED BY <1>1, <2>3, <4>1, <4>2 DEF Pending, Finished
    <3>2. CASE i = n + 1
      <4>1. proposed'[i] = op
        BY <2>5, <3>2
      <4> QED BY <2>3, <2>4, <4>1 DEF Pending
    <3> QED BY <2>5, <3>1, <3>2
  <2> QED BY <1>1, <2>6, <2>7, <2>8 DEF Steady
<1> QED BY <1>2, <1>3

\* The handlers of Mutex: a clerk that is answered had its last entry finished, and
\* one that is not calls again.
LEMMA SteadyHandler ==
  ASSUME Order, Steady, NEW c \in Clerk, Handler(c)
  PROVE  Steady'
<1>1. UNCHANGED <<elections, restarts, leader, leads, proposed, taken, stage>>
  BY DEF Handler, LookUp, TakeResult, TimeOut, raft, apply
<1>2. CASE ~Settled
  BY <1>1, <1>2 DEF Steady, Settled
<1>3. CASE Settled
  <2>0. /\ FirstLeader \in Server /\ results \in [Server -> SUBSET Nat]
        /\ 1 .. Len(proposed) \subseteq Nat
    <3>1. 1 .. Len(proposed) \subseteq Nat
      BY SMTT(60)
    <3> QED BY <3>1, LockServerAssumption DEF Order, Progress
  <2>1. \A i \in Nat : Finished(FirstLeader, i)' <=> Finished(FirstLeader, i)
    BY <1>1 DEF Finished
  <2>2. results'[FirstLeader] \subseteq results[FirstLeader]
    BY <2>0 DEF Handler, LookUp, TakeResult, TimeOut
  <2>3. Serving'
    BY <1>1, <1>3, <2>0, <2>1, <2>2 DEF Steady, Serving
  <2>4. /\ \A d \in Clerk : d # c => ck'[d] = ck[d]
        /\ ck'[c].req = ck[c].req
        /\ \/ /\ ck'[c].pc = "waiting" /\ ck[c].pc = "lookup"
              /\ ck'[c].server = ck[c].server /\ ck'[c].index = ck[c].index
           \/ ck'[c].pc = "send"
           \/ ck'[c].pc = "idle" /\ ck[c].pc = "waiting" /\ ck[c].index \in results[ck[c].server]
    <3>1. CASE LookUp(c)
      BY <3>1 DEF LookUp, Order, Clerks
    <3>2. CASE TakeResult(c)
      <4>1. /\ ck[c].pc = "waiting" /\ ck[c].index \in results[ck[c].server]
            /\ \/ ck' = [ck EXCEPT ![c] = Sending(ck[c].req)]
               \/ ck' = [ck EXCEPT ![c] = Idle(ck[c].req)]
        BY <3>2 DEF TakeResult
      <4>2. CASE ck' = [ck EXCEPT ![c] = Sending(ck[c].req)]
        BY <4>2 DEF Order, Clerks, Sending
      <4>3. CASE ck' = [ck EXCEPT ![c] = Idle(ck[c].req)]
        BY <4>1, <4>3 DEF Order, Clerks, Idle
      <4> QED BY <4>1, <4>2, <4>3
    <3>3. CASE TimeOut(c)
      BY <3>3 DEF TimeOut, Order, Clerks, Sending
    <3> QED BY <3>1, <3>2, <3>3 DEF Handler
  <2>5. ASSUME NEW d \in Clerk PROVE LastEntry(d)'
    <3>1. LastEntry(d)
      BY <1>3 DEF Steady
    <3> QED BY <1>1, <2>4, <3>1 DEF LastEntry
  <2>6. ASSUME NEW i \in 1 .. Len(proposed), proposed[i].clerk = c, ck'[c].pc = "idle"
        PROVE  Finished(FirstLeader, i)
    <3>1. ck[c].pc = "waiting" /\ ck[c].index \in results[ck[c].server]
      BY <2>4, <2>6
    <3>2. ck[c].server = FirstLeader /\ i <= ck[c].index
      BY <1>3, <2>6, <3>1 DEF Steady, LastEntry
    <3>3. ck[c].index \in Nat /\ Finished(FirstLeader, ck[c].index)
      BY <1>3, <2>0, <3>1, <3>2 DEF Steady, Serving
    <3> QED BY <2>0, <3>2, <3>3, FinishedBefore
  <2>7. ASSUME NEW i \in 1 .. Len(proposed) PROVE Pending(i)'
    <3>1. Pending(i) /\ proposed[i].clerk \in Clerk /\ i \in Nat
      BY <1>3, <2>0, EntryClerk DEF Steady
    <3>2. CASE proposed[i].clerk = c /\ ck'[c].pc = "idle"
      BY <1>1, <2>1, <2>6, <3>1, <3>2 DEF Pending
    <3>3. CASE proposed[i].clerk = c /\ ck'[c].pc # "idle"
      BY <1>1, <2>1, <2>4, <3>1, <3>3 DEF Pending
    <3>4. CASE proposed[i].clerk # c
      BY <1>1, <2>1, <2>4, <3>1, <3>4 DEF Pending
    <3> QED BY <3>2, <3>3, <3>4
  <2> QED BY <1>1, <2>3, <2>5, <2>7 DEF Steady
<1> QED BY <1>2, <1>3

\* Every step; a restart ends the time of the first leader too.
LEMMA SteadyStep ==
  ASSUME Order, Steady, [Next]_vars
  PROVE  Steady'
<1>1. CASE Next
  <2>1. ASSUME NEW s \in Server, Choose \/ Elect(s) \/ StepDown(s) \/ Learn(s) \/ Deliver(s)
        PROVE  Steady'
    BY <2>1, SteadyRaft
  <2>2. ASSUME NEW s \in Server, Restart(s)
        PROVE  Steady'
    <3>1. restarts' \in Nat /\ restarts' # 0 /\ elections' = elections
      BY <2>2, SMTT(60) DEF Restart, Steady
    <3> QED BY <3>1 DEF Steady, Settled
  <2>3. ASSUME NEW s \in Server, Loop(s)
        PROVE  Steady'
    BY <2>3, SteadyLoop
  <2>4. ASSUME NEW c \in Clerk, Call(c) \/ Handler(c) \/ \E s \in Server : Start(c, s)
        PROVE  Steady'
    BY <2>4, SteadyCall, SteadyHandler, SteadyStart
  <2>5. FirstLeader \in Server
    BY LockServerAssumption
  <2> QED BY <1>1, <2>1, <2>2, <2>3, <2>4, <2>5 DEF Next
<1>2. CASE UNCHANGED vars
  <2>1. UNCHANGED <<elections, restarts, leader, leads, proposed, taken, stage, results, ck>>
    BY <1>2 DEF vars, raft, apply
  <2> QED BY <2>1 DEF Steady, Settled, Serving, LastEntry, Pending, Finished
<1> QED BY <1>1, <1>2

\* Mutex answers a clerk no earlier than the leader has applied all entries of its
\* call: a handler that finds its operation applied waited for the last of them,
\* and those of calls sent again come before it.
THEOREM CallsAreFinished == Spec => []CallsFinish
<1>1. Steady => CallsFinish
  BY DEF Steady, Pending, CallsFinish
<1> QED BY <1>1, OrderInit, OrderStep, SteadyInit, SteadyStep, PTL DEF Spec

-----------------------------------------------------------------------------
\* A sequence made one longer.
LEMMA Longer ==
  ASSUME NEW q, NEW x, q \in Seq({q[i] : i \in DOMAIN q})
  PROVE  LET r == Append(q, x) IN
         /\ r \in Seq({r[i] : i \in DOMAIN r}) /\ Len(r) = Len(q) + 1 /\ Len(q) \in Nat
         /\ \A i \in 1 .. Len(q) : r[i] = q[i]
         /\ r[Len(q) + 1] = x
<1> DEFINE S == {q[i] : i \in DOMAIN q}
           T == S \cup {x}
           r == Append(q, x)
<1>1. q \in Seq(S)
  OBVIOUS
<1>2. q \in Seq(T) /\ x \in T
  <2> HIDE DEF S
  <2> QED BY <1>1, SMTT(60)
<1>3. /\ r \in Seq(T) /\ Len(r) = Len(q) + 1 /\ Len(q) \in Nat
      /\ \A i \in 1 .. Len(q) : r[i] = q[i]
      /\ r[Len(q) + 1] = x
  <2> HIDE DEF T
  <2> QED BY <1>2, SMTT(60)
<1>4. r \in Seq({r[i] : i \in DOMAIN r})
  <2> HIDE DEF T, r
  <2> QED BY <1>3, SMTT(60)
<1> QED BY <1>3, <1>4

\* No step changes a chosen entry.
LEMMA ChosenStays ==
  ASSUME Order, Next, NEW i \in 1 .. chosen
  PROVE  proposed'[i] = proposed[i]
<1>1. proposed \in Seq(Op) /\ chosen \in Nat /\ chosen <= Len(proposed)
  BY DEF Order, Log
<1>2. CASE UNCHANGED proposed
  BY <1>2
<1>3. ASSUME NEW s \in Server, Elect(s) PROVE proposed'[i] = proposed[i]
  <2>1. PICK n \in chosen .. Len(proposed) : proposed' = SubSeq(proposed, 1, n)
    BY <1>3 DEF Elect
  <2> QED BY <1>1, <2>1, SMTT(60)
<1>4. ASSUME NEW c \in Clerk, NEW s \in Server, Start(c, s) PROVE proposed'[i] = proposed[i]
  <2>1. PICK op : proposed' = Append(proposed, op) \/ proposed' = proposed
    BY <1>4 DEF Start
  <2> QED BY <1>1, <2>1, SMTT(60)
<1> QED
  BY <1>2, <1>3, <1>4 DEF Next, Choose, StepDown, Learn, Deliver, Restart, Loop, TakeMessage,
     AskRole, GiveLock, ReceiveLock, LoseReceiveLock, Call, Handler, LookUp, TakeResult,
     TimeOut, raft

\* The history grows by what a chosen entry does; a replica that takes an entry
\* moves on to the next point of it, and a restarted one goes back to the first.
LEMMA HistoryStep ==
  ASSUME Order, History, Next
  PROVE  History'
<1>0. /\ proposed \in Seq(Op) /\ chosen \in Nat /\ chosen <= Len(proposed)
      /\ taken \in [Server -> Nat] /\ \A s \in Server : taken[s] <= chosen
  BY SMTT(60) DEF Order, Log, Progress
<1>1. \A i \in 1 .. chosen : proposed'[i] = proposed[i]
  BY ChosenStays
<1>2. ASSUME UNCHANGED <<chosen, agreed>>, machine' = [s \in Server |-> agreed'[taken'[s] + 1]]
      PROVE  History'
  <2>1. \A i \in 1 .. chosen' : agreed'[i + 1] = Applied(agreed'[i], proposed'[i])
    BY <1>1, <1>2 DEF History
  <2> QED BY <1>2, <2>1 DEF History
<1>3. ASSUME UNCHANGED <<chosen, agreed, taken, machine>> PROVE History'
  BY <1>2, <1>3 DEF History
<1>4. CASE Choose
  <2> DEFINE op == proposed[chosen + 1]
             m == agreed[chosen + 1]
  <2>1. /\ chosen < Len(proposed) /\ chosen' = chosen + 1
        /\ agreed' = Append(agreed, Applied(m, op)) /\ UNCHANGED <<proposed, taken, machine>>
    BY <1>4 DEF Choose, apply
  <2>2. op \in Op
    BY <1>0, <2>1, SMTT(60)
  <2>3. /\ agreed' \in Seq({agreed'[i] : i \in DOMAIN agreed'}) /\ Len(agreed') = chosen' + 1
        /\ \A i \in 1 .. chosen + 1 : agreed'[i] = agreed[i]
        /\ agreed'[chosen' + 1] = Applied(m, op)
    <3> DEFINE x == Applied(m, op)
    <3>1. agreed \in Seq({agreed[i] : i \in DOMAIN agreed}) /\ Len(agreed) = chosen + 1
      BY DEF History
    <3>2. agreed' = Append(agreed, x)
      BY <2>1
    <3> HIDE DEF x
    <3>3. /\ agreed' \in Seq({agreed'[i] : i \in DOMAIN agreed'}) /\ Len(agreed') = Len(agreed) + 1
          /\ \A i \in 1 .. Len(agreed) : agreed'[i] = agreed[i]
          /\ agreed'[Len(agreed) + 1] = x
      BY <3>1, <3>2, Longer, SMTT(60)
    <3>4. chosen' + 1 = Len(agreed) + 1
      BY <2>1, <3>1
    <3> QED BY <3>1, <3>3, <3>4 DEF x
  <2>4. Applied(m, op).last \in [Clerk -> Nat]
    <3>1. m.last \in [Clerk -> Nat]
      BY DEF History
    <3> HIDE DEF m, op
    <3> QED BY <2>2, <3>1 DEF Applied, Op
  <2>5. ASSUME NEW i \in 1 .. chosen'
        PROVE  agreed'[i + 1] = Applied(agreed'[i], proposed'[i])
    <3>1. CASE i \in 1 .. chosen
      <4>1. i \in 1 .. chosen + 1 /\ i + 1 \in 1 .. chosen + 1
        BY <1>0, <3>1, SMTT(60)
      <4>2. agreed'[i + 1] = agreed[i + 1] /\ agreed'[i] = agreed[i] /\ proposed' = proposed
        BY <2>1, <2>3, <4>1
      <4> QED BY <3>1, <4>2 DEF History
    <3>2. CASE i = chosen + 1
      <4>1. chosen + 1 \in 1 .. chosen + 1 /\ i + 1 = chosen' + 1
        BY <1>0, <2>1, <3>2
      <4>2. agreed'[i + 1] = Applied(m, op)
        BY <2>3, <4>1
      <4>3. agreed'[i] = m /\ proposed'[i] = op
        BY <2>1, <2>3, <3>2, <4>1
      <4> QED BY <4>2, <4>3
    <3>3. i \in 1 .. chosen \/ i = chosen + 1
      BY <1>0, <2>1, SMTT(60)
    <3> QED BY <3>1, <3>2, <3>3
  <2>6. agreed'[1] = EmptyMachine
    BY <1>0, <2>3, SMTT(60) DEF History
  <2>7. machine' = [s \in Server |-> agreed'[taken'[s] + 1]]
    <3>1. \A s \in Server : agreed'[taken[s] + 1] = agreed[taken[s] + 1]
      BY <1>0, <2>3, SMTT(60)
    <3> QED BY <2>1, <3>1 DEF History
  <2> QED BY <2>3, <2>4, <2>5, <2>6, <2>7 DEF History
<1>5. ASSUME NEW s \in Server, TakeMessage(s) PROVE History'
  <2>1. /\ taken[s] < sent[s] /\ UNCHANGED <<chosen, agreed>>
        /\ machine' = [machine EXCEPT ![s] = Applied(@, proposed[taken[s] + 1])]
        /\ taken' = [taken EXCEPT ![s] = @ + 1]
    BY <1>5 DEF TakeMessage, raft
  <2>2. taken[s] + 1 \in 1 .. chosen
    BY <1>0, <2>1, SMTT(60) DEF Order, Progress
  <2>3. agreed[taken[s] + 1 + 1] = Applied(agreed[taken[s] + 1], proposed[taken[s] + 1])
    BY <2>2 DEF History
  <2>4. machine' = [t \in Server |-> agreed[taken'[t] + 1]]
    <3> DEFINE x == agreed[taken[s] + 1 + 1]
    <3>1. machine' = [machine EXCEPT ![s] = x]
      BY <2>1, <2>3 DEF History
    <3>2. agreed[taken'[s] + 1] = x /\ \A t \in Server \ {s} : taken'[t] = taken[t]
      BY <1>0, <2>1
    <3> HIDE DEF x
    <3> QED BY <3>1, <3>2 DEF History
  <2> QED BY <1>2, <2>1, <2>4
<1>6. ASSUME NEW s \in Server, Restart(s) PROVE History'
  <2>1. /\ UNCHANGED <<chosen, agreed>> /\ machine' = [machine EXCEPT ![s] = EmptyMachine]
        /\ taken' = [taken EXCEPT ![s] = 0]
    BY <1>6 DEF Restart, Rebuilt
  <2>2. machine' = [t \in Server |-> agreed[taken'[t] + 1]]
    <3>1. EmptyMachine = agreed[1] /\ machine = [t \in Server |-> agreed[taken[t] + 1]]
      BY DEF History
    <3>2. agreed[taken'[s] + 1] = agreed[1] /\ \A t \in Server \ {s} : taken'[t] = taken[t]
      BY <1>0, <2>1, SMTT(60)
    <3> QED BY <2>1, <3>1, <3>2
  <2> QED BY <1>2, <2>1, <2>2
<1> QED
  BY <1>3, <1>4, <1>5, <1>6 DEF Next, Elect, StepDown, Learn, Deliver, Loop, AskRole, GiveLock,
     ReceiveLock, LoseReceiveLock, Call, Start, Handler, LookUp, TakeResult, TimeOut, raft, apply

\* The start: the history is the empty machine alone.
LEMMA HistoryInit == Init => History
<1> SUFFICES ASSUME Init PROVE History OBVIOUS
<1>1. /\ agreed = <<EmptyMachine>> /\ chosen = 0 /\ taken = [s \in Server |-> 0]
      /\ machine = [s \in Server |-> EmptyMachine]
  BY DEF Init
<1>2. EmptyMachine.last \in [Clerk -> Nat]
  BY DEF EmptyMachine
<1>3. agreed \in Seq({agreed[i] : i \in DOMAIN agreed}) /\ Len(agreed) = 1 /\ agreed[1] = EmptyMachine
  BY <1>1, SMTT(60)
<1>4. machine = [s \in Server |-> agreed[taken[s] + 1]]
  BY <1>1, <1>3, SMTT(60)
<1> QED BY <1>1, <1>2, <1>3, <1>4, SMTT(60) DEF History

\* Steps and stutters keep the history.
LEMMA HistoryNext == Order /\ History /\ [Next]_vars => History'
<1>1. ASSUME History, UNCHANGED vars PROVE History'
  BY <1>1 DEF History, vars, raft, apply
<1> QED BY <1>1, HistoryStep

\* Replicas that have applied equally many entries hold the same store, for any
\* number of servers, restarts and retries.
THEOREM StoresAlwaysAgree == Spec => []StoresAgree
<1>1. History => StoresAgree
  BY DEF History, StoresAgree
<1> QED BY <1>1, OrderInit, OrderStep, HistoryInit, HistoryNext, PTL DEF Spec

-----------------------------------------------------------------------------
\* The types that the arithmetic below needs.
LEMMA Numbers ==
  ASSUME Order, History
  PROVE  /\ proposed \in Seq(Op) /\ chosen \in Nat /\ chosen <= Len(proposed)
         /\ \A i \in 1 .. Len(proposed) : proposed[i].clerk \in Clerk /\ proposed[i].req \in Nat
         /\ \A c \in Clerk : ck[c].req \in Nat /\ agreed[chosen + 1].last[c] \in Nat
<1>1. proposed \in Seq(Op) /\ chosen \in Nat /\ chosen <= Len(proposed)
  BY DEF Order, Log
<1>2. ASSUME NEW i \in 1 .. Len(proposed)
      PROVE  proposed[i].clerk \in Clerk /\ proposed[i].req \in Nat
  <2>1. proposed[i] \in Op
    BY <1>1, SMTT(60)
  <2> QED BY <2>1 DEF Op
<1>3. \A c \in Clerk : ck[c].req \in Nat
  BY DEF Order, Clerks
<1>4. \A c \in Clerk : agreed[chosen + 1].last[c] \in Nat
  BY DEF History
<1> QED BY <1>1, <1>2, <1>3, <1>4

\* A step that chooses and proposes nothing.
LEMMA EffectsFrame ==
  ASSUME Order, History, Effects, UNCHANGED <<chosen, agreed>>,
         \A i \in 1 .. Len(proposed') : i \in 1 .. Len(proposed) /\ proposed'[i] = proposed[i],
         \A c \in Clerk :
           /\ ck'[c].req \in Nat /\ ck[c].req <= ck'[c].req
           /\ ck'[c].req <= agreed[chosen + 1].last[c] + 1
           /\ ck'[c].pc = "idle" => agreed[chosen + 1].last[c] = ck'[c].req
  PROVE  Effects'
<1>1. ASSUME NEW i \in 1 .. Len(proposed')
      PROVE  LET c == proposed[i].clerk
                 n == proposed[i].req
             IN /\ n <= ck'[c].req
                /\ proposed[i].type = Script[c][n].type /\ proposed[i].key = Script[c][n].key
                /\ i <= chosen => n <= agreed[chosen + 1].last[c]
  <2> DEFINE c == proposed[i].clerk
             n == proposed[i].req
  <2>1. i \in 1 .. Len(proposed)
    OBVIOUS
  <2>2. c \in Clerk /\ n \in Nat /\ ck[c].req \in Nat
    BY <2>1, Numbers
  <2>3. /\ n <= ck[c].req
        /\ proposed[i].type = Script[c][n].type /\ proposed[i].key = Script[c][n].key
        /\ i <= chosen => n <= agreed[chosen + 1].last[c]
    BY <2>1 DEF Effects
  <2> HIDE DEF c, n
  <2>4. n <= ck'[c].req
    BY <2>2, <2>3, SMTT(60)
  <2> QED BY <2>3, <2>4 DEF c, n
<1>2. ASSUME NEW c \in Clerk
      PROVE  agreed[chosen + 1].last[c] <= ck'[c].req
  <2>1. agreed[chosen + 1].last[c] <= ck[c].req
    BY DEF Effects
  <2> QED BY <2>1, Numbers, SMTT(60)
<1>3. ASSUME NEW i \in 1 .. Len(proposed')
      PROVE  LET c == proposed'[i].clerk
                 n == proposed'[i].req
             IN /\ n <= ck'[c].req
                /\ proposed'[i].type = Script[c][n].type /\ proposed'[i].key = Script[c][n].key
                /\ i <= chosen' => n <= agreed'[chosen' + 1].last[c]
  <2>1. proposed'[i] = proposed[i] /\ chosen' = chosen /\ agreed' = agreed
    OBVIOUS
  <2> QED BY <1>1, <2>1
<1> QED BY <1>2, <1>3 DEF Effects

\* No request number changes and no clerk becomes idle.
LEMMA EffectsCk ==
  ASSUME Order, History, Effects,
         \A c \in Clerk : ck'[c].req = ck[c].req /\ (ck'[c].pc = "idle" => ck[c].pc = "idle")
  PROVE  \A c \in Clerk :
           /\ ck'[c].req \in Nat /\ ck[c].req <= ck'[c].req
           /\ ck'[c].req <= agreed[chosen + 1].last[c] + 1
           /\ ck'[c].pc = "idle" => agreed[chosen + 1].last[c] = ck'[c].req
<1> SUFFICES ASSUME NEW c \in Clerk
             PROVE  /\ ck'[c].req \in Nat /\ ck[c].req <= ck'[c].req
                    /\ ck'[c].req <= agreed[chosen + 1].last[c] + 1
                    /\ ck'[c].pc = "idle" => agreed[chosen + 1].last[c] = ck'[c].req
  OBVIOUS
<1>1. ck[c].req \in Nat
  BY Numbers
<1>2. ck[c].req <= agreed[chosen + 1].last[c] + 1
  BY DEF Effects
<1>3. ck[c].pc = "idle" => agreed[chosen + 1].last[c] = ck[c].req
  BY DEF Effects
<1> QED BY <1>1, <1>2, <1>3, SMTT(60)

\* What a chosen entry does to the numbers of the requests applied last.
LEMMA ChosenLast ==
  ASSUME Order, History, Effects, Choose
  PROVE  LET m == agreed[chosen + 1]
             op == proposed[chosen + 1]
             x == Applied(m, op)
         IN /\ chosen + 1 \in 1 .. Len(proposed) /\ chosen' = chosen + 1 /\ op \in Op
            /\ agreed'[chosen' + 1] = x /\ UNCHANGED <<proposed, ck>>
            /\ op.req <= x.last[op.clerk]
            /\ \A d \in Clerk : /\ x.last[d] \in Nat /\ m.last[d] <= x.last[d]
                                /\ x.last[d] <= ck[d].req
            /\ Fresh(m, op) => op.req = ck[op.clerk].req /\ op.req = m.last[op.clerk] + 1
<1> DEFINE m == agreed[chosen + 1]
           op == proposed[chosen + 1]
           x == Applied(m, op)
<1>1. /\ chosen < Len(proposed) /\ chosen' = chosen + 1 /\ UNCHANGED <<proposed, ck>>
      /\ agreed' = Append(agreed, x)
  BY DEF Choose
<1>2. chosen + 1 \in 1 .. Len(proposed) /\ op \in Op
  BY <1>1, Numbers, SMTT(60)
<1>3. agreed'[chosen' + 1] = x
  <2> HIDE DEF x
  <2>1. agreed \in Seq({agreed[i] : i \in DOMAIN agreed}) /\ Len(agreed) = chosen + 1
    BY DEF History
  <2>2. agreed'[Len(agreed) + 1] = x
    BY <1>1, <2>1, Longer
  <2> QED BY <1>1, <2>1, <2>2
<1>4. m.last \in [Clerk -> Nat]
  BY DEF History
<1>5. op.clerk \in Clerk /\ op.req \in Nat
  <2> HIDE DEF op
  <2> QED BY <1>2 DEF Op
<1>6. op.req <= ck[op.clerk].req
  BY <1>2 DEF Effects
<1>7. \A d \in Clerk : /\ ck[d].req \in Nat /\ m.last[d] <= ck[d].req
                       /\ ck[d].req <= m.last[d] + 1
  BY Numbers DEF Effects
<1> HIDE DEF m, op
<1>8. CASE Fresh(m, op)
  <2>1. x.last = [m.last EXCEPT ![op.clerk] = op.req]
    BY <1>8 DEF Applied
  <2>2. op.req > m.last[op.clerk]
    BY <1>8 DEF Fresh
  <2> DEFINE c == op.clerk
             n == op.req
             f == m.last
             g == x.last
  <2>3. g = [f EXCEPT ![c] = n] /\ f \in [Clerk -> Nat] /\ c \in Clerk /\ n \in Nat
    BY <1>4, <1>5, <2>1
  <2>4. n > f[c] /\ n <= ck[c].req /\ \A d \in Clerk : /\ ck[d].req \in Nat /\ f[d] <= ck[d].req
                                                   /\ ck[d].req <= f[d] + 1
    BY <1>6, <1>7, <2>2
  <2>5. /\ n <= g[c]
        /\ \A d \in Clerk : g[d] \in Nat /\ f[d] <= g[d] /\ g[d] <= ck[d].req
        /\ n = ck[c].req /\ n = f[c] + 1
    <3> HIDE DEF c, n, f, g
    <3> QED BY <2>3, <2>4, SMTT(60)
  <2> HIDE DEF x
  <2> QED BY <1>1, <1>2, <1>3, <2>5 DEF m, op, x
<1>9. CASE ~Fresh(m, op)
  <2>1. x = m
    BY <1>9 DEF Applied
  <2>2. op.req <= m.last[op.clerk]
    BY <1>4, <1>5, <1>9, SMTT(60) DEF Fresh
  <2>3. \A d \in Clerk : m.last[d] \in Nat /\ m.last[d] <= m.last[d]
    BY <1>4, SMTT(60)
  <2> HIDE DEF x
  <2> QED BY <1>1, <1>2, <1>3, <1>7, <1>9, <2>1, <2>2, <2>3 DEF m, op, x
<1> QED BY <1>8, <1>9

\* Choosing an entry: a retry changes no number, the present call moves its
\* clerk's number up by one.
LEMMA EffectsChoose ==
  ASSUME Order, History, Effects, Choose
  PROVE  Effects'
<1> DEFINE m == agreed[chosen + 1]
           op == proposed[chosen + 1]
           x == Applied(m, op)
<1>1. /\ chosen' = chosen + 1 /\ agreed'[chosen' + 1] = x /\ UNCHANGED <<proposed, ck>>
      /\ op.req <= x.last[op.clerk]
      /\ \A d \in Clerk : x.last[d] \in Nat /\ m.last[d] <= x.last[d] /\ x.last[d] <= ck[d].req
  BY ChosenLast
<1>2. ASSUME NEW i \in 1 .. Len(proposed), i <= chosen + 1
      PROVE  proposed[i].req <= x.last[proposed[i].clerk]
  <2>1. CASE i = chosen + 1
    BY <1>1, <2>1
  <2>2. CASE i # chosen + 1
    <3>1. i <= chosen
      BY <1>2, <2>2, Numbers, SMTT(60)
    <3>2. proposed[i].req <= m.last[proposed[i].clerk]
      BY <3>1 DEF Effects
    <3>3. /\ proposed[i].clerk \in Clerk /\ proposed[i].req \in Nat
          /\ m.last[proposed[i].clerk] \in Nat
      BY Numbers
    <3> HIDE DEF x, m
    <3> QED BY <1>1, <3>2, <3>3, SMTT(60)
  <2> QED BY <2>1, <2>2
<1>3. ASSUME NEW i \in 1 .. Len(proposed')
      PROVE  LET c == proposed'[i].clerk
                 n == proposed'[i].req
             IN /\ n <= ck'[c].req
                /\ proposed'[i].type = Script[c][n].type /\ proposed'[i].key = Script[c][n].key
                /\ i <= chosen' => n <= agreed'[chosen' + 1].last[c]
  <2> HIDE DEF x
  <2>1. proposed' = proposed /\ ck' = ck /\ i \in 1 .. Len(proposed)
    BY <1>1
  <2>2. LET c == proposed[i].clerk
            n == proposed[i].req
        IN /\ n <= ck[c].req
           /\ proposed[i].type = Script[c][n].type /\ proposed[i].key = Script[c][n].key
    BY <2>1 DEF Effects
  <2>3. i <= chosen' => proposed[i].req <= agreed'[chosen' + 1].last[proposed[i].clerk]
    BY <1>1, <1>2, <2>1
  <2> QED BY <2>1, <2>2, <2>3
<1>4. ASSUME NEW d \in Clerk
      PROVE  /\ agreed'[chosen' + 1].last[d] <= ck'[d].req
             /\ ck'[d].req <= agreed'[chosen' + 1].last[d] + 1
             /\ ck'[d].pc = "idle" => agreed'[chosen' + 1].last[d] = ck'[d].req
  <2> DEFINE a == m.last[d]
             b == x.last[d]
  <2>1. agreed'[chosen' + 1].last[d] = b /\ ck'[d] = ck[d]
    BY <1>1
  <2>2. /\ a \in Nat /\ b \in Nat /\ ck[d].req \in Nat
        /\ a <= b /\ b <= ck[d].req /\ ck[d].req <= a + 1
    BY <1>1, Numbers DEF Effects
  <2>3. ck[d].pc = "idle" => a = ck[d].req
    BY DEF Effects
  <2> HIDE DEF a, b
  <2>4. ck[d].req <= b + 1 /\ (a = ck[d].req => b = ck[d].req)
    BY <2>2, SMTT(60)
  <2> QED BY <2>1, <2>2, <2>3, <2>4
<1> QED BY <1>3, <1>4 DEF Effects

\* The clerk's call is appended as the script has it.
LEMMA EffectsStart ==
  ASSUME Order, History, Effects, NEW c \in Clerk, NEW s \in Server, Start(c, s)
  PROVE  Effects'
<1> DEFINE r == ck[c].req
           op == [clerk |-> c, req |-> r, type |-> Script[c][r].type, key |-> Script[c][r].key]
<1>1. /\ proposed' = Append(proposed, op) \/ proposed' = proposed
      /\ UNCHANGED <<chosen, agreed>>
  BY DEF Start
<1>2. \A d \in Clerk : ck'[d].req = ck[d].req /\ (ck'[d].pc = "idle" => ck[d].pc = "idle")
  <2>1. \E v : /\ v.req = ck[c].req /\ v.pc # "idle"
               /\ ck' = [ck EXCEPT ![c] = v]
    <3> DEFINE n == IF s = leader THEN Len(proposed) ELSE size[s]
               v == [pc |-> IF stage[s] = "wait" THEN "waiting" ELSE "lookup",
                     req |-> ck[c].req, server |-> s, index |-> n + 1]
    <3>1. ck' = [ck EXCEPT ![c] = v]
      BY DEF Start
    <3>2. v.req = ck[c].req /\ v.pc # "idle"
      OBVIOUS
    <3> HIDE DEF v
    <3> QED BY <3>1, <3>2
  <2> QED BY <2>1 DEF Order, Clerks
<1>3. \A d \in Clerk :
        /\ ck'[d].req \in Nat /\ ck[d].req <= ck'[d].req
        /\ ck'[d].req <= agreed[chosen + 1].last[d] + 1
        /\ ck'[d].pc = "idle" => agreed[chosen + 1].last[d] = ck'[d].req
  BY <1>2, EffectsCk
<1>4. CASE proposed' = proposed
  BY <1>1, <1>3, <1>4, EffectsFrame
<1>5. CASE proposed' = Append(proposed, op)
  <2>1. /\ proposed \in Seq(Op) /\ chosen \in Nat /\ chosen <= Len(proposed)
        /\ r \in Nat /\ ck'[c].req = r
    BY <1>2, Numbers
  <2>2. op.clerk = c /\ op.req = r /\ op.type = Script[c][r].type /\ op.key = Script[c][r].key
    OBVIOUS
  <2> HIDE DEF op
  <2>3. ASSUME NEW i \in 1 .. Len(proposed')
        PROVE  \/ i \in 1 .. Len(proposed) /\ proposed'[i] = proposed[i]
               \/ i > chosen /\ proposed'[i] = op
    BY <1>5, <2>1, SMTT(60)
  <2>4. ASSUME NEW i \in 1 .. Len(proposed')
        PROVE  LET d == proposed'[i].clerk
                   n == proposed'[i].req
               IN /\ n <= ck'[d].req
                  /\ proposed'[i].type = Script[d][n].type /\ proposed'[i].key = Script[d][n].key
                  /\ i <= chosen' => n <= agreed'[chosen' + 1].last[d]
    <3>1. CASE i \in 1 .. Len(proposed) /\ proposed'[i] = proposed[i]
      <4>1. LET d == proposed[i].clerk
                n == proposed[i].req
            IN /\ n <= ck[d].req
               /\ proposed[i].type = Script[d][n].type /\ proposed[i].key = Script[d][n].key
               /\ i <= chosen => n <= agreed[chosen + 1].last[d]
        BY <3>1 DEF Effects
      <4>2. ck'[proposed[i].clerk].req = ck[proposed[i].clerk].req
        BY <1>2, <3>1, Numbers
      <4> QED BY <1>1, <3>1, <4>1, <4>2
    <3>2. CASE i > chosen /\ proposed'[i] = op
      <4>1. ~(i <= chosen') /\ r <= ck'[c].req
        BY <1>1, <2>1, <3>2, SMTT(60)
      <4>2. proposed'[i].clerk = c /\ proposed'[i].req = r
        BY <2>2, <3>2
      <4>3. proposed'[i].type = Script[c][r].type /\ proposed'[i].key = Script[c][r].key
        BY <2>2, <3>2
      <4> QED BY <4>1, <4>2, <4>3
    <3> QED BY <2>3, <3>1, <3>2
  <2>5. ASSUME NEW d \in Clerk
        PROVE  /\ agreed'[chosen' + 1].last[d] <= ck'[d].req
               /\ ck'[d].req <= agreed'[chosen' + 1].last[d] + 1
               /\ ck'[d].pc = "idle" => agreed'[chosen' + 1].last[d] = ck'[d].req
    <3>1. agreed[chosen + 1].last[d] <= ck[d].req
      BY DEF Effects
    <3>2. agreed'[chosen' + 1] = agreed[chosen + 1]
      BY <1>1
    <3> QED BY <1>2, <1>3, <3>1, <3>2
  <2> QED BY <2>4, <2>5 DEF Effects
<1> QED BY <1>1, <1>4, <1>5

\* A call begins after the one before it has returned and so has taken effect.
LEMMA EffectsCall ==
  ASSUME Order, History, Effects, NEW c \in Clerk, Call(c)
  PROVE  Effects'
<1>1. /\ ck[c].pc = "idle" /\ ck' = [ck EXCEPT ![c] = Sending(ck[c].req + 1)]
      /\ UNCHANGED <<proposed, chosen, agreed>>
  BY DEF Call, raft
<1>2. /\ ck'[c].req = ck[c].req + 1 /\ ck'[c].pc = "send"
      /\ \A d \in Clerk \ {c} : ck'[d] = ck[d]
  BY <1>1 DEF Order, Clerks, Sending
<1>3. ASSUME NEW d \in Clerk
      PROVE  /\ ck'[d].req \in Nat /\ ck[d].req <= ck'[d].req
             /\ ck'[d].req <= agreed[chosen + 1].last[d] + 1
             /\ ck'[d].pc = "idle" => agreed[chosen + 1].last[d] = ck'[d].req
  <2>1. /\ ck[d].req \in Nat /\ agreed[chosen + 1].last[d] \in Nat
        /\ ck[d].req <= agreed[chosen + 1].last[d] + 1
    BY Numbers DEF Effects
  <2>2. ck[d].pc = "idle" => agreed[chosen + 1].last[d] = ck[d].req
    BY DEF Effects
  <2>3. CASE d = c
    BY <1>1, <1>2, <2>1, <2>2, <2>3, SMTT(60)
  <2>4. CASE d # c
    BY <1>2, <2>1, <2>2, <2>4, SMTT(60)
  <2> QED BY <2>3, <2>4
<1> QED BY <1>1, <1>3, EffectsFrame

\* A result is of a chosen entry, so that a call that returns has taken effect.
LEMMA Returned ==
  ASSUME Order, History, Effects, NEW c \in Clerk, TakeResult(c), isSameOp(c, proposed[ck[c].index])
  PROVE  agreed[chosen + 1].last[c] = ck[c].req
<1> DEFINE i == ck[c].index
           s == ck[c].server
<1>1. ck[c].pc = "waiting" /\ i \in results[s]
  BY DEF TakeResult
<1>2. s \in Server
  BY <1>1 DEF Order, Clerks
<1>3. i \in Nat /\ 0 < i /\ i <= chosen /\ i <= Len(proposed)
  BY <1>1, <1>2, SMTT(60) DEF Order, Progress, Log
<1>4. proposed[i].clerk = c /\ proposed[i].req = ck[c].req
  BY DEF isSameOp
<1> HIDE DEF i
<1>5. proposed[i].req <= agreed[chosen + 1].last[proposed[i].clerk]
  BY <1>3, SMTT(60) DEF Effects
<1>6. /\ ck[c].req \in Nat /\ agreed[chosen + 1].last[c] \in Nat
      /\ agreed[chosen + 1].last[c] <= ck[c].req
  BY Numbers DEF Effects
<1> QED BY <1>4, <1>5, <1>6, SMTT(60)

\* The handlers of Mutex: only a handler that saw its own operation lets the
\* clerk go on.
LEMMA EffectsHandler ==
  ASSUME Order, History, Effects, NEW c \in Clerk, Handler(c)
  PROVE  Effects'
<1>1. UNCHANGED <<proposed, chosen, agreed>>
  BY DEF Handler, LookUp, TakeResult, TimeOut, raft
<1>2. ck \in [Clerk -> [pc : {"idle", "send", "lookup", "waiting"}, req : Nat,
                        server : Server \cup {None}, index : Nat]]
  BY DEF Order, Clerks
<1>3. CASE LookUp(c) \/ ck' = [ck EXCEPT ![c] = Sending(ck[c].req)]
  <2>1. \A d \in Clerk : ck'[d].req = ck[d].req /\ (ck'[d].pc = "idle" => ck[d].pc = "idle")
    BY <1>2, <1>3, SMTT(60) DEF LookUp, Sending
  <2>2. \A d \in Clerk :
          /\ ck'[d].req \in Nat /\ ck[d].req <= ck'[d].req
          /\ ck'[d].req <= agreed[chosen + 1].last[d] + 1
          /\ ck'[d].pc = "idle" => agreed[chosen + 1].last[d] = ck'[d].req
    BY <2>1, EffectsCk
  <2> QED BY <1>1, <2>2, EffectsFrame
<1>4. CASE TakeResult(c) /\ isSameOp(c, proposed[ck[c].index]) /\ ck' = [ck EXCEPT ![c] = Idle(ck[c].req)]
  <2>1. agreed[chosen + 1].last[c] = ck[c].req
    BY <1>4, Returned
  <2>2. ck'[c].req = ck[c].req /\ \A d \in Clerk \ {c} : ck'[d] = ck[d]
    BY <1>2, <1>4 DEF Idle
  <2>3. ASSUME NEW d \in Clerk
        PROVE  /\ ck'[d].req \in Nat /\ ck[d].req <= ck'[d].req
               /\ ck'[d].req <= agreed[chosen + 1].last[d] + 1
               /\ ck'[d].pc = "idle" => agreed[chosen + 1].last[d] = ck'[d].req
    <3>1. ck[d].req \in Nat /\ ck[d].req <= agreed[chosen + 1].last[d] + 1
      BY Numbers DEF Effects
    <3>2. ck[d].pc = "idle" => agreed[chosen + 1].last[d] = ck[d].req
      BY DEF Effects
    <3>3. CASE d = c
      BY <2>1, <2>2, <3>1, <3>3, SMTT(60)
    <3>4. CASE d # c
      BY <2>2, <3>1, <3>2, <3>4, SMTT(60)
    <3> QED BY <3>3, <3>4
  <2> QED BY <1>1, <2>3, EffectsFrame
<1> QED BY <1>3, <1>4 DEF Handler, TakeResult, TimeOut

\* Every step.
LEMMA EffectsStep ==
  ASSUME Order, History, Effects, Next
  PROVE  Effects'
<1>1. ASSUME UNCHANGED <<proposed, chosen, agreed>>,
             \A d \in Clerk : ck'[d].req = ck[d].req /\ (ck'[d].pc = "idle" => ck[d].pc = "idle")
      PROVE  Effects'
  BY <1>1, EffectsCk, EffectsFrame
<1>2. ASSUME UNCHANGED <<proposed, chosen, agreed, ck>> PROVE Effects'
  BY <1>1, <1>2
<1>3. ASSUME NEW s \in Server, Elect(s) PROVE Effects'
  <2>1. ck' = ck /\ UNCHANGED <<chosen, agreed>>
    BY <1>3 DEF Elect
  <2>2. PICK n \in chosen .. Len(proposed) : proposed' = SubSeq(proposed, 1, n)
    BY <1>3 DEF Elect
  <2>3. \A i \in 1 .. Len(proposed') : i \in 1 .. Len(proposed) /\ proposed'[i] = proposed[i]
    BY <2>2, Numbers, SMTT(60)
  <2> QED BY <2>1, <2>3, EffectsCk, EffectsFrame
<1>4. ASSUME NEW s \in Server, Restart(s) PROVE Effects'
  <2>1. /\ ck' = [c \in Clerk |-> IF ck[c].server = s THEN Sending(ck[c].req) ELSE ck[c]]
        /\ UNCHANGED <<proposed, chosen, agreed>>
    BY <1>4 DEF Restart
  <2>2. \A d \in Clerk : ck'[d].req = ck[d].req /\ (ck'[d].pc = "idle" => ck[d].pc = "idle")
    BY <2>1 DEF Sending
  <2> QED BY <1>1, <2>1, <2>2
<1> QED
  BY <1>2, <1>3, <1>4, EffectsChoose, EffectsStart, EffectsCall, EffectsHandler
     DEF Next, StepDown, Learn, Deliver, Loop, TakeMessage, AskRole, GiveLock, ReceiveLock,
         LoseReceiveLock, raft

-----------------------------------------------------------------------------
\* Steps that neither choose nor begin nor end a call are not seen.
LEMMA Unseen ==
  ASSUME UNCHANGED <<chosen, agreed>>,
         \A c \in Clerk : ck'[c].req = ck[c].req /\ (ck'[c].pc = "idle" <=> ck[c].pc = "idle")
  PROVE  UNCHANGED L!svars
<1>1. [c \in Clerk |-> ck'[c].req] = [c \in Clerk |-> ck[c].req]
  OBVIOUS
<1>2. [c \in Clerk |-> IF ck'[c].pc = "idle" THEN ck'[c].req ELSE ck'[c].req - 1]
      = [c \in Clerk |-> IF ck[c].pc = "idle" THEN ck[c].req ELSE ck[c].req - 1]
  OBVIOUS
<1> QED BY <1>1, <1>2 DEF L!svars

\* The entry that is chosen takes effect, unless it is a retry.
LEMMA ServedChoose ==
  ASSUME Order, History, Effects, Choose
  PROVE  [L!SNext]_(L!svars)
<1> DEFINE m == agreed[chosen + 1]
           op == proposed[chosen + 1]
           x == Applied(m, op)
           c == op.clerk
<1>1. /\ chosen + 1 \in 1 .. Len(proposed) /\ op \in Op /\ UNCHANGED ck
      /\ agreed'[chosen' + 1] = x
      /\ Fresh(m, op) => op.req = ck[c].req /\ op.req = m.last[c] + 1
  BY ChosenLast
<1>2. CASE ~Fresh(m, op)
  <2>1. agreed'[chosen' + 1] = agreed[chosen + 1]
    BY <1>1, <1>2 DEF Applied
  <2> QED BY <1>1, <2>1 DEF L!svars
<1>3. CASE Fresh(m, op)
  <2>1. c \in Clerk /\ op.type \in {"Lock", "Unlock"} /\ op.req \in Nat
    <3> HIDE DEF op
    <3> QED BY <1>1 DEF Op
  <2>2. op.type = Script[c][op.req].type /\ op.key = Script[c][op.req].key
    BY <1>1 DEF Effects
  <2>3. op.req = ck[c].req /\ op.req = m.last[c] + 1 /\ m.last[c] \in Nat
    BY <1>1, <1>3, <2>1, Numbers
  <2> HIDE DEF m, op
  <2>4. /\ x.store = IF op.type = "Lock" THEN lock(m.store, op.key, c) ELSE unlock(m.store, op.key, c)
        /\ x.last = [m.last EXCEPT ![c] = op.req]
    BY <1>3 DEF Applied
  <2> DEFINE call == Script[c][ck[c].req]
  <2>5. call.type = op.type /\ call.key = op.key
    BY <2>2, <2>3
  <2> HIDE DEF c
  <2>6. m.last[c] < [d \in Clerk |-> ck[d].req][c]
    <3>1. m.last[c] < ck[c].req
      BY <2>3, SMTT(60)
    <3>2. [d \in Clerk |-> ck[d].req][c] = ck[c].req
      BY <2>1
    <3> QED BY <3>1, <3>2
  <2>7. x.last = [m.last EXCEPT ![c] = @ + 1]
    BY <2>3, <2>4
  <2>8. x.store = IF call.type = "Unlock"
                  THEN [m.store EXCEPT ![call.key] = SelectSeq(@, LAMBDA d : d # c)]
                  ELSE IF \E i \in DOMAIN m.store[call.key] : m.store[call.key][i] = c THEN m.store
                  ELSE [m.store EXCEPT ![call.key] = Append(@, c)]
    <3> HIDE DEF call, x
    <3> QED BY <2>1, <2>4, <2>5 DEF lock, unlock, exists
  <2>9. [d \in Clerk |-> ck[d].req][c] = ck[c].req
    BY <2>1
  <2> HIDE DEF x
  <2>10. L!TakeEffect(c)
    BY <1>1, <2>6, <2>7, <2>8, <2>9 DEF L!TakeEffect, L!Waits, m
  <2> QED BY <2>1, <2>10 DEF L!SNext
<1> QED BY <1>2, <1>3

\* Lock or Unlock is called.
LEMMA ServedCall ==
  ASSUME Order, NEW c \in Clerk, Call(c)
  PROVE  L!Begin(c)
<1> DEFINE called == [d \in Clerk |-> ck[d].req]
           returned == [d \in Clerk |-> IF ck[d].pc = "idle" THEN ck[d].req ELSE ck[d].req - 1]
<1>1. /\ ck[c].pc = "idle" /\ ck[c].req + 1 <= Len(Script[c])
      /\ ck' = [ck EXCEPT ![c] = Sending(ck[c].req + 1)]
      /\ UNCHANGED <<chosen, agreed>>
  BY DEF Call, raft
<1>2. ck[c].req \in Nat
  BY DEF Order, Clerks
<1>3. /\ ck'[c].req = ck[c].req + 1 /\ ck'[c].pc = "send"
      /\ \A d \in Clerk \ {c} : ck'[d] = ck[d]
  BY <1>1 DEF Order, Clerks, Sending
<1>4. returned[c] = called[c] /\ called[c] < Len(Script[c])
  <2>1. Script \in [Clerk -> Seq([type : {"Lock", "Unlock"}, key : Key])]
    BY LockServerAssumption
  <2>2. Len(Script[c]) \in Nat
    BY <2>1, SMTT(60)
  <2> QED BY <1>1, <1>2, <2>2, SMTT(60)
<1>5. [d \in Clerk |-> ck'[d].req] = [called EXCEPT ![c] = @ + 1]
  BY <1>3
<1>6. [d \in Clerk |-> IF ck'[d].pc = "idle" THEN ck'[d].req ELSE ck'[d].req - 1] = returned
  <2>1. ck'[c].req - 1 = ck[c].req
    BY <1>2, <1>3, SMTT(60)
  <2>2. ASSUME NEW d \in Clerk
        PROVE  (IF ck'[d].pc = "idle" THEN ck'[d].req ELSE ck'[d].req - 1)
               = (IF ck[d].pc = "idle" THEN ck[d].req ELSE ck[d].req - 1)
    BY <1>1, <1>3, <2>1, SMTT(60)
  <2> QED BY <2>2
<1> QED BY <1>1, <1>4, <1>5, <1>6 DEF L!Begin

\* A call returns.
LEMMA ServedHandler ==
  ASSUME Order, History, Effects, NEW c \in Clerk, Handler(c)
  PROVE  [L!SNext]_(L!svars)
<1> DEFINE returned == [d \in Clerk |-> IF ck[d].pc = "idle" THEN ck[d].req ELSE ck[d].req - 1]
<1>1. UNCHANGED <<chosen, agreed>>
  BY DEF Handler, LookUp, TakeResult, TimeOut, raft
<1>2. ck \in [Clerk -> [pc : {"idle", "send", "lookup", "waiting"}, req : Nat,
                        server : Server \cup {None}, index : Nat]]
  BY DEF Order, Clerks
<1>3. CASE LookUp(c)
  <2>1. ck[c].pc = "lookup" /\ ck' = [ck EXCEPT ![c].pc = "waiting"]
    BY <1>3 DEF LookUp
  <2>2. \A d \in Clerk : ck'[d].req = ck[d].req /\ (ck'[d].pc = "idle" <=> ck[d].pc = "idle")
    BY <1>2, <2>1
  <2> QED BY <1>1, <2>2, Unseen
<1>4. CASE ck[c].pc = "waiting" /\ ck' = [ck EXCEPT ![c] = Sending(ck[c].req)]
  <2>1. \A d \in Clerk : ck'[d].req = ck[d].req /\ (ck'[d].pc = "idle" <=> ck[d].pc = "idle")
    BY <1>2, <1>4 DEF Sending
  <2> QED BY <1>1, <2>1, Unseen
<1>5. CASE /\ TakeResult(c) /\ isSameOp(c, proposed[ck[c].index]) /\ ck[c].pc = "waiting"
           /\ ck' = [ck EXCEPT ![c] = Idle(ck[c].req)]
  <2>1. agreed[chosen + 1].last[c] = ck[c].req
    BY <1>5, Returned
  <2>2. ck[c].req \in Nat
    BY <1>2
  <2>3. /\ ck'[c].req = ck[c].req /\ ck'[c].pc = "idle"
        /\ \A d \in Clerk \ {c} : ck'[d] = ck[d]
    BY <1>2, <1>5 DEF Idle
  <2>4. returned[c] = ck[c].req - 1
    BY <1>5
  <2>5. returned[c] < agreed[chosen + 1].last[c]
    <3> HIDE DEF returned
    <3> QED BY <2>1, <2>2, <2>4, SMTT(60)
  <2>6. [d \in Clerk |-> ck'[d].req] = [d \in Clerk |-> ck[d].req]
    BY <2>3
  <2>7. [d \in Clerk |-> IF ck'[d].pc = "idle" THEN ck'[d].req ELSE ck'[d].req - 1]
        = [returned EXCEPT ![c] = @ + 1]
    <3>1. returned[c] + 1 = ck'[c].req
      <4> HIDE DEF returned
      <4> QED BY <2>2, <2>3, <2>4, SMTT(60)
    <3>2. [returned EXCEPT ![c] = @ + 1] = [returned EXCEPT ![c] = ck'[c].req]
      BY <3>1
    <3> QED BY <2>3, <3>2
  <2>8. L!End(c)
    BY <1>1, <2>5, <2>6, <2>7 DEF L!End
  <2> QED BY <2>8 DEF L!SNext
<1> QED BY <1>3, <1>4, <1>5 DEF Handler, TakeResult, TimeOut

\* Every step is a step of the promised service, or is not seen.
LEMMA ServedStep ==
  ASSUME Order, History, Effects, Next
  PROVE  [L!SNext]_(L!svars)
<1>1. ASSUME UNCHANGED <<chosen, agreed>>,
             \A c \in Clerk : ck'[c].req = ck[c].req /\ (ck'[c].pc = "idle" <=> ck[c].pc = "idle")
      PROVE  [L!SNext]_(L!svars)
  BY <1>1, Unseen
<1>2. ASSUME UNCHANGED <<chosen, agreed, ck>> PROVE [L!SNext]_(L!svars)
  BY <1>1, <1>2
<1>3. ASSUME NEW c \in Clerk, NEW s \in Server, Start(c, s) PROVE [L!SNext]_(L!svars)
  <2> DEFINE n == IF s = leader THEN Len(proposed) ELSE size[s]
             v == [pc |-> IF stage[s] = "wait" THEN "waiting" ELSE "lookup",
                   req |-> ck[c].req, server |-> s, index |-> n + 1]
  <2>1. ck' = [ck EXCEPT ![c] = v] /\ ck[c].pc = "send" /\ UNCHANGED <<chosen, agreed>>
    BY <1>3 DEF Start
  <2>2. v.req = ck[c].req /\ v.pc # "idle"
    OBVIOUS
  <2> HIDE DEF v
  <2>3. \A d \in Clerk : ck'[d].req = ck[d].req /\ (ck'[d].pc = "idle" <=> ck[d].pc = "idle")
    BY <2>1, <2>2 DEF Order, Clerks
  <2> QED BY <1>1, <2>1, <2>3
<1>4. ASSUME NEW s \in Server, Restart(s) PROVE [L!SNext]_(L!svars)
  <2>1. /\ ck' = [c \in Clerk |-> IF ck[c].server = s THEN Sending(ck[c].req) ELSE ck[c]]
        /\ UNCHANGED <<chosen, agreed>>
    BY <1>4 DEF Restart
  <2>2. \A d \in Clerk : ck[d].pc = "idle" => ck[d].server # s
    BY LockServerAssumption DEF Order, Clerks
  <2>3. \A d \in Clerk : ck'[d].req = ck[d].req /\ (ck'[d].pc = "idle" <=> ck[d].pc = "idle")
    BY <2>1, <2>2 DEF Sending
  <2> QED BY <1>1, <2>1, <2>3
<1>5. ASSUME NEW c \in Clerk, Call(c) PROVE [L!SNext]_(L!svars)
  BY <1>5, ServedCall DEF L!SNext
<1> QED
  BY <1>2, <1>3, <1>4, <1>5, ServedChoose, ServedHandler
     DEF Next, Elect, StepDown, Learn, Deliver, Loop, TakeMessage, AskRole, GiveLock,
         ReceiveLock, LoseReceiveLock, raft

\* The start: no call has begun or taken effect.
LEMMA EffectsInit == Init => Effects
<1> SUFFICES ASSUME Init PROVE Effects OBVIOUS
<1>1. /\ agreed = <<EmptyMachine>> /\ chosen = 0 /\ proposed = <<>>
      /\ ck = [c \in Clerk |-> Idle(0)]
  BY DEF Init
<1>2. agreed[chosen + 1] = EmptyMachine /\ Len(proposed) = 0
  BY <1>1, SMTT(60)
<1>3. \A c \in Clerk : EmptyMachine.last[c] = 0 /\ ck[c].req = 0
  BY <1>1 DEF EmptyMachine, Idle
<1> QED BY <1>2, <1>3, SMTT(60) DEF Effects

\* The start is a start of the promised service.
LEMMA ServedInit == Init => L!SInit
<1> SUFFICES ASSUME Init PROVE L!SInit OBVIOUS
<1>1. /\ agreed = <<EmptyMachine>> /\ chosen = 0 /\ ck = [c \in Clerk |-> Idle(0)]
  BY DEF Init
<1>2. agreed[chosen + 1] = EmptyMachine
  BY <1>1, SMTT(60)
<1>3. /\ EmptyMachine.store = [k \in Key |-> <<>>] /\ EmptyMachine.last = [c \in Clerk |-> 0]
  BY DEF EmptyMachine
<1>4. \A c \in Clerk : ck[c].req = 0 /\ ck[c].pc = "idle"
  BY <1>1 DEF Idle
<1> QED BY <1>2, <1>3, <1>4 DEF L!SInit

\* Calls of Lock and Unlock take effect once and in order between their beginning
\* and their end, whatever is lost, timed out, retried, replaced or restarted: the
\* servers over Raft implement LockService.
THEOREM ServiceIsImplemented == Spec => ImplementsLockService
<1>1. Order /\ History /\ Effects /\ [Next]_vars => Effects'
  <2>1. ASSUME Effects, UNCHANGED vars PROVE Effects'
    BY <2>1 DEF Effects, vars, raft
  <2> QED BY <2>1, EffectsStep
<1>2. Order /\ History /\ Effects /\ [Next]_vars => [L!SNext]_(L!svars)
  <2>1. ASSUME UNCHANGED vars PROVE UNCHANGED L!svars
    BY <2>1 DEF vars, raft, L!svars
  <2> QED BY <2>1, ServedStep
<1> QED
  BY <1>1, <1>2, OrderInit, OrderStep, HistoryInit, HistoryNext, EffectsInit, ServedInit, PTL
     DEF Spec, ImplementsLockService, L!SSpec

-----------------------------------------------------------------------------
(* The simulated network.                                                  *)

Label == {"new", "sent", "failing", "routed", "waiting", "checking", "replying", "returned"}

\* The fields of the network.  Server objects are numbered in the order in which
\* they are made.
Objects ==
  /\ made \in Nat /\ servers \in [Name -> Nat] /\ \A n \in Name : servers[n] <= made
  /\ connections \in [End -> Name \cup {NoName}]

\* Where a call is.
Places ==
  /\ pc \in [Rpc -> Label] /\ replyOK \in [Rpc -> BOOLEAN]
  /\ handler \in [Rpc -> {"none", "running", "sending", "ended"}]
  /\ runs \in [Rpc -> Nat] /\ outcome \in [Rpc -> {"none", "true", "false"}]
  /\ survived \in [Rpc -> BOOLEAN]

\* The server that processReq has read.
Route(c) == local[c].name \in Name /\ local[c].server \in Nat /\ local[c].server # 0
            /\ local[c].server <= made

\* A call has a handler only once it was routed; the handler has run when its
\* answer is on the way; and a server that is in the network now was there when
\* its handler returned, since no server object is ever put back.
Coherent(c) ==
  /\ pc[c] \in {"new", "sent", "routed"} => handler[c] = "none"
  /\ (pc[c] = "routed" \/ handler[c] # "none") => Route(c)
  /\ runs[c] = IF handler[c] \in {"none", "running"} THEN 0 ELSE 1
  /\ replyOK[c] => handler[c] = "ended"
  /\ handler[c] \in {"sending", "ended"} /\ InNetwork(c) => survived[c]
  /\ pc[c] = "replying" => runs[c] = 1 /\ survived[c]
  /\ outcome[c] # "none" => pc[c] = "returned"
  /\ outcome[c] = "true" => runs[c] = 1 /\ survived[c]

RpcInv ==
  /\ Objects /\ Places /\ local = [c \in Rpc |-> local[c]]
  /\ \A c \in Rpc : Coherent(c)

-----------------------------------------------------------------------------
\* The start: no call, no server.
LEMMA RpcStart == NetInit => RpcInv
<1> SUFFICES ASSUME NetInit PROVE RpcInv OBVIOUS
<1>1. Objects
  BY SMTT(60) DEF NetInit, Objects
<1>2. Places
  BY DEF NetInit, Places, Label
<1>3. local = [c \in Rpc |-> local[c]]
  BY DEF NetInit
<1>4. ASSUME NEW c \in Rpc PROVE Coherent(c)
  BY DEF NetInit, Coherent
<1> QED BY <1>1, <1>2, <1>3, <1>4 DEF RpcInv

\* What the tester does: a name gets a new server object or none.
LEMMA RpcTester ==
  ASSUME RpcInv, Tester
  PROVE  RpcInv'
<1>0. Objects /\ Places /\ \A c \in Rpc : Coherent(c)
  BY DEF RpcInv
<1>1. UNCHANGED <<pc, local, replyOK, handler, runs, outcome, survived>>
  BY DEF Tester, MakeEnd, Connect, Enable, AddServer, DeleteServer, Reliable, Cleanup,
         StopServing, process, dispatch, history
<1>2. \/ servers' = servers /\ made' = made
      \/ \E n \in Name : servers' = [servers EXCEPT ![n] = made + 1] /\ made' = made + 1
      \/ \E n \in Name : servers' = [servers EXCEPT ![n] = 0] /\ made' = made
  BY DEF Tester, MakeEnd, Connect, Enable, AddServer, DeleteServer, Reliable, Cleanup, StopServing
<1>3. Objects'
  <2>1. connections' \in [End -> Name \cup {NoName}]
    BY <1>0 DEF Objects, Tester, MakeEnd, Connect, Enable, AddServer, DeleteServer, Reliable,
       Cleanup, StopServing
  <2>2. made' \in Nat /\ servers' \in [Name -> Nat] /\ \A n \in Name : servers'[n] <= made'
    BY <1>0, <1>2, SMTT(60) DEF Objects
  <2> QED BY <2>1, <2>2 DEF Objects
<1>4. made <= made' /\ \A n \in Name : servers'[n] \in {servers[n], made + 1, 0}
  BY <1>0, <1>2, SMTT(60) DEF Objects
<1>5. ASSUME NEW c \in Rpc PROVE Coherent(c)'
  <2>1. Coherent(c)
    BY <1>0
  <2>2. Route(c) => Route(c)' /\ (InNetwork(c)' => InNetwork(c))
    BY <1>0, <1>1, <1>3, <1>4, SMTT(60) DEF Objects, Route, InNetwork
  <2>3. handler[c] \in {"sending", "ended"} => Route(c)
    BY <2>1 DEF Coherent
  <2> QED BY <1>1, <2>1, <2>2, <2>3 DEF Coherent
<1>6. Places' /\ (local = [c \in Rpc |-> local[c]])'
  BY <1>0, <1>1 DEF Places, RpcInv
<1> QED BY <1>3, <1>5, <1>6 DEF RpcInv

\* A step of one call leaves the others alone.
LEMMA RpcOthers ==
  ASSUME RpcInv, NEW d \in Rpc, UNCHANGED <<servers, connections, made>>, Places',
         (local = [c \in Rpc |-> local[c]])', Coherent(d)',
         \A c \in Rpc \ {d} :
           /\ pc'[c] = pc[c] /\ local'[c] = local[c] /\ replyOK'[c] = replyOK[c]
           /\ handler'[c] = handler[c] /\ runs'[c] = runs[c] /\ outcome'[c] = outcome[c]
           /\ survived'[c] = survived[c]
  PROVE  RpcInv'
<1>1. ASSUME NEW c \in Rpc, c # d PROVE Coherent(c)'
  BY <1>1, SMTT(60) DEF RpcInv, Coherent, Route, InNetwork
<1>2. Objects'
  BY DEF RpcInv, Objects
<1> QED BY <1>1, <1>2 DEF RpcInv

\* Call, and the part of processReq before the handler.
LEMMA RpcRequest ==
  ASSUME RpcInv, NEW c \in Rpc,
         Send(c) \/ SendFails(c) \/ readEndnameInfo(c) \/ DropRequest(c) \/ StartHandler(c)
  PROVE  RpcInv'
<1>0. Objects /\ Places /\ Coherent(c) /\ local = [d \in Rpc |-> local[d]]
  BY DEF RpcInv
<1>1. UNCHANGED <<servers, connections, made, replyOK, runs, outcome, survived>>
  BY DEF Send, SendFails, readEndnameInfo, DropRequest, StartHandler, network, history
<1>2. CASE Send(c) \/ SendFails(c) \/ DropRequest(c)
  <2>1. /\ pc[c] \in {"new", "routed"} /\ UNCHANGED <<local, handler>>
        /\ \E l \in {"sent", "failing"} : pc' = [pc EXCEPT ![c] = l]
    BY <1>2 DEF Send, SendFails, DropRequest, Goto, dispatch
  <2>2. Places' /\ pc'[c] \in {"sent", "failing"} /\ \A d \in Rpc \ {c} : pc'[d] = pc[d]
    BY <1>0, <1>1, <2>1 DEF Places, Label
  <2>3. Coherent(c)'
    BY <1>0, <1>1, <2>1, <2>2 DEF Coherent, Route, InNetwork
  <2> QED BY <1>0, <1>1, <2>1, <2>2, <2>3, RpcOthers
<1>3. CASE readEndnameInfo(c)
  <2> DEFINE n == connections[EndOf[c]]
  <2>1. pc[c] = "sent" /\ UNCHANGED handler
    BY <1>3 DEF readEndnameInfo, dispatch
  <2>2. CASE pc' = [pc EXCEPT ![c] = "failing"] /\ UNCHANGED local
    <3>1. Places' /\ pc'[c] = "failing" /\ \A d \in Rpc \ {c} : pc'[d] = pc[d]
      BY <1>0, <1>1, <2>1, <2>2 DEF Places, Label
    <3>2. Coherent(c)'
      BY <1>0, <1>1, <2>1, <2>2, <3>1 DEF Coherent, Route, InNetwork
    <3> QED BY <1>0, <1>1, <2>1, <2>2, <3>1, <3>2, RpcOthers
  <2>3. CASE /\ n # NoName /\ servers[n] # 0 /\ pc' = [pc EXCEPT ![c] = "routed"]
             /\ local' = [local EXCEPT ![c] = [name |-> n, server |-> servers[n],
                                               reliable |-> reliable]]
    <3>1. Places' /\ pc'[c] = "routed" /\ \A d \in Rpc \ {c} : pc'[d] = pc[d]
      BY <1>0, <1>1, <2>1, <2>3 DEF Places, Label
    <3>2. /\ local'[c].name = n /\ local'[c].server = servers[n]
          /\ \A d \in Rpc \ {c} : local'[d] = local[d]
          /\ (local = [d \in Rpc |-> local[d]])'
      BY <1>0, <2>3
    <3>3. n \in Name
      BY <1>0, <2>3, LabRpcAssumption DEF Objects
    <3>4. Route(c)'
      BY <1>0, <1>1, <2>3, <3>2, <3>3 DEF Objects, Route
    <3>5. handler[c] = "none" /\ outcome[c] = "none" /\ ~replyOK[c]
      BY <1>0, <2>1 DEF Coherent, Places
    <3>6. Coherent(c)'
      BY <1>0, <1>1, <2>1, <3>1, <3>4, <3>5 DEF Coherent
    <3> QED BY <1>1, <2>1, <3>1, <3>2, <3>6, RpcOthers
  <2> QED BY <1>3, <2>2, <2>3 DEF readEndnameInfo, Goto
<1>4. CASE StartHandler(c)
  <2>1. /\ pc[c] = "routed" /\ UNCHANGED local /\ pc' = [pc EXCEPT ![c] = "waiting"]
        /\ handler' = [handler EXCEPT ![c] = "running"]
    BY <1>4 DEF StartHandler, Goto
  <2>2. /\ Places' /\ pc'[c] = "waiting" /\ handler'[c] = "running"
        /\ \A d \in Rpc \ {c} : pc'[d] = pc[d] /\ handler'[d] = handler[d]
    BY <1>0, <1>1, <2>1 DEF Places, Label
  <2>3. Coherent(c)'
    BY <1>0, <1>1, <2>1, <2>2 DEF Coherent, Route, InNetwork
  <2> QED BY <1>0, <1>1, <2>1, <2>2, <2>3, RpcOthers
<1> QED BY <1>2, <1>3, <1>4

\* The handler and the part of processReq behind it.
LEMMA RpcReply ==
  ASSUME RpcInv, NEW c \in Rpc,
         \/ HandlerReturns(c) \/ ReceiveReply(c) \/ Poll(c) \/ Drain(c)
         \/ CheckAgain(c) \/ Return(c)
  PROVE  RpcInv'
<1>0. Objects /\ Places /\ Coherent(c) /\ local = [d \in Rpc |-> local[d]]
  BY DEF RpcInv
<1>1. UNCHANGED <<servers, connections, made, local>>
  BY DEF HandlerReturns, ReceiveReply, Poll, Drain, CheckAgain, Return, network, process
<1>2. CASE HandlerReturns(c)
  <2>1. /\ handler[c] = "running" /\ UNCHANGED <<pc, replyOK, outcome>>
        /\ handler' = [handler EXCEPT ![c] = "sending"] /\ runs' = [runs EXCEPT ![c] = @ + 1]
        /\ survived' = [survived EXCEPT ![c] = InNetwork(c)]
    BY <1>2 DEF HandlerReturns, process
  <2>2. /\ Places' /\ handler'[c] = "sending" /\ runs'[c] = runs[c] + 1
        /\ survived'[c] = InNetwork(c)
        /\ \A d \in Rpc \ {c} : /\ handler'[d] = handler[d] /\ runs'[d] = runs[d]
                                /\ survived'[d] = survived[d]
    BY <1>0, <1>1, <2>1, SMTT(60) DEF Places, Label, InNetwork
  <2>3. runs[c] = 0 /\ Route(c) /\ ~replyOK[c] /\ pc[c] # "replying" /\ outcome[c] # "true"
    BY <1>0, <2>1, SMTT(60) DEF Coherent
  <2>4. Coherent(c)'
    <3>1. InNetwork(c)' => survived'[c]
      <4>1. InNetwork(c)' <=> InNetwork(c)
        BY <1>1 DEF InNetwork
      <4> QED BY <2>2, <4>1
    <3>2. Route(c)'
      BY <1>1, <2>3 DEF Route
    <3>3. pc'[c] = pc[c] /\ replyOK'[c] = replyOK[c] /\ outcome'[c] = outcome[c] /\ runs'[c] = 1
      <4>1. runs'[c] = 0 + 1
        BY <2>2, <2>3
      <4>2. runs'[c] = 1
        BY <4>1, SMTT(60)
      <4> QED BY <2>1, <4>2
    <3>4. pc[c] \notin {"new", "sent", "routed"} /\ (outcome[c] # "none" => pc[c] = "returned")
      BY <1>0, <2>1 DEF Coherent
    <3> QED BY <2>2, <2>3, <3>1, <3>2, <3>3, <3>4 DEF Coherent
  <2> QED BY <1>0, <1>1, <2>1, <2>2, <2>4, RpcOthers
<1>3. CASE ReceiveReply(c) \/ Poll(c) \/ Drain(c)
  <2>1. /\ UNCHANGED <<runs, outcome, survived>>
        /\ \/ pc' = pc
           \/ pc[c] = "waiting" /\ pc' = [pc EXCEPT ![c] = "checking"]
        /\ \/ UNCHANGED <<handler, replyOK>>
           \/ handler[c] = "sending" /\ handler' = [handler EXCEPT ![c] = "ended"]
              /\ (replyOK' = replyOK \/ replyOK' = [replyOK EXCEPT ![c] = TRUE])
    BY <1>3 DEF ReceiveReply, Poll, Drain, Goto, process, history
  <2>2. Places'
    BY <1>0, <1>1, <2>1 DEF Places, Label
  <2>3. \A d \in Rpc \ {c} : pc'[d] = pc[d] /\ handler'[d] = handler[d] /\ replyOK'[d] = replyOK[d]
    BY <1>0, <2>1 DEF Places
  <2>4. /\ pc'[c] = pc[c] \/ (pc[c] = "waiting" /\ pc'[c] = "checking")
        /\ \/ handler'[c] = handler[c] /\ replyOK'[c] = replyOK[c]
           \/ handler[c] = "sending" /\ handler'[c] = "ended"
    BY <1>0, <2>1 DEF Places
  <2>5. Coherent(c)'
    BY <1>0, <1>1, <2>1, <2>4 DEF Coherent, Route, InNetwork
  <2> QED BY <1>0, <1>1, <2>1, <2>2, <2>3, <2>5, RpcOthers
<1>4. CASE CheckAgain(c)
  <2>1. /\ pc[c] = "checking" /\ UNCHANGED <<replyOK, handler, runs, outcome, survived>>
        /\ \E l \in {"failing", "replying"} :
             pc' = [pc EXCEPT ![c] = l] /\ (l = "replying" => ~Refuses(c))
    BY <1>4 DEF CheckAgain, Goto, dispatch, history
  <2>2. /\ Places' /\ pc'[c] \in {"failing", "replying"} /\ (pc'[c] = "replying" => ~Refuses(c))
        /\ \A d \in Rpc \ {c} : pc'[d] = pc[d]
    BY <1>0, <1>1, <2>1 DEF Places, Label
  <2>3. ~Refuses(c) => runs[c] = 1 /\ survived[c]
    BY <1>0 DEF Coherent, Refuses, isServerDead
  <2>4. Coherent(c)'
    BY <1>0, <1>1, <2>1, <2>2, <2>3 DEF Coherent, Route, InNetwork
  <2> QED BY <1>0, <1>1, <2>1, <2>2, <2>4, RpcOthers
<1>5. CASE Return(c)
  <2>1. /\ pc[c] \in {"failing", "replying"} /\ UNCHANGED <<replyOK, handler, runs, survived>>
        /\ pc' = [pc EXCEPT ![c] = "returned"]
        /\ outcome' = [outcome EXCEPT ![c] = IF pc[c] = "replying" THEN "true" ELSE "false"]
    BY <1>5 DEF Return, Goto, dispatch
  <2>2. /\ Places' /\ pc'[c] = "returned"
        /\ outcome'[c] = IF pc[c] = "replying" THEN "true" ELSE "false"
        /\ \A d \in Rpc \ {c} : pc'[d] = pc[d] /\ outcome'[d] = outcome[d]
    BY <1>0, <1>1, <2>1 DEF Places, Label
  <2>3. Coherent(c)'
    BY <1>0, <1>1, <2>1, <2>2, SMTT(60) DEF Coherent, Route, InNetwork
  <2> QED BY <1>0, <1>1, <2>1, <2>2, <2>3, RpcOthers
<1> QED BY <1>2, <1>3, <1>4, <1>5

\* Every step.
LEMMA RpcStep == RpcInv /\ [NetNext]_netVars => RpcInv'
<1> SUFFICES ASSUME RpcInv, [NetNext]_netVars PROVE RpcInv' OBVIOUS
<1>1. CASE NetNext
  BY <1>1, RpcTester, RpcRequest, RpcReply DEF NetNext, Process
<1>2. CASE UNCHANGED netVars
  BY <1>2 DEF RpcInv, Objects, Places, Coherent, Route, InNetwork, netVars, network, process,
              dispatch, history
<1> QED BY <1>1, <1>2

\* A positive reply comes from a server that was in the network when its handler
\* returned, although processReq looks at the network only before and after.
THEOREM RepliesFromTheLiving == NetSpec => []ReplyFromTheLiving
<1>1. RpcInv => ReplyFromTheLiving
  BY DEF RpcInv, Coherent, ReplyFromTheLiving
<1> QED BY <1>1, RpcStart, RpcStep, PTL DEF NetSpec

\* Every step is a step of AtMostOnce or is not seen by the caller.
LEMMA CalledOnce ==
  ASSUME RpcInv, NetNext
  PROVE  [O!ONext]_(O!ovars)
<1>0. Places /\ \A c \in Rpc : Coherent(c)
  BY DEF RpcInv
<1>1. ASSUME UNCHANGED <<runs, outcome>>, \A c \in Rpc : pc'[c] # "new" <=> pc[c] # "new"
      PROVE  UNCHANGED O!ovars
  <2>1. {c \in Rpc : pc'[c] # "new"} = {c \in Rpc : pc[c] # "new"}
    BY <1>1
  <2> QED BY <1>1, <2>1 DEF O!ovars
<1>2. ASSUME Tester PROVE UNCHANGED O!ovars
  <2>1. UNCHANGED <<pc, runs, outcome>>
    BY <1>2 DEF Tester, MakeEnd, Connect, Enable, AddServer, DeleteServer, Reliable, Cleanup,
                StopServing, process, history
  <2> QED BY <1>1, <2>1
<1>3. ASSUME NEW c \in Rpc, Send(c) \/ SendFails(c) PROVE O!OBegin(c)
  <2>1. /\ pc[c] = "new" /\ UNCHANGED <<runs, outcome>>
        /\ \E l \in {"sent", "failing"} : pc' = [pc EXCEPT ![c] = l]
    BY <1>3 DEF Send, SendFails, Goto, history
  <2>2. {d \in Rpc : pc'[d] # "new"} = {d \in Rpc : pc[d] # "new"} \cup {c}
    BY <1>0, <2>1 DEF Places
  <2> QED BY <2>1, <2>2 DEF O!OBegin
<1>4. ASSUME NEW c \in Rpc, HandlerReturns(c) PROVE O!ORun(c)
  <2>1. handler[c] = "running" /\ runs' = [runs EXCEPT ![c] = @ + 1] /\ UNCHANGED <<pc, outcome>>
    BY <1>4 DEF HandlerReturns, process
  <2>2. runs[c] = 0 /\ pc[c] # "new"
    BY <1>0, <2>1 DEF Coherent
  <2>3. runs' = [runs EXCEPT ![c] = 1]
    BY <2>1, <2>2, SMTT(60)
  <2> QED BY <2>1, <2>2, <2>3 DEF O!ORun
<1>5. ASSUME NEW c \in Rpc, Return(c)
      PROVE  \E r \in {"true", "false"} : O!OReturn(c, r)
  <2> DEFINE r == IF pc[c] = "replying" THEN "true" ELSE "false"
  <2>1. /\ pc[c] \in {"failing", "replying"} /\ UNCHANGED runs
        /\ pc' = [pc EXCEPT ![c] = "returned"] /\ outcome' = [outcome EXCEPT ![c] = r]
    BY <1>5 DEF Return, Goto
  <2>2. outcome[c] = "none" /\ (r = "true" => runs[c] = 1) /\ r \in {"true", "false"}
    BY <1>0, <2>1 DEF Coherent
  <2> HIDE DEF r
  <2>3. {d \in Rpc : pc'[d] # "new"} = {d \in Rpc : pc[d] # "new"}
    BY <1>0, <2>1 DEF Places
  <2>4. O!OReturn(c, r)
    BY <2>1, <2>2, <2>3 DEF O!OReturn
  <2> QED BY <2>2, <2>4
<1>6. ASSUME NEW c \in Rpc, \/ readEndnameInfo(c) \/ DropRequest(c) \/ StartHandler(c)
                            \/ ReceiveReply(c) \/ Poll(c) \/ CheckAgain(c) \/ Drain(c)
      PROVE  UNCHANGED O!ovars
  <2>1. /\ UNCHANGED <<runs, outcome>>
        /\ \/ pc' = pc
           \/ pc[c] # "new" /\ \E l \in Label \ {"new"} : pc' = [pc EXCEPT ![c] = l]
    BY <1>6 DEF readEndnameInfo, DropRequest, StartHandler, ReceiveReply, Poll, CheckAgain, Drain,
                Goto, Label, history, process
  <2>2. \A d \in Rpc : pc'[d] # "new" <=> pc[d] # "new"
    BY <1>0, <2>1 DEF Places
  <2> QED BY <1>1, <2>1, <2>2
<1>7. ASSUME NEW c \in Rpc, Send(c) \/ SendFails(c) \/ HandlerReturns(c) \/ Return(c)
      PROVE  O!ONext
  BY <1>3, <1>4, <1>5, <1>7 DEF O!ONext
<1> QED BY <1>2, <1>6, <1>7 DEF NetNext, Process

\* A handler runs at most once for a call, and Call returns true only after it has
\* run: labrpc implements AtMostOnce.
THEOREM CallsAreHandledOnce == NetSpec => ImplementsAtMostOnce
<1>1. NetInit => O!OInit
  BY DEF NetInit, O!OInit
<1>2. RpcInv /\ [NetNext]_netVars => [O!ONext]_(O!ovars)
  <2>1. ASSUME UNCHANGED netVars PROVE UNCHANGED O!ovars
    BY <2>1 DEF netVars, process, history, O!ovars
  <2> QED BY <2>1, CalledOnce
<1> QED BY <1>1, <1>2, RpcStart, RpcStep, PTL DEF NetSpec, ImplementsAtMostOnce, O!OSpec
=============================================================================
