------------------------------- MODULE LabRpc -------------------------------
(***************************************************************************)
(* src/labrpc/labrpc.go: client ends, the network, servers, and each call  *)
(* on its way through processReq, while the tester connects and disables   *)
(* ends and replaces servers.  Delays are steps taken late; the settings   *)
(* that only lengthen them (LongDelays, LongReordering) are left out.  A   *)
(* server object is a number, 0 the nil pointer.                           *)
(***************************************************************************)
EXTENDS Integers

CONSTANTS Rpc, End, Name, NoName,
          EndOf,        \* the end each call is made on
          MaxServers    \* bound: server objects made

ASSUME LabRpcAssumption ==
  /\ EndOf \in [Rpc -> End] /\ NoName \notin Name /\ MaxServers \in Nat

VARIABLES
  ends, enabled, connections, servers, reliable,   \* the fields of Network
  made,       \* server objects made so far
  done,       \* the channel done is closed
  serving,    \* the goroutine that receives from endCh runs
  pc,         \* where a call is
  local,      \* servername, server and reliable as processReq read them
  replyOK,
  handler,    \* the goroutine that dispatches: not started, in the handler, at
              \* its send on ech, ended
  drained,    \* a goroutine was started to receive from ech
  outcome, runs,       \* what Call returned; how often a handler ran (history)
  survived    \* the server was still in the network when its handler returned
              \* (history)

network == <<ends, enabled, connections, servers, reliable, made, done, serving>>
process == <<pc, local, replyOK>>
dispatch == <<handler, drained>>
history == <<outcome, runs, survived>>
netVars == <<network, process, dispatch, history>>

NoRoute == [name |-> NoName, server |-> 0, reliable |-> TRUE]

NetInit ==
  /\ ends = {} /\ enabled = [e \in End |-> FALSE]
  /\ connections = [e \in End |-> NoName]
  /\ servers = [n \in Name |-> 0] /\ made = 0
  /\ reliable = TRUE /\ done = FALSE /\ serving = TRUE
  /\ pc = [c \in Rpc |-> "new"] /\ local = [c \in Rpc |-> NoRoute]
  /\ replyOK = [c \in Rpc |-> FALSE]
  /\ handler = [c \in Rpc |-> "none"] /\ drained = [c \in Rpc |-> FALSE]
  /\ outcome = [c \in Rpc |-> "none"] /\ runs = [c \in Rpc |-> 0]
  /\ survived = [c \in Rpc |-> FALSE]

-----------------------------------------------------------------------------
\* What the tester does to the network, each under rn.mu.

MakeEnd(e) ==
  /\ e \notin ends
  /\ ends' = ends \cup {e}
  /\ enabled' = [enabled EXCEPT ![e] = FALSE]
  /\ connections' = [connections EXCEPT ![e] = NoName]
  /\ UNCHANGED <<servers, reliable, made, done, serving, process, dispatch, history>>

\* MakeServer and AddServer; the name may be in use.
AddServer(n) ==
  /\ made < MaxServers
  /\ made' = made + 1
  /\ servers' = [servers EXCEPT ![n] = made + 1]
  /\ UNCHANGED <<ends, enabled, connections, reliable, done, serving, process, dispatch,
                 history>>

DeleteServer(n) ==
  /\ servers' = [servers EXCEPT ![n] = 0]
  /\ UNCHANGED <<ends, enabled, connections, reliable, made, done, serving, process,
                 dispatch, history>>

Connect(e, n) ==
  /\ e \in ends
  /\ connections' = [connections EXCEPT ![e] = n]
  /\ UNCHANGED <<ends, enabled, servers, reliable, made, done, serving, process, dispatch,
                 history>>

Enable(e, on) ==
  /\ e \in ends
  /\ enabled' = [enabled EXCEPT ![e] = on]
  /\ UNCHANGED <<ends, connections, servers, reliable, made, done, serving, process,
                 dispatch, history>>

Reliable(yes) ==
  /\ reliable' = yes
  /\ UNCHANGED <<ends, enabled, connections, servers, made, done, serving, process,
                 dispatch, history>>

Cleanup ==
  /\ ~done
  /\ done' = TRUE
  /\ UNCHANGED <<ends, enabled, connections, servers, reliable, made, serving, process,
                 dispatch, history>>

\* The receiving goroutine sees that done is closed.
StopServing ==
  /\ done /\ serving
  /\ serving' = FALSE
  /\ UNCHANGED <<ends, enabled, connections, servers, reliable, made, done, process,
                 dispatch, history>>

-----------------------------------------------------------------------------
\* Call, up to the wait for the reply.

Goto(c, label) == pc' = [pc EXCEPT ![c] = label]

Send(c) ==
  /\ pc[c] = "new" /\ EndOf[c] \in ends /\ serving
  /\ Goto(c, "sent")
  /\ UNCHANGED <<network, local, replyOK, dispatch, history>>

SendFails(c) ==
  /\ pc[c] = "new" /\ EndOf[c] \in ends /\ done
  /\ Goto(c, "failing")
  /\ UNCHANGED <<network, local, replyOK, dispatch, history>>

-----------------------------------------------------------------------------
\* processReq.

readEndnameInfo(c) ==
  LET n == connections[EndOf[c]] IN
  /\ pc[c] = "sent"
  /\ IF enabled[EndOf[c]] /\ n # NoName /\ servers[n] # 0
     THEN /\ Goto(c, "routed")
          /\ local' = [local EXCEPT ![c] = [name |-> n, server |-> servers[n],
                                            reliable |-> reliable]]
     ELSE Goto(c, "failing") /\ UNCHANGED local
  /\ UNCHANGED <<network, replyOK, dispatch, history>>

DropRequest(c) ==
  /\ pc[c] = "routed" /\ ~local[c].reliable
  /\ Goto(c, "failing")
  /\ UNCHANGED <<network, local, replyOK, dispatch, history>>

\* The goroutine that calls the handler starts.
StartHandler(c) ==
  /\ pc[c] = "routed"
  /\ Goto(c, "waiting")
  /\ handler' = [handler EXCEPT ![c] = "running"]
  /\ UNCHANGED <<network, local, replyOK, drained, history>>

InNetwork(c) == servers[local[c].name] = local[c].server

HandlerReturns(c) ==
  /\ handler[c] = "running"
  /\ handler' = [handler EXCEPT ![c] = "sending"]
  /\ runs' = [runs EXCEPT ![c] = @ + 1]
  /\ survived' = [survived EXCEPT ![c] = InNetwork(c)]
  /\ UNCHANGED <<network, process, drained, outcome>>

ReceiveReply(c) ==
  /\ pc[c] = "waiting" /\ handler[c] = "sending"
  /\ Goto(c, "checking")
  /\ replyOK' = [replyOK EXCEPT ![c] = TRUE]
  /\ handler' = [handler EXCEPT ![c] = "ended"]
  /\ UNCHANGED <<network, local, drained, history>>

BadIsServerDead(c) == ~enabled[EndOf[c]]

isServerDead(c) == ~enabled[EndOf[c]] \/ ~InNetwork(c)

BadDrains == FALSE

Drains == TRUE

\* Every 100 ms it is checked whether the server is dead.
Poll(c) ==
  /\ pc[c] = "waiting" /\ isServerDead(c)
  /\ Goto(c, "checking")
  /\ drained' = [drained EXCEPT ![c] = Drains]
  /\ UNCHANGED <<network, local, replyOK, handler, history>>

Drain(c) ==
  /\ drained[c] /\ handler[c] = "sending"
  /\ handler' = [handler EXCEPT ![c] = "ended"]
  /\ UNCHANGED <<network, process, drained, history>>

BadRefuses(c) == isServerDead(c)

Refuses(c) == ~replyOK[c] \/ isServerDead(c)

\* The last check, and a reply that the network loses.
CheckAgain(c) ==
  /\ pc[c] = "checking"
  /\ \/ Goto(c, IF Refuses(c) THEN "failing" ELSE "replying")
     \/ ~local[c].reliable /\ Goto(c, "failing")
  /\ UNCHANGED <<network, local, replyOK, dispatch, history>>

\* The reply is handed over, perhaps after a long delay, and Call returns.
Return(c) ==
  /\ pc[c] \in {"failing", "replying"}
  /\ Goto(c, "returned")
  /\ outcome' = [outcome EXCEPT ![c] = IF pc[c] = "replying" THEN "true" ELSE "false"]
  /\ UNCHANGED <<network, local, replyOK, dispatch, runs, survived>>

-----------------------------------------------------------------------------
Tester ==
  \/ \E e \in End : \/ MakeEnd(e) \/ \E n \in Name : Connect(e, n)
                    \/ \E on \in BOOLEAN : Enable(e, on)
  \/ \E n \in Name : AddServer(n) \/ DeleteServer(n)
  \/ \E yes \in BOOLEAN : Reliable(yes)
  \/ Cleanup \/ StopServing

Process(c) ==
  \/ readEndnameInfo(c) \/ DropRequest(c) \/ StartHandler(c) \/ ReceiveReply(c) \/ Poll(c)
  \/ CheckAgain(c) \/ Return(c)

NetNext ==
  \/ Tester
  \/ \E c \in Rpc : \/ Send(c) \/ SendFails(c) \/ Process(c)
                    \/ HandlerReturns(c) \/ Drain(c)

NetSpec == NetInit /\ [][NetNext]_netVars

\* The goroutines of the network are scheduled and its timers fire; a handler may
\* never return.
NetFairness == \A c \in Rpc : WF_netVars(Process(c)) /\ WF_netVars(Drain(c))

NetFairSpec == NetSpec /\ NetFairness

-----------------------------------------------------------------------------
O == INSTANCE AtMostOnce WITH begun <- {c \in Rpc : pc[c] # "new"}

\* A handler runs at most once, and Call returns true only after it ran.
ImplementsAtMostOnce == O!OSpec

\* A positive reply comes from a server that had not been deleted or replaced when
\* its handler returned.
ReplyFromTheLiving == \A c \in Rpc : outcome[c] = "true" => survived[c]
=============================================================================
