------------------------------ MODULE MCLabRpc ------------------------------
(***************************************************************************)
(* The simulated network, instantiated, and what is asked of it.           *)
(***************************************************************************)
EXTENDS LabRpc, TLC

CONSTANTS e1

\* One call: calls share the network and nothing else, and a step of one changes
\* nothing that another reads.
MCEndOf == [c \in Rpc |-> e1]

Waits(c) == handler[c] = "running" /\ InNetwork(c)

\* Call returns unless its handler never does; and even then if the server is
\* deleted or replaced.
CallsReturn ==
  \A c \in Rpc : pc[c] = "sent" ~> (pc[c] = "returned" \/ []Waits(c))

\* The goroutine of a handler that has returned ends, also when nobody wants the
\* reply any more.
HandlersEnd == \A c \in Rpc : handler[c] = "sending" ~> handler[c] = "ended"
=============================================================================
