------------------------------- MODULE MCRaft -------------------------------
(***************************************************************************)
(* Raft, instantiated.  What a conflict of logs takes, entries of two      *)
(* leaders at one index and a third leader who repairs it, is far from the *)
(* start: the run on agreement begins at the start and, besides, in a      *)
(* state that Raft reaches from there, in which two logs have diverged.    *)
(***************************************************************************)
EXTENDS Raft, TLC

Symmetry == Permutations(Server) \cup Permutations(Command)

\* Peer i was elected in term 1 and appended a, which reached nobody.  Then j was
\* elected by the others, deposed i with its request, and appended b, which has
\* not been sent yet.  The first calls of both are lost.
Diverged(i, j, a, b) ==
  LET own == [p \in {i, j} |-> [term |-> IF p = i THEN 1 ELSE 2,
                                command |-> IF p = i THEN a ELSE b]]
      Own(p, q) == p \in {i, j} /\ p = q
  IN  /\ state = [p \in Server |-> IF p = j THEN "Leader" ELSE "Follower"]
      /\ currentTerm = [p \in Server |-> 2]
      /\ votedFor = [p \in Server |-> IF p = i THEN Nil ELSE j]
      /\ votes = [p \in Server |-> IF p \in {i, j} THEN 2 ELSE 0]
      /\ log = [p \in Server |-> IF p \in {i, j} THEN <<Dummy, own[p]>> ELSE <<Dummy>>]
      /\ nextIndex = [p \in Server |-> [q \in Server |-> IF Own(p, q) THEN 2 ELSE 1]]
      /\ matchIndex = [p \in Server |-> [q \in Server |-> IF Own(p, q) THEN 1 ELSE 0]]

\* Nothing is under way or applied.  One more election fits into the bound.
MCDiverged ==
  /\ \E i, j \in Server, a, b \in Command : i # j /\ a # b /\ Diverged(i, j, a, b)
  /\ commitIndex = [i \in Server |-> 0]
  /\ lastApplied = [i \in Server |-> 0]
  /\ applied = [i \in Server |-> <<>>]
  /\ delivered = {}
  /\ persisted = [i \in Server |-> [log |-> <<Dummy>>, currentTerm |-> 0,
                                    votedFor |-> Nil]]
  /\ requests = NoCalls
  /\ replies = NoCalls
  /\ elections = MaxElections - 1
  /\ restarts = 0

\* Bounds of the run: a leader appends one entry in a term.  The term after the two
\* of the diverged logs is without restarts, and only then logs have two entries.
MCWithin ==
  \A i \in Server :
    /\ \A k \in 1..LastIndex(log[i]) : At(log[i], k - 1).term < At(log[i], k).term
    /\ currentTerm[i] > MaxElections => restarts = 0
    /\ Len(log[i]) = MaxLogLen => currentTerm[i] > MaxElections

MCSpec == (Init \/ MCDiverged) /\ [][Next /\ MCWithin']_vars
=============================================================================
