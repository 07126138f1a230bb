-------------------------- MODULE LockServerProps --------------------------
(***************************************************************************)
(* What is asked of LockServer.                                            *)
(***************************************************************************)
EXTENDS LockServer

\* Replicas that have applied equally much of the log hold the same queues and
\* have discarded the same retries, also after a restart.
StoresAgree == \A s \in Server : machine[s] = agreed[taken[s] + 1]

\* Calls take effect once and in order, whatever is lost, timed out and retried,
\* and return only after they have.
L == INSTANCE LockService WITH
       queue <- agreed[chosen + 1].store,
       called <- [c \in Clerk |-> ck[c].req],
       done <- agreed[chosen + 1].last,
       returned <- [c \in Clerk |->
                      IF ck[c].pc = "idle" THEN ck[c].req ELSE ck[c].req - 1]

ImplementsLockService == L!SSpec

Settled == elections = 0 /\ restarts = 0

\* While one leader serves, a clerk is given a key only after the clerk that was
\* given it before has called Unlock.
OneHolder ==
  Settled => \A c, d \in Clerk : c # d => holds[c] \cap holds[d] = {}

\* applyOpsLoop waits for rf.mu and Raft, which holds it, for applyOpsLoop.
Wedged(s) == Busy(s) /\ ~Room(s) /\ stage[s] \in {"event", "give"}

\* applyOpsLoop of s has done with entry i.
Finished(s, i) == i < taken[s] \/ (i = taken[s] /\ stage[s] = "wait")

\* While one leader serves, no clerk goes on before the leader has applied every
\* entry of its call, however often the call timed out and was sent again.  Being
\* wedged takes three unfinished entries, so that fewer than three clerks wedge
\* the leader only by sending a call again that has not failed.
CallsFinish ==
  Settled => \A i \in 1 .. Len(proposed) :
    LET c == proposed[i].clerk
    IN  Finished(FirstLeader, i) \/ (ck[c].pc # "idle" /\ ck[c].req = proposed[i].req)

\* A handler of Mutex returns, unless its server is wedged.
HandlersReturn ==
  \A c \in Clerk :
    ck[c].server # None ~> (ck[c].server = None \/ Wedged(ck[c].server))
=============================================================================
