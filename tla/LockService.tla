---------------------------- MODULE LockService ----------------------------
(***************************************************************************)
(* What the lock service promises: every call of Lock or Unlock takes      *)
(* effect once, between its beginning and its end, on one queue per key.   *)
(* The clerk at the head of a queue owns the key.                          *)
(***************************************************************************)
EXTENDS Integers, Sequences

CONSTANTS Clerk, Key, Script

VARIABLES queue,
          called, done, returned   \* per clerk: how many calls have begun,
                                   \* taken effect, ended

svars == <<queue, called, done, returned>>

SInit ==
  /\ queue = [k \in Key |-> <<>>]
  /\ called = [c \in Clerk |-> 0]
  /\ done = [c \in Clerk |-> 0]
  /\ returned = [c \in Clerk |-> 0]

Begin(c) ==
  /\ returned[c] = called[c] /\ called[c] < Len(Script[c])
  /\ called' = [called EXCEPT ![c] = @ + 1]
  /\ UNCHANGED <<queue, done, returned>>

Waits(c, k) == \E i \in DOMAIN queue[k] : queue[k][i] = c

TakeEffect(c) ==
  LET call == Script[c][called[c]] IN
  /\ done[c] < called[c]
  /\ done' = [done EXCEPT ![c] = @ + 1]
  /\ queue' =
       IF call.type = "Unlock"
       THEN [queue EXCEPT ![call.key] = SelectSeq(@, LAMBDA d : d # c)]
       ELSE IF Waits(c, call.key) THEN queue
       ELSE [queue EXCEPT ![call.key] = Append(@, c)]
  /\ UNCHANGED <<called, returned>>

End(c) ==
  /\ returned[c] < done[c]
  /\ returned' = [returned EXCEPT ![c] = @ + 1]
  /\ UNCHANGED <<queue, called, done>>

SNext == \E c \in Clerk : Begin(c) \/ TakeEffect(c) \/ End(c)

SSpec == SInit /\ [][SNext]_svars
=============================================================================
