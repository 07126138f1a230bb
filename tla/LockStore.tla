----------------------------- MODULE LockStore -----------------------------
(***************************************************************************)
(* src/raft-lock/lockStore.go and the part of server.go that every replica *)
(* computes alike: what an entry of the log does to the queues of clerks,  *)
(* one per key, and to the request ids that were applied last.  An entry   *)
(* is a record of a clerk, the number of its request, an operation and a   *)
(* key.                                                                    *)
(***************************************************************************)
EXTENDS Integers, Sequences

CONSTANTS Clerk, Key, None

ASSUME NoneAssumption == None \notin Clerk

Op == [clerk : Clerk, req : Nat \ {0}, type : {"Lock", "Unlock"}, key : Key]

EmptyMachine ==
  [store |-> [k \in Key |-> <<>>], last |-> [c \in Clerk |-> 0]]

exists(queue, id) == \E i \in DOMAIN queue : queue[i] = id

\* The id at the head of the queue.
getLockOwner(store, key) == IF store[key] = <<>> THEN None ELSE Head(store[key])

\* A clerk waits once.
lock(store, key, id) ==
  IF exists(store[key], id) THEN store
  ELSE [store EXCEPT ![key] = Append(@, id)]

\* Every place of the clerk in the queue is given up, the head or another.
unlock(store, key, id) ==
  [store EXCEPT ![key] = SelectSeq(@, LAMBDA elem : elem # id)]

\* Not a retry of a request that was applied already.
Fresh(m, op) == op.req > m.last[op.clerk]

Applied(m, op) ==
  IF Fresh(m, op)
  THEN [store |-> IF op.type = "Lock" THEN lock(m.store, op.key, op.clerk)
                  ELSE unlock(m.store, op.key, op.clerk),
        last |-> [m.last EXCEPT ![op.clerk] = op.req]]
  ELSE m
=============================================================================
