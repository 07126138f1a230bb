----------------------------- MODULE AtMostOnce -----------------------------
(***************************************************************************)
(* What a remote call promises (the comment at the head of                 *)
(* src/labrpc/labrpc.go): its handler runs at most once, it returns at     *)
(* most once, and true only after the handler has run.  A call that        *)
(* returned false may have run, or may still run later.                    *)
(***************************************************************************)
EXTENDS Integers

CONSTANTS Rpc

VARIABLES begun, runs, outcome

ovars == <<begun, runs, outcome>>

OInit ==
  /\ begun = {}
  /\ runs = [c \in Rpc |-> 0]
  /\ outcome = [c \in Rpc |-> "none"]

OBegin(c) ==
  /\ c \notin begun
  /\ begun' = begun \cup {c}
  /\ UNCHANGED <<runs, outcome>>

ORun(c) ==
  /\ c \in begun /\ runs[c] = 0
  /\ runs' = [runs EXCEPT ![c] = 1]
  /\ UNCHANGED <<begun, outcome>>

OReturn(c, r) ==
  /\ c \in begun /\ outcome[c] = "none"
  /\ r = "true" => runs[c] = 1
  /\ outcome' = [outcome EXCEPT ![c] = r]
  /\ UNCHANGED <<begun, runs>>

ONext == \E c \in Rpc : OBegin(c) \/ ORun(c) \/ \E r \in {"true", "false"} : OReturn(c, r)

OSpec == OInit /\ [][ONext]_ovars
=============================================================================
