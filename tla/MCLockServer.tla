---------------------------- MODULE MCLockServer ----------------------------
(***************************************************************************)
(* The lock service, instantiated: two servers, two clerks, one key.       *)
(***************************************************************************)
EXTENDS LockServerProps, TLC

CONSTANTS s1, s2, c1, c2, k

MCScript ==
  (c1 :> <<[type |-> "Lock", key |-> k], [type |-> "Unlock", key |-> k]>>)
    @@ (c2 :> <<[type |-> "Lock", key |-> k]>>)
=============================================================================
