----------------------------- MODULE Aggregator -----------------------------
(***************************************************************************)
(* What an aggregator promises (src/ws/README.md and the comments on both  *)
(* functions): batches are published in order, each with reports that      *)
(* belong to it, one per station at most; late reports are ignored; after  *)
(* it has stopped it publishes nothing.                                    *)
(***************************************************************************)
EXTENDS Integers, Sequences

CONSTANTS Station, Reading(_, _)

VARIABLES batch, pool, published, stopped

avars == <<batch, pool, published, stopped>>

AInit == batch = 0 /\ pool = {} /\ published = <<>> /\ stopped = FALSE

Include(s) ==
  /\ \A r \in pool : r.station # s
  /\ pool' = pool \cup {[station |-> s, batch |-> batch,
                          value |-> Reading(s, batch)]}
  /\ UNCHANGED <<batch, published, stopped>>

Publish ==
  /\ ~stopped
  /\ published' = Append(published, [batch |-> batch, pool |-> pool])
  /\ batch' = batch + 1 /\ pool' = {}
  /\ UNCHANGED stopped

Stop == stopped' = TRUE /\ UNCHANGED <<batch, pool, published>>

ANext == (\E s \in Station : Include(s)) \/ Publish \/ Stop

ASpec == AInit /\ [][ANext]_avars
=============================================================================
