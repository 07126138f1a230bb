--------------------------- MODULE MCAggregators ---------------------------
(***************************************************************************)
(* Both aggregators of src/ws, instantiated.  The design is chosen in the  *)
(* initial state.                                                          *)
(***************************************************************************)
EXTENDS MutexAggregator, ChannelAggregator, FiniteSets, FiniteSetsExt

VARIABLE design

MCInit ==
  \/ design = "mutex" /\ MutexInit
  \/ design = "channel" /\ ChannelInit

MCReport(g) ==
  IF design = "mutex" THEN MutexReport(g) ELSE ChannelReport(g)

MCNext ==
  /\ \/ Environment
     \/ IF design = "mutex" THEN MutexStep ELSE ChannelStep
     \/ \E g \in Goroutine : MCReport(g)
  /\ UNCHANGED design

MCFairness ==
  /\ LoopFairness
  /\ \A g \in Goroutine : SF_weatherVars(MCReport(g))

MCSpec == MCInit /\ [][MCNext]_<<weatherVars, design>> /\ MCFairness

\* Two stations whose readings have different sums for different sets.
MCReading(s, b) == 2 ^ (2 * b) * (IF s = "s1" THEN 1 ELSE 2)

\* The goroutines that have asked about the present batch and are done: they can
\* only have handed their report over during it.
Reported == {g \in Goroutine : g[2] = batch /\ phase[g] = "finished"}

\* The sum and the count that are about to be divided are those of the reports of
\* the present batch that have come, each of them and no other: none is dropped
\* or counted twice, and a late one of an earlier batch is not counted, whether it
\* comes before a tick, between two batches or after quit.  What was sent on out
\* was the sum and the count of the reports that it is said to sum up.
AverageRight ==
  /\ total = MapThenSumSet(LAMBDA g : Reading(g[1], g[2]), Reported)
  /\ count = Cardinality(Reported)
  /\ \A i \in DOMAIN published :
       /\ published[i].total = MapThenSumSet(LAMBDA r : r.value, published[i].pool)
       /\ published[i].count = Cardinality(published[i].pool)

NobodyReads == place = "send" /\ ~reader

\* Once somebody sends on quit the aggregator returns, unless it waits for a
\* reader of out that has gone.
QuitEnds == quit ~> (place = "returned" \/ NobodyReads)

\* A goroutine whose station has answered ends, unless the loop waits for a
\* reader that has gone or, with channels, has returned.
GoroutinesEnd ==
  \A g \in Goroutine :
    phase[g] = "answered" ~>
      \/ phase[g] = "finished" \/ NobodyReads
      \/ design = "channel" /\ place = "returned"
=============================================================================
