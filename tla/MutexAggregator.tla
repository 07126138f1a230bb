-------------------------- MODULE MutexAggregator --------------------------
(***************************************************************************)
(* src/ws/mutex_aggregator.go.  The goroutines add their reports up        *)
(* themselves, under a mutex that the loop holds from a tick until the     *)
(* next batch is started, the send on out included.  They do so whether    *)
(* the loop has returned or not.                                           *)
(***************************************************************************)
EXTENDS Weather

MutexInit == WeatherInit

MutexTick == TakeTick

MutexSend == SendAverage

MutexQuit == TakeQuit

\* The loop returns without giving the mutex back.
BadMutexReport(g) == place = "select" /\ HandOver(g)

MutexReport(g) == place # "send" /\ HandOver(g)

MutexStep == MutexTick \/ MutexSend \/ MutexQuit

MutexNext ==
  Environment \/ MutexStep \/ \E g \in Goroutine : MutexReport(g)

\* The goroutines are scheduled and the mutex starves nobody.
MutexFairness ==
  /\ LoopFairness
  /\ \A g \in Goroutine : SF_weatherVars(MutexReport(g))

MutexSpec == MutexInit /\ [][MutexNext]_weatherVars /\ MutexFairness
=============================================================================
