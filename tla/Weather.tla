------------------------------ MODULE Weather ------------------------------
(***************************************************************************)
(* What the two aggregators of src/ws share: the stations, which answer a  *)
(* call early, late or never, the ticker, the reader of out and the sender *)
(* of quit; and the variables of the loop that both designs run.  A        *)
(* goroutine is named by the station and the batch it asks about.          *)
(***************************************************************************)
EXTENDS Integers, Sequences

CONSTANTS Station,
          MaxBatch,       \* bound: batches that are asked for and published
          Reading(_, _)   \* what a station measures for a batch

ASSUME WeatherAssumption ==
  /\ MaxBatch \in Nat
  /\ \A s \in Station, b \in 0 .. MaxBatch - 1 : Reading(s, b) \in Nat

Batch == 0 .. MaxBatch
Goroutine == Station \X (0 .. MaxBatch - 1)

VARIABLES batch, total, count,  \* the aggregator's own variables
          place,      \* its loop: in the select, sending on out, or returned
          phase,      \* of each goroutine: not started, waiting for the
                      \* station, with a report to hand over, finished
          tick,       \* a tick is in ticker.C, which holds one
          reader,     \* somebody receives from out
          quit,       \* somebody sends on quit
          pool,       \* the reports that total and count sum up (history)
          published   \* what was sent on out (history)

loop == <<batch, total, count, place>>
outside == <<tick, reader, quit>>
history == <<pool, published>>
weatherVars == <<loop, phase, outside, history>>

\* The goroutines that ask every station about batch b are started.
Asking(p, b) == [g \in Goroutine |-> IF g[2] = b THEN "asked" ELSE p[g]]

WeatherInit ==
  /\ batch = 0 /\ total = 0 /\ count = 0 /\ place = "select"
  /\ phase = Asking([g \in Goroutine |-> "none"], 0)
  /\ tick = FALSE /\ reader = TRUE /\ quit = FALSE
  /\ pool = {} /\ published = <<>>

\* getWeatherData returns: the station has answered, however late.
StationAnswers(g) ==
  /\ phase[g] = "asked"
  /\ phase' = [phase EXCEPT ![g] = "answered"]
  /\ UNCHANGED <<loop, outside, history>>

\* A tick that finds the channel full is dropped.
TickerFires ==
  /\ place # "returned" /\ ~tick
  /\ tick' = TRUE
  /\ UNCHANGED <<loop, phase, reader, quit, history>>

SendQuit ==
  /\ ~quit /\ place # "returned"
  /\ quit' = TRUE
  /\ UNCHANGED <<loop, phase, tick, reader, history>>

ReaderLeaves ==
  /\ reader
  /\ reader' = FALSE
  /\ UNCHANGED <<loop, phase, tick, quit, history>>

Environment ==
  \/ \E g \in Goroutine : StationAnswers(g)
  \/ TickerFires \/ SendQuit \/ ReaderLeaves

-----------------------------------------------------------------------------
\* The loop receives from ticker.C and goes on to send the average.
TakeTick ==
  /\ place = "select" /\ tick /\ batch < MaxBatch
  /\ tick' = FALSE /\ place' = "send"
  /\ UNCHANGED <<batch, total, count, phase, reader, quit, history>>

\* out is unbuffered: the send ends when the reader takes the average, which is
\* not a number when count is 0.  Then the next batch begins.
SendAverage ==
  /\ place = "send" /\ reader
  /\ published' = Append(published, [batch |-> batch, total |-> total,
                                     count |-> count, pool |-> pool])
  /\ total' = 0 /\ count' = 0 /\ pool' = {}
  /\ batch' = batch + 1 /\ place' = "select"
  /\ phase' = Asking(phase, batch + 1)
  /\ UNCHANGED outside

\* A break leaves the select and not the loop.
BadTakeQuit ==
  /\ place = "select" /\ quit
  /\ quit' = FALSE
  /\ UNCHANGED <<loop, phase, tick, reader, history>>

\* quit is unbuffered and received in the select only.
TakeQuit ==
  /\ place = "select" /\ quit
  /\ quit' = FALSE /\ place' = "returned"
  /\ UNCHANGED <<batch, total, count, phase, tick, reader, history>>

BadInTime(g) == TRUE

\* report.Batch == batch
InTime(g) == g[2] = batch

\* A report is added up if it belongs to the present batch.
HandOver(g) ==
  /\ phase[g] = "answered"
  /\ phase' = [phase EXCEPT ![g] = "finished"]
  /\ total' = IF InTime(g) THEN total + Reading(g[1], g[2]) ELSE total
  /\ count' = IF InTime(g) THEN count + 1 ELSE count
  /\ pool' = IF InTime(g)
             THEN pool \cup {[station |-> g[1], batch |-> g[2],
                               value |-> Reading(g[1], g[2])]}
             ELSE pool
  /\ UNCHANGED <<batch, place, outside, published>>

\* The loop is scheduled, and a select that is entered again and again chooses at
\* random among the channels that are ready.
LoopFairness == WF_weatherVars(SendAverage) /\ SF_weatherVars(TakeQuit)

-----------------------------------------------------------------------------
Stripped ==
  [i \in DOMAIN published |->
     [batch |-> published[i].batch, pool |-> published[i].pool]]

A == INSTANCE Aggregator WITH
       published <- Stripped, stopped <- place = "returned"

\* Both designs do what an aggregator promises.
ImplementsAggregator == A!ASpec
=============================================================================
