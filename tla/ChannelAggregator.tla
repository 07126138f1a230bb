------------------------- MODULE ChannelAggregator -------------------------
(***************************************************************************)
(* src/ws/channel_aggregator.go.  The goroutines send their reports on an  *)
(* unbuffered channel, from which only the select of the loop receives.    *)
(***************************************************************************)
EXTENDS Weather

ChannelInit == WeatherInit

ChannelTick == TakeTick

ChannelSend == SendAverage

ChannelQuit == TakeQuit

ChannelReport(g) == place = "select" /\ HandOver(g)

ChannelStep == ChannelTick \/ ChannelSend \/ ChannelQuit

ChannelNext ==
  Environment \/ ChannelStep \/ \E g \in Goroutine : ChannelReport(g)

\* The select is random, and the senders on a channel are served in turn.
ChannelFairness ==
  /\ LoopFairness
  /\ \A g \in Goroutine : SF_weatherVars(ChannelReport(g))

ChannelSpec == ChannelInit /\ [][ChannelNext]_weatherVars /\ ChannelFairness
=============================================================================
