---------------------------- MODULE MCMapReduce ----------------------------
(* MapReduce, instantiated: two input files, two reduce tasks, four pairs. *)
EXTENDS MapReduce

MCEmit == [m \in MapId |-> IF m = 0 THEN <<7, 4>> ELSE <<4, 2>>]
MCPart == [k \in {2, 4, 7} |-> k % NReduce]
=============================================================================
