----------------------------- MODULE MapReduce -----------------------------
(***************************************************************************)
(* The coordinator of src/mr/coordinator.go, the workers of                *)
(* src/mr/worker.go and the files they share.  The coordinator's handlers  *)
(* run under its mutex and are one action each.  A worker takes a step per *)
(* file it creates, reads or writes to, and may die between any two.       *)
(***************************************************************************)
EXTENDS Integers, Sequences, FiniteSets

CONSTANTS Worker,    \* worker processes
          NMap,      \* input files, one map task each
          NReduce,   \* reduce tasks
          Emit,      \* the keys that mapf emits for each input file, in order
          Part,      \* ihash(key) % NReduce
          Absent,    \* a file that does not exist, a worker without a task
          MaxCrash,  \* bound: workers that die
          MaxLate    \* bound: timers that fire on a live worker's task

MapId == 0 .. NMap - 1
ReduceId == 0 .. NReduce - 1
Kind == {"map", "reduce"}
Task == ({"map"} \X MapId) \cup ({"reduce"} \X ReduceId)

\* The j-th pair that mapf emits for file m, and its key.
Pair == UNION {{m} \X (1 .. Len(Emit[m])) : m \in MapId}
Key(p) == Emit[p[1]][p[2]]

ASSUME JobAssumption ==
  /\ NMap \in Nat \ {0} /\ NReduce \in Nat \ {0}
  /\ MaxCrash \in Nat /\ MaxLate \in Nat
  /\ DOMAIN Part \subseteq Nat /\ Part \in [DOMAIN Part -> ReduceId]
  /\ Emit \in [MapId -> Seq(DOMAIN Part)]
  /\ Absent \notin Task /\ Absent \notin Seq(Pair)

VARIABLES status,   \* Task.status
          left,     \* mapsLeft and reducesLeft
          timers,   \* goroutines of DetectStraggler asleep, per task
          running,  \* the coordinator process has not exited
          at,       \* where each worker is
          task,     \* the task it has
          step,     \* the loop index of DoMap and DoReduce
          got,      \* the pairs that DoReduce has read
          inter,    \* the intermediate files mr-m-r
          out,      \* the lines of the output files mr-out-r
          crashes, late,
          shared    \* tasks given out while a live worker had them (history)

coordinator == <<status, left, timers, running>>
worker == <<at, task, step, got>>
files == <<inter, out>>
jobVars == <<coordinator, worker, files, crashes, late, shared>>

Status == {"unstarted", "in progress", "completed"}
WorkerPlace ==
  {"ask", "create", "append", "read", "open", "write", "mark", "exit", "dead"}

-----------------------------------------------------------------------------
\* MakeCoordinator, workers that have just started, and no files.
JobStart ==
  /\ status = [t \in Task |-> "unstarted"]
  /\ left = [k \in Kind |-> IF k = "map" THEN NMap ELSE NReduce]
  /\ timers = [t \in Task |-> 0]
  /\ running = TRUE
  /\ at = [w \in Worker |-> "ask"] /\ task = [w \in Worker |-> Absent]
  /\ step = [w \in Worker |-> 0] /\ got = [w \in Worker |-> <<>>]
  /\ inter = [f \in MapId \X ReduceId |-> Absent]
  /\ out = [r \in ReduceId |-> {}]
  /\ crashes = 0 /\ late = 0 /\ shared = {}

MoveTo(w, p, i) == at' = [at EXCEPT ![w] = p] /\ step' = [step EXCEPT ![w] = i]

\* A live worker is at work on t.
Taken(t) == \E w \in Worker : task[w] = t /\ at[w] # "dead"

Unstarted(k) == {t \in Task : t[1] = k /\ status[t] = "unstarted"}

BadNextKind == IF Unstarted("map") # {} THEN "map" ELSE "reduce"

\* No reduce task is given out while a map task is left.
NextKind == IF left["map"] # 0 THEN "map" ELSE "reduce"

BadStartTimer(t) == IF t[1] = "map" THEN [timers EXCEPT ![t] = @ + 1] ELSE timers

StartTimer(t) == [timers EXCEPT ![t] = @ + 1]

\* GetTask gives out the first task that is not started, and nothing if there is
\* none: the worker asks again a second later.
Assign(w, t) ==
  /\ at[w] = "ask" /\ running
  /\ t \in Unstarted(NextKind) /\ \A u \in Unstarted(NextKind) : t[2] <= u[2]
  /\ status' = [status EXCEPT ![t] = "in progress"]
  /\ timers' = StartTimer(t)
  /\ task' = [task EXCEPT ![w] = t] /\ got' = [got EXCEPT ![w] = <<>>]
  /\ MoveTo(w, IF t[1] = "map" THEN "create" ELSE "read", 0)
  /\ shared' = IF Taken(t) THEN shared \cup {t} ELSE shared
  /\ UNCHANGED <<left, running, files, crashes, late>>

BadAllDone == left["map"] = 0 /\ Unstarted("reduce") = {}

AllDone == left["map"] = 0 /\ left["reduce"] = 0

\* GetTask answers Done, and the worker leaves its loop.
Dismiss(w) ==
  /\ at[w] = "ask" /\ running /\ AllDone
  /\ MoveTo(w, "exit", 0)
  /\ UNCHANGED <<coordinator, task, got, files, crashes, late, shared>>

Resets(t) == status[t] = "in progress"

\* The timer of an assignment.  Whether its worker is dead or slow makes no
\* difference to the coordinator.
DetectStraggler(t) ==
  /\ timers[t] > 0 /\ running
  /\ timers' = [timers EXCEPT ![t] = @ - 1]
  /\ status' = IF Resets(t) THEN [status EXCEPT ![t] = "unstarted"] ELSE status
  /\ \/ ~(Resets(t) /\ Taken(t)) /\ UNCHANGED late
     \/ Resets(t) /\ Taken(t) /\ late < MaxLate /\ late' = late + 1
  /\ UNCHANGED <<left, running, worker, files, crashes, shared>>

BadCounts(t) == status[t] # "unstarted"

\* A completed task is not counted again, and a task that was taken back is not
\* counted until it is given out again.
Counts(t) == status[t] = "in progress"

MarkComplete(w) ==
  LET t == task[w] IN
  /\ at[w] = "mark" /\ running
  /\ status' = IF Counts(t) THEN [status EXCEPT ![t] = "completed"] ELSE status
  /\ left' = IF Counts(t) THEN [left EXCEPT ![t[1]] = @ - 1] ELSE left
  /\ MoveTo(w, "ask", 0) /\ task' = [task EXCEPT ![w] = Absent]
  /\ UNCHANGED <<timers, running, got, files, crashes, late, shared>>

\* Done, and the end of the coordinator's main program.
Done == left["reduce"] = 0

CoordinatorExits ==
  /\ running /\ Done
  /\ running' = FALSE
  /\ UNCHANGED <<status, left, timers, worker, files, crashes, late, shared>>

\* A call that cannot reach the coordinator ends the worker.
CallFails(w) ==
  /\ at[w] \in {"ask", "mark"} /\ ~running
  /\ MoveTo(w, "dead", 0)
  /\ UNCHANGED <<coordinator, task, got, files, crashes, late, shared>>

-----------------------------------------------------------------------------
BadEmpty(f) == IF inter[f] = Absent THEN <<>> ELSE inter[f]

\* os.Create empties a file that exists.
Empty(f) == <<>>

\* DoMap first creates, or empties, the file of every partition ...
CreateFile(w) ==
  LET m == task[w][2]
      f == <<m, step[w]>> IN
  /\ at[w] = "create"
  /\ inter' = [inter EXCEPT ![f] = Empty(f)]
  /\ \/ step[w] + 1 < NReduce /\ MoveTo(w, "create", step[w] + 1)
     \/ /\ step[w] + 1 = NReduce
        /\ MoveTo(w, IF Emit[m] = <<>> THEN "mark" ELSE "append", 0)
  /\ UNCHANGED <<coordinator, task, got, out, crashes, late, shared>>

\* ... then appends the pairs one by one.
AppendPair(w) ==
  LET m == task[w][2]
      p == <<m, step[w] + 1>>
      f == <<m, Part[Key(p)]>> IN
  /\ at[w] = "append"
  /\ inter' = [inter EXCEPT ![f] = IF @ = Absent THEN <<p>> ELSE Append(@, p)]
  /\ MoveTo(w, IF step[w] + 1 = Len(Emit[m]) THEN "mark" ELSE "append", step[w] + 1)
  /\ UNCHANGED <<coordinator, task, got, out, crashes, late, shared>>

\* DoReduce reads its part of every map task's output; it ends the worker if a
\* file is missing.
ReadFile(w) ==
  LET f == inter[<<step[w], task[w][2]>>] IN
  /\ at[w] = "read"
  /\ got' = IF f = Absent THEN got ELSE [got EXCEPT ![w] = @ \o f]
  /\ MoveTo(w, CASE f = Absent -> "dead"
                 [] f # Absent /\ step[w] + 1 < NMap -> "read"
                 [] OTHER -> "open",
             step[w] + 1)
  /\ UNCHANGED <<coordinator, task, files, crashes, late, shared>>

\* The pairs s grouped by key: a line holds a key and the bag of its values.
Keys(s) == {Key(s[i]) : i \in DOMAIN s}
Line(s, k) ==
  <<k, [p \in {q \in Pair : Key(q) = k} |-> Cardinality({i \in DOMAIN s : s[i] = p})]>>

CreateOutput(w) ==
  /\ at[w] = "open"
  /\ out' = [out EXCEPT ![task[w][2]] = {}]
  /\ MoveTo(w, IF got[w] = <<>> THEN "mark" ELSE "write", 0)
  /\ UNCHANGED <<coordinator, task, got, inter, crashes, late, shared>>

\* The lines are written in the order of the keys.
WriteLine(w) ==
  LET keys == Keys(got[w]) IN
  /\ at[w] = "write"
  /\ \E k \in keys :
       /\ Cardinality({x \in keys : x < k}) = step[w]
       /\ out' = [out EXCEPT ![task[w][2]] = @ \cup {Line(got[w], k)}]
  /\ MoveTo(w, IF step[w] + 1 = Cardinality(keys) THEN "mark" ELSE "write", step[w] + 1)
  /\ UNCHANGED <<coordinator, task, got, inter, crashes, late, shared>>

Crash(w) ==
  /\ at[w] \notin {"exit", "dead"} /\ crashes < MaxCrash
  /\ crashes' = crashes + 1
  /\ MoveTo(w, "dead", 0)
  /\ UNCHANGED <<coordinator, task, got, files, late, shared>>

Work(w) ==
  \/ \E t \in Task : Assign(w, t)
  \/ Dismiss(w) \/ MarkComplete(w) \/ CallFails(w)
  \/ CreateFile(w) \/ AppendPair(w)
  \/ ReadFile(w) \/ CreateOutput(w) \/ WriteLine(w)

JobNext ==
  \/ \E w \in Worker : Work(w) \/ Crash(w)
  \/ \E t \in Task : DetectStraggler(t)
  \/ CoordinatorExits

\* Workers that are alive go on, timers fire and the main program calls Done.
JobFairness ==
  /\ \A w \in Worker : WF_jobVars(Work(w))
  /\ \A t \in Task : WF_jobVars(DetectStraggler(t))
  /\ WF_jobVars(CoordinatorExits)

JobSpec == JobStart /\ [][JobNext]_jobVars

JobFairSpec == JobSpec /\ JobFairness

-----------------------------------------------------------------------------
\* Types of the coordinator's tables, of the workers and of the files.
JobTypeOK ==
  /\ status \in [Task -> Status] /\ left \in [Kind -> Nat]
  /\ timers \in [Task -> Nat] /\ running \in BOOLEAN
  /\ at \in [Worker -> WorkerPlace] /\ task \in [Worker -> Task \cup {Absent}]
  /\ step \in [Worker -> Nat] /\ got \in [Worker -> Seq(Pair)]
  /\ inter \in [MapId \X ReduceId -> Seq(Pair) \cup {Absent}]
  /\ DOMAIN out = ReduceId
  /\ crashes \in Nat /\ late \in Nat /\ shared \subseteq Task

Open(k) == {t \in Task : t[1] = k /\ status[t] # "completed"}

\* mapsLeft and reducesLeft count the tasks not completed, whoever completes a
\* task and however often it was given out.
CountersExact == \A k \in Kind : left[k] = Cardinality(Open(k))

\* The timer that fires is that of the present assignment: a task in progress
\* has exactly one, a task to be given out has none.
OneTimer ==
  \A t \in Task : /\ timers[t] <= 1
                  /\ status[t] = "in progress" => timers[t] = 1
                  /\ status[t] = "unstarted" => timers[t] = 0

\* A reduce task is given out only when all map tasks are completed, and then
\* DoReduce finds every file it opens.
ReduceAfterMap ==
  /\ \A r \in ReduceId : status[<<"reduce", r>>] # "unstarted" => Open("map") = {}
  /\ \A w \in Worker : at[w] = "read" => inter[<<step[w], task[w][2]>>] # Absent

\* A worker leaves its loop only when every task is completed.
ExitWhenDone == (\E w \in Worker : at[w] = "exit") => Open("map") \cup Open("reduce") = {}

\* What the sequential program writes: a line for every key.
SequentialOutput ==
  LET all == [p \in Pair |-> 1] IN
  {<<k, [p \in {q \in Pair : Key(q) = k} |-> all[p]]>> : k \in {Key(q) : q \in Pair}}

Expected(r) == {l \in SequentialOutput : Part[l[1]] = r}

\* The output of a completed reduce task is its part of the sequential output,
\* whatever died on the way, if neither it nor a map task was given to a second
\* worker while the first was still at work.
OutputRight ==
  \A r \in ReduceId :
    /\ status[<<"reduce", r>>] = "completed"
    /\ shared \cap (({"map"} \X MapId) \cup {<<"reduce", r>>}) = {}
    => out[r] = Expected(r)

\* The job is finished in the end, and all workers leave.
JobEnds == <>[](Done /\ \A w \in Worker : at[w] \in {"exit", "dead"})
=============================================================================
