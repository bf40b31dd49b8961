------------------------------ MODULE TpuLaunch ------------------------------
(***************************************************************************)
(* A notebook's calls of the TPU coordinator, the launcher process and the  *)
(* rank processes each call starts in a process group of their own, and the *)
(* files of output_dir through which they answer (_tpu_coordinator.py,      *)
(* scripts/trainlm_tpu_worker.py, scripts/trainlm_tpu_training.py).         *)
(*                                                                         *)
(* A rank is at a place of its procedure; collectives move all ranks of a   *)
(* request at once and wait for the last.  The TPU driver is external: a    *)
(* device belongs to one process, and a rank that dumps core says so in the *)
(* log.  A kernel that dies leaves its process group behind.                *)
(***************************************************************************)
EXTENDS Integers, Sequences, SequencesExt, FiniteSets

Stages == {"train", "probe", "model_preflight"}

CONSTANTS
  Ranks,        \* the ranks of the VM, 0 among them
  MaxRequests,  \* bound: calls of the coordinator
  Plans,        \* the stages these calls may run, in order
  Steps,        \* updates of a training
  Limit,        \* heartbeats without news a diagnostic stage may last
  MaxFaults     \* bound: flaws, failures, hangs and core dumps

ASSUME LaunchAssumption ==
  /\ Ranks \subseteq Nat /\ 0 \in Ranks
  /\ MaxRequests \in Nat \ {0} /\ Plans \subseteq [1 .. MaxRequests -> Stages]
  /\ Steps \in Nat \ {0} /\ Limit \in Nat \ {0}
  /\ MaxFaults \in Nat

VARIABLES
  pc,        \* the notebook: idle, or the part of run() it is in
  kind,      \* kind[n]: the stage that request n runs
  flaw,      \* flaw[n]: what of request n the ranks will refuse, if anything
  cause,     \* why the process group is being terminated
  quiet,     \* heartbeats since the last new line of the log (inactive)
  news,      \* the log has a line the last heartbeat did not see
  launcher,  \* launcher[n]: none, starting, joining, ok, error, killed
  place,     \* place[n][r]: where rank r of request n is
  step,      \* updates made by the ranks of request n
  termed,    \* requests whose process group was sent SIGTERM
  summary,   \* the request whose rank 0 wrote summary.json, 0 if none did
  metrics,   \* the lines of metrics.jsonl, by the request that wrote them
  marker,    \* train.log holds a fatal shutdown marker
  faults,    \* what has gone wrong so far
  got,       \* the worker summary that run() has read
  record     \* coordinator_summary.json

call == <<kind, flaw, got>>
notebook == <<pc, call, cause, quiet>>
group == <<launcher, place, step, termed>>
files == <<summary, metrics, marker, record>>
vars == <<notebook, news, faults, group, files>>

Requests == 1 .. MaxRequests
Flaws == {"none", "data", "model", "optimizer", "position"}
Places == {"none", "spawned", "entered", "probed", "built",
           "training", "timed", "written", "done",
           "failed", "cored", "hung", "killed"}

\* The request made last.
Current == Cardinality({n \in Requests : launcher[n] # "none"})
\* A stage with an inactivity limit.
Limited(n) == kind[n] \in {"probe", "model_preflight"}
Ended(n) == launcher[n] \in {"ok", "error", "killed"}
Gone == {"none", "done", "failed", "cored", "killed"}
Alive(n, r) == place[n][r] \notin Gone
Waiting == pc = "wait"
\* Request n writes a line in the log of its stage; only the wait for a
\* limited stage asks whether there was one.
Logged(n) ==
  news' = (news \/ (Waiting /\ Limited(Current) /\ kind[n] = kind[Current]))
\* One of the faults the bound allows.
Faulty == faults < MaxFaults /\ faults' = faults + 1
NoRecord == [run |-> 0, status |-> "none", worker |-> 0, metrics |-> <<>>]

TypeOK ==
  /\ pc \in {"idle", "wait", "terminate", "reap", "fail", "read", "publish"}
  /\ kind \in [Requests -> Stages] /\ flaw \in [Requests -> Flaws]
  /\ cause \in {"none", "exit", "silence", "interrupt"}
  /\ faults \in 0 .. MaxFaults
  /\ quiet \in 0 .. Limit /\ news \in BOOLEAN /\ marker \in BOOLEAN
  /\ launcher \in [Requests ->
       {"none", "starting", "joining", "ok", "error", "killed"}]
  /\ place \in [Requests -> [Ranks -> Places]]
  /\ step \in [Requests -> 0 .. Steps]
  /\ termed \subseteq Requests
  /\ summary \in 0 .. MaxRequests /\ got \in 0 .. MaxRequests
  /\ metrics \in BoundedSeq(Requests, 2 * Steps)
  /\ record.run \in 0 .. MaxRequests
  /\ record.status \in {"none", "failed", "completed"}

Init ==
  /\ pc = "idle" /\ cause = "none" /\ quiet = 0 /\ got = 0 /\ faults = 0
  /\ kind \in Plans
  /\ flaw = [n \in Requests |-> "none"]
  /\ news = FALSE /\ marker = FALSE
  /\ launcher = [n \in Requests |-> "none"]
  /\ place = [n \in Requests |-> [r \in Ranks |-> "none"]]
  /\ step = [n \in Requests |-> 0]
  /\ termed = {} /\ summary = 0 /\ metrics = <<>> /\ record = NoRecord

-----------------------------------------------------------------------------
(* The coordinator.                                                         *)

\* run() and _run_stage(): the log is opened anew, the launcher started in a
\* session of its own.  (The flaw of a request is forgotten with its ranks.)
Call(f) ==
  LET n == Current + 1 IN
  /\ pc = "idle" /\ n \in Requests
  /\ IF f = "none" THEN UNCHANGED faults ELSE kind[n] = "train" /\ Faulty
  /\ pc' = "wait" /\ cause' = "none" /\ quiet' = 0 /\ got' = 0
  /\ flaw' = [m \in Requests |->
       IF m = n THEN f
       ELSE IF \E r \in Ranks : Alive(m, r) THEN flaw[m] ELSE "none"]
  /\ launcher' = [launcher EXCEPT ![n] = "starting"]
  /\ marker' = FALSE /\ news' = Limited(n)
  /\ UNCHANGED <<kind, place, step, termed, summary, metrics, record>>

Beat_AnyLine ==
  /\ Waiting /\ Limited(Current) /\ ~ Ended(Current) /\ quiet < Limit
  /\ quiet' = 0
  /\ news' = FALSE
  /\ UNCHANGED <<faults, pc, call, cause, group, files>>

\* A heartbeat of a limited stage: a changed last line sets the count back.
Beat ==
  /\ Waiting /\ Limited(Current) /\ ~ Ended(Current) /\ quiet < Limit
  /\ quiet' = IF news THEN 0 ELSE quiet + 1
  /\ news' = FALSE
  /\ UNCHANGED <<faults, pc, call, cause, group, files>>

\* No progress for the limit: TimeoutExpired.
Silence ==
  /\ Waiting /\ Limited(Current) /\ ~ Ended(Current) /\ quiet = Limit
  /\ pc' = "terminate" /\ cause' = "silence"
  /\ quiet' = 0 /\ news' = FALSE
  /\ UNCHANGED <<faults, call, group, files>>

\* KeyboardInterrupt, or another BaseException, in the wait.
Interrupt ==
  /\ Waiting
  /\ pc' = "terminate" /\ cause' = "interrupt"
  /\ quiet' = 0 /\ news' = FALSE
  /\ UNCHANGED <<faults, call, group, files>>

\* The launcher has exited: its code first, then the markers of a fatal
\* shutdown of a rank that the code hides.
Failing == IF kind[Current] = "train" THEN "fail" ELSE "idle"
AfterExit_NoMarkers ==
  IF launcher[Current] # "ok" THEN "terminate"
  ELSE IF kind[Current] = "train" THEN "read" ELSE "idle"
AfterExit ==
  IF launcher[Current] # "ok" THEN "terminate"
  ELSE IF marker THEN Failing
  ELSE IF kind[Current] = "train" THEN "read" ELSE "idle"
Exited ==
  /\ Waiting /\ Ended(Current)
  /\ pc' = AfterExit /\ cause' = "exit"
  /\ quiet' = 0 /\ news' = FALSE
  /\ UNCHANGED <<faults, call, group, files>>

\* _terminate_process_group: SIGTERM to the group, ten seconds for the
\* launcher, SIGKILL to the group if it is still there.
Terminate ==
  /\ pc = "terminate"
  /\ pc' = "reap" /\ termed' = termed \union {Current}
  /\ UNCHANGED <<faults, call, cause, quiet, news, launcher, place, step>>
  /\ UNCHANGED files
AfterReap == IF cause = "interrupt" THEN "idle" ELSE Failing
Reaped ==
  /\ pc = "reap" /\ Ended(Current)
  /\ pc' = AfterReap
  /\ UNCHANGED <<faults, call, cause, quiet, news, group, files>>
KillGroup ==
  /\ pc = "reap" /\ ~ Ended(Current)
  /\ launcher' = [launcher EXCEPT ![Current] = "killed"]
  /\ place' = [place EXCEPT ![Current] =
       [r \in Ranks |-> IF Alive(Current, r) THEN "killed" ELSE @[r]]]
  /\ pc' = AfterReap
  /\ UNCHANGED <<faults, call, cause, quiet, news, step, termed, files>>

\* A failed training writes its record and raises.
Fail ==
  /\ pc = "fail"
  /\ record' = [NoRecord EXCEPT !.run = Current, !.status = "failed"]
  /\ pc' = "idle"
  /\ UNCHANGED <<faults, call, cause, quiet, news, group, summary, metrics,
                 marker>>

\* The worker's summary is read, if there is one, and then its metrics.
ReadSummary ==
  /\ pc = "read"
  /\ got' = summary
  /\ pc' = IF summary = 0 THEN "fail" ELSE "publish"
  /\ UNCHANGED <<faults, kind, flaw, cause, quiet, news, group, files>>
Publish ==
  /\ pc = "publish"
  /\ record' = [run |-> Current, status |-> "completed", worker |-> got,
                metrics |-> metrics]
  /\ pc' = "idle"
  /\ UNCHANGED <<faults, call, cause, quiet, news, group, summary, metrics,
                 marker>>

\* The notebook's kernel dies and is restarted; its groups live on.
KernelDies ==
  /\ pc \notin {"idle"}
  /\ pc' = "idle"
  /\ quiet' = 0 /\ news' = FALSE
  /\ UNCHANGED <<faults, call, cause, group, files>>

-----------------------------------------------------------------------------
(* The launcher.                                                            *)

\* Arguments and shards are in order: one process per rank.
Spawn(n) ==
  /\ launcher[n] = "starting"
  /\ launcher' = [launcher EXCEPT ![n] = "joining"]
  /\ place' = [place EXCEPT ![n] = [r \in Ranks |-> "spawned"]]
  /\ Logged(n)
  /\ UNCHANGED <<faults, notebook, step, termed, files>>
\* parse_args, the shard validation or the import of XLA failed.
LauncherFails(n) ==
  /\ launcher[n] = "starting"
  /\ launcher' = [launcher EXCEPT ![n] = "error"]
  /\ UNCHANGED <<notebook, news, place, step, termed, files>>
  /\ Faulty

\* launch() returns when every rank has: a rank that dumped core while it
\* shut down may be reported as a success.
JoinOk(n) ==
  /\ launcher[n] = "joining"
  /\ \A r \in Ranks : place[n][r] \in {"done", "cored"}
  /\ launcher' = [launcher EXCEPT ![n] = "ok"]
  /\ UNCHANGED <<faults, notebook, news, place, step, termed, files>>
\* It raises when some rank has; the other ranks may be alive.
JoinError(n) ==
  /\ launcher[n] = "joining"
  /\ \E r \in Ranks : place[n][r] \in {"failed", "cored", "killed"}
  /\ launcher' = [launcher EXCEPT ![n] = "error"]
  /\ UNCHANGED <<faults, notebook, news, place, step, termed, files>>

-----------------------------------------------------------------------------
(* The ranks.                                                               *)

Move(n, r, from, to) ==
  /\ place[n][r] = from
  /\ place' = [place EXCEPT ![n][r] = to]
  /\ UNCHANGED <<notebook, launcher, step, termed>>
Local(n, r, from, to) ==
  /\ kind[n] = "train" /\ Move(n, r, from, to) /\ Logged(n)
\* A collective: every rank of the request is at the same place.
Together(n, from, to) ==
  /\ \A r \in Ranks : place[n][r] = from
  /\ place' = [place EXCEPT ![n] = [r \in Ranks |-> to]]
  /\ UNCHANGED <<notebook, launcher, termed>>

\* The device is free: torch_xla gives the process its rank.  Assumed: to
\* start takes less time than to train, so that an orphan that is late finds
\* the device of its rank taken.
Fresh == {"none", "spawned"}
Free(n, r) == \A m \in Requests \ {n} :
  IF m < n THEN place[m][r] \in Gone \union Fresh ELSE place[m][r] \in Fresh
Enter(n, r) ==
  /\ Free(n, r) /\ Move(n, r, "spawned", "entered") /\ Logged(n)
  /\ UNCHANGED files
\* The driver refuses a device that another process holds.
Refused(n, r) ==
  /\ ~ Free(n, r) /\ Move(n, r, "spawned", "failed") /\ Logged(n)
  /\ UNCHANGED files
\* The sum of rank + 1 over all ranks is as expected.
Probe(n) ==
  /\ Together(n, "entered", "probed") /\ Logged(n)
  /\ UNCHANGED <<step, files>>
Preflight(n, r) ==
  /\ kind[n] = "model_preflight" /\ Move(n, r, "probed", "written")
  /\ Logged(n) /\ UNCHANGED files
\* What a rank checks while it sets up: every rank finds the same, and raises
\* on its own.
EnoughBatches(n) == flaw[n] # "data"
ModelFits(n) == flaw[n] # "model"
OptimizerMatches(n) == flaw[n] # "optimizer"
PositionInSchedule(n) == flaw[n] # "position"
Sound(n) ==
  /\ EnoughBatches(n) /\ ModelFits(n) /\ OptimizerMatches(n)
  /\ PositionInSchedule(n)
Setup(n, r) ==
  /\ Local(n, r, "probed", IF Sound(n) THEN "built" ELSE "failed")
  /\ UNCHANGED files
\* on_train_begin: rank 0 removes the metrics of an earlier training.
TrainBegin(n, r) ==
  /\ Local(n, r, "built", "training")
  /\ metrics' = IF r = 0 THEN <<>> ELSE metrics
  /\ UNCHANGED <<summary, marker, record>>
\* One update: gradients are reduced over all ranks, rank 0 logs a line.
Update(n) ==
  /\ step[n] < Steps /\ Together(n, "training", "training")
  /\ step' = [step EXCEPT ![n] = @ + 1]
  /\ metrics' = Append(metrics, n)
  /\ Logged(n) /\ UNCHANGED <<summary, marker, record>>
\* The loop is over: the slowest rank's time, reduced over all.
Timing(n) ==
  /\ step[n] = Steps /\ Together(n, "training", "timed")
  /\ UNCHANGED <<step, news, files>>
Write(n, r) ==
  /\ Local(n, r, "timed", "written")
  /\ summary' = IF r = 0 THEN n ELSE summary
  /\ UNCHANGED <<metrics, marker, record>>
\* The rendezvous at the end of each mode.
Leave(n) ==
  /\ Together(n, IF kind[n] = "probe" THEN "probed" ELSE "written", "done")
  /\ UNCHANGED <<step, news, files>>

\* An exception, a hang in the runtime or the compiler, a core dump.
RankFails(n, r) ==
  /\ Alive(n, r) /\ place[n][r] # "hung"
  /\ Move(n, r, place[n][r], "failed") /\ Logged(n) /\ UNCHANGED files
  /\ Faulty
RankHangs(n, r) ==
  /\ Alive(n, r) /\ place[n][r] # "hung"
  /\ Move(n, r, place[n][r], "hung") /\ UNCHANGED <<news, files>>
  /\ Faulty
RankCores(n, r) ==
  /\ Alive(n, r) \/ (place[n][r] = "done" /\ launcher[n] = "joining")
  /\ Move(n, r, place[n][r], "cored")
  /\ marker' = TRUE /\ Logged(n) /\ UNCHANGED <<summary, metrics, record>>
  /\ Faulty

\* SIGTERM takes effect on the launcher, or on a rank.
LauncherDies(n) ==
  /\ n \in termed /\ launcher[n] \in {"starting", "joining"}
  /\ launcher' = [launcher EXCEPT ![n] = "killed"]
  /\ UNCHANGED <<faults, notebook, news, place, step, termed, files>>
RankDies(n, r) ==
  /\ n \in termed /\ Alive(n, r)
  /\ Move(n, r, place[n][r], "killed") /\ UNCHANGED <<faults, news, files>>

-----------------------------------------------------------------------------
Coordinate ==
  \/ Beat \/ Silence \/ Exited \/ Terminate \/ Reaped \/ KillGroup
  \/ Fail \/ ReadSummary \/ Publish
Join(n) == Spawn(n) \/ JoinOk(n) \/ JoinError(n)
RankStep(n, r) ==
  \/ Enter(n, r) \/ Refused(n, r) \/ Preflight(n, r) \/ Setup(n, r)
  \/ TrainBegin(n, r) \/ Write(n, r)
Collective(n) == Probe(n) \/ Update(n) \/ Timing(n) \/ Leave(n)
RanksGoOn(n) ==
  /\ Collective(n) \/ \E r \in Ranks : RankStep(n, r)
  /\ UNCHANGED faults
Fault(n) ==
  \/ LauncherFails(n) \/ LauncherDies(n)
  \/ \E r \in Ranks : RankFails(n, r) \/ RankHangs(n, r) \/ RankCores(n, r)
                      \/ RankDies(n, r)
Next ==
  \/ \E f \in Flaws : Call(f)
  \/ Coordinate \/ Interrupt \/ KernelDies
  \/ \E n \in Requests :
       Join(n) \/ RanksGoOn(n) \/ Fault(n)

\* The operating system runs every process: work that can go on does, unless
\* the process hangs.  Nobody has to interrupt, and nothing has to fail.
Work == \E n \in Requests : Join(n) \/ RanksGoOn(n)
Spec == Init /\ [][Next]_vars /\ WF_vars(Coordinate) /\ WF_vars(Work)

-----------------------------------------------------------------------------
\* A completed record is about its own request: the summary and every line of
\* metrics come from it, and all its ranks went through to the end, whatever
\* earlier calls and orphaned ranks left in output_dir
\* (_TPUCoordinator.run, _run_stage, PrintMetrics.on_train_begin).
CompletedIsOurs ==
  record.status = "completed" =>
    /\ record.worker = record.run
    /\ record.metrics = [i \in 1 .. Steps |-> record.run]
    /\ \A r \in Ranks : place[record.run][r] = "done"

\* A call comes back, however its ranks fail; a training whose rank hangs is
\* the exception, as it has no limit (_wait_with_heartbeat, timeout).
Stuck == kind[Current] = "train" /\ \E r \in Ranks : place[Current][r] = "hung"
CallEnds == pc # "idle" ~> (pc = "idle" \/ Stuck)

\* "On worker failure ... it terminates the launcher and all spawned ranks,
\* escalating to SIGKILL after a bounded grace period": the termination of a
\* failed training's group does not come back with a rank of it hanging
\* (_run_stage, _terminate_process_group).
Reclaimed ==
  [][pc = "reap" /\ pc' = "fail" =>
       \A r \in Ranks : place'[Current][r] # "hung"]_vars
=============================================================================
