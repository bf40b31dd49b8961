----------------------------- MODULE ScratchRun -----------------------------
(***************************************************************************)
(* The output directory of a from-scratch run (api.py) and its retention   *)
(* (checkpoint/retention.py): run_config.json binds the directory to one   *)
(* token budget, every checkpoint-N carries the configuration it was saved *)
(* under, and a budget extension moves both, one file at a time.           *)
(*                                                                         *)
(* A process is a TrainLMTrainer; one lives at a time and it may be killed *)
(* between any two file operations.  All settings but the token budget are *)
(* the same; budget b trains Horizon(b) updates.  Horizons are below 20,   *)
(* so the derived save cadence is one update.                              *)
(***************************************************************************)
EXTENDS Integers, FiniteSets

CONSTANTS
  Span,        \* updates that one unit of token budget pays for
  MaxBudget,   \* budgets are 1..MaxBudget
  Limit,       \* save_total_limit, 0 for None
  FileErrors,  \* which fail: "write" of run_config.json, "remove" of old files
  MaxRuns      \* bound of the model: how many processes are started

ASSUME ScratchAssumption ==
  /\ Span \in Nat \ {0}
  /\ MaxBudget \in Nat \ {0}
  /\ Limit \in Nat
  /\ FileErrors \subseteq {"write", "remove"}
  /\ MaxRuns \in Nat

VARIABLES
  config,     \* budget in run_config.json, or none
  configTmp,  \* is run_config.json.tmp there: "absent" or "present"
  state,      \* per step: budget in checkpoint-N/trainer_state.pt, or none
  horizon,    \* per step: where the schedule saved in that file ends
  leftover,   \* steps whose directory holds a trainer_state.pt.tmp
  marker,     \* per step: the ownership marker: none, tmp or marked
  pc,         \* where the process stands
  budget,     \* the budget it was constructed with
  active,     \* _run_configuration_manifest
  pending,    \* _pending_scratch_run_configuration, or none
  extended,   \* _scratch_budget_extension_checkpoint: "yes" or "no"
  step,       \* TrainerState.step
  schedule,   \* the step at which the cosine schedule ends
  doomed,     \* the checkpoints retention still has to remove
  runs,       \* how many processes were started
  published   \* history: has a checkpoint ever been published? "yes" or "no"

files == <<config, configTmp, state, horizon, leftover, marker>>
settings == <<budget, active, pending, extended>>
progress == <<step, schedule>>
vars == <<files, pc, settings, progress, doomed, runs, published>>

Budgets == 1..MaxBudget
none == 0
Horizon(b) == b * Span
Steps == 1..Horizon(MaxBudget)

Init ==
  /\ config = none /\ configTmp = "absent"
  /\ state = [s \in Steps |-> none] /\ horizon = [s \in Steps |-> 0]
  /\ leftover = {} /\ marker = [s \in Steps |-> "none"]
  /\ pc = "down"
  /\ budget = none /\ active = none /\ pending = none /\ extended = "no"
  /\ step = 0 /\ schedule = 0
  /\ doomed = {} /\ runs = 0 /\ published = "no"

-----------------------------------------------------------------------------
(* Lookup                                                                   *)

Saved == {s \in Steps : state[s] # none}

Newest(S) == CHOOSE s \in S : \A t \in S : t <= s

\* _owned_checkpoint_step: state and marker, and no other file.
Owned == {s \in Saved : marker[s] = "marked" /\ s \notin leftover}

-----------------------------------------------------------------------------
(* TrainLMTrainer.from_scratch                                              *)

Enter(place) == pc' = place

Construct(b, now, later, place) ==
  /\ runs < MaxRuns
  /\ pc = "down"
  /\ runs' = runs + 1
  /\ budget' = b /\ active' = now /\ pending' = later /\ extended' = "no"
  /\ step' = 0 /\ schedule' = Horizon(b)
  /\ doomed' = {}
  /\ Enter(place)
  /\ UNCHANGED published

\* The directory is bound to this very configuration already.
StartBound(b) ==
  /\ config = b
  /\ Construct(b, b, none, "ready")
  /\ UNCHANGED files

\* A fresh directory: the temporary file is written, InitPublish follows.  With
\* a checkpoint or another temporary file about, the constructor raises.
StartFresh(b) ==
  /\ config = none
  /\ Saved = {}
  /\ configTmp = "absent"
  /\ Construct(b, b, none, "init_publish")
  /\ configTmp' = "present"
  /\ UNCHANGED <<config, state, horizon, leftover, marker>>

\* _validate_scratch_budget_extension, for consistent settings: more tokens and
\* more updates.
ExtensionAllowed(old, new) == new > old /\ Horizon(new) > Horizon(old)

\* extend_training_budget=True on a directory with a completed checkpoint.
StartExtension(b) ==
  /\ config # none
  /\ ExtensionAllowed(config, b)
  /\ Saved # {}
  /\ Construct(b, config, b, "ready")
  /\ UNCHANGED files

Start == \E b \in Budgets : StartBound(b) \/ StartFresh(b) \/ StartExtension(b)

InitPublish ==
  /\ pc = "init_publish"
  /\ config' = budget
  /\ configTmp' = "absent"
  /\ Enter("ready")
  /\ UNCHANGED <<state, horizon, leftover, marker, settings, progress, doomed,
                 runs, published>>

-----------------------------------------------------------------------------
(* train()                                                                  *)

\* Without a checkpoint; refused while an extension is pending.
TrainFresh ==
  /\ pc = "ready"
  /\ pending = none
  /\ Enter("train")
  /\ UNCHANGED <<files, settings, progress, doomed, runs, published>>

\* _preflight_run_configuration and _validate_extended_budget_checkpoint: the
\* checkpoint is of the active configuration, or of the pending one.
Compatible(s) ==
  \/ state[s] = active
  \/ state[s] = pending /\ horizon[s] = Horizon(pending)

\* load_checkpoint of "latest" or of a path.  The flag that tells a checkpoint
\* of the pending configuration is set here and cleared elsewhere.
Resume(s) ==
  /\ pc = "ready"
  /\ Compatible(s)
  /\ step' = s
  /\ schedule' = horizon[s]
  /\ extended' = IF state[s] # active THEN "yes" ELSE extended
  /\ Enter("loaded")
  /\ UNCHANGED <<files, budget, active, pending, doomed, runs, published>>

\* The preflight fails: the engine is FAILED and nothing was restored.
ResumeRefused(s) ==
  /\ pc = "ready"
  /\ ~Compatible(s)
  /\ Enter("failed")
  /\ UNCHANGED <<files, settings, progress, doomed, runs, published>>

ResumeCall == \E s \in Saved : Resume(s) \/ ResumeRefused(s)

LoadedPlain ==
  /\ pc = "loaded"
  /\ pending = none
  /\ Enter("train")
  /\ UNCHANGED <<files, settings, progress, doomed, runs, published>>

\* Mutants of Activate: run_config.json is published at once, and not with the
\* first save; the restored schedule is kept.
Activate_ConfigAtOnce ==
  /\ pc = "loaded"
  /\ pending # none /\ extended = "no"
  /\ step < Horizon(budget)
  /\ schedule' = Horizon(budget)
  /\ active' = pending /\ config' = pending /\ pending' = none
  /\ Enter("train")
  /\ UNCHANGED <<configTmp, state, horizon, leftover, marker, budget, extended,
                 step, doomed, runs, published>>
Activate_KeepsSchedule ==
  /\ pc = "loaded"
  /\ pending # none /\ extended = "no"
  /\ step < Horizon(budget)
  /\ active' = pending
  /\ Enter("train")
  /\ UNCHANGED <<files, budget, pending, extended, progress, doomed, runs,
                 published>>

\* _activate_scratch_budget_extension: a new cosine phase over what remains.
\* run_config.json follows with the first save.  The guard on step always holds:
\* a checkpoint of the active configuration is within its smaller horizon.
Activate ==
  /\ pc = "loaded"
  /\ pending # none /\ extended = "no"
  /\ step < Horizon(budget)
  /\ schedule' = step + (Horizon(budget) - step)
  /\ active' = pending
  /\ Enter("train")
  /\ UNCHANGED <<files, budget, pending, extended, step, doomed, runs,
                 published>>

\* The checkpoint carries the new schedule already; only run_config.json is
\* behind, because its process died after publishing the checkpoint.
CatchUpWrite ==
  /\ pc = "loaded"
  /\ pending # none /\ extended = "yes"
  /\ configTmp = "absent"
  /\ configTmp' = "present"
  /\ Enter("catch_up")
  /\ UNCHANGED <<config, state, horizon, leftover, marker, settings, progress,
                 doomed, runs, published>>

CatchUpPublish ==
  /\ pc = "catch_up"
  /\ config' = pending /\ configTmp' = "absent"
  /\ active' = pending /\ pending' = none /\ extended' = "no"
  /\ Enter("train")
  /\ UNCHANGED <<state, horizon, leftover, marker, budget, progress, doomed,
                 runs, published>>

\* The temporary file is there already, or the file system refuses it.  The
\* engine is PREPARED: another train() may follow.
CatchUpError ==
  /\ pc = "loaded"
  /\ pending # none /\ extended = "yes"
  /\ configTmp = "present" \/ "write" \in FileErrors
  /\ Enter("ready")
  /\ UNCHANGED <<files, settings, progress, doomed, runs, published>>

\* One update of the engine; with a cadence of one, a save follows.
Update ==
  /\ pc = "train"
  /\ step < Horizon(budget)
  /\ step' = step + 1
  /\ Enter("stage")
  /\ UNCHANGED <<files, settings, schedule, doomed, runs, published>>

-----------------------------------------------------------------------------
(* _save_training_checkpoint                                                *)

\* mkdir and torch.save to trainer_state.pt.tmp
StageState ==
  /\ pc = "stage"
  /\ leftover' = leftover \union {step}
  /\ Enter("publish")
  /\ UNCHANGED <<config, configTmp, state, horizon, marker, settings, progress,
                 doomed, runs, published>>

AfterState == IF pending = none THEN "mark" ELSE "config_write"

\* temporary.replace(trainer_state.pt)
PublishState ==
  /\ pc = "publish"
  /\ state' = [state EXCEPT ![step] = active]
  /\ horizon' = [horizon EXCEPT ![step] = schedule]
  /\ leftover' = leftover \ {step}
  /\ published' = "yes"
  /\ Enter(AfterState)
  /\ UNCHANGED <<config, configTmp, marker, settings, progress, doomed, runs>>

ConfigWrite ==
  /\ pc = "config_write"
  /\ configTmp = "absent"
  /\ configTmp' = "present"
  /\ Enter("config_publish")
  /\ UNCHANGED <<config, state, horizon, leftover, marker, settings, progress,
                 doomed, runs, published>>

\* The save raises although the checkpoint is published: training has failed.
ConfigError ==
  /\ pc = "config_write"
  /\ configTmp = "present" \/ "write" \in FileErrors
  /\ Enter("failed")
  /\ UNCHANGED <<files, settings, progress, doomed, runs, published>>

ConfigPublish ==
  /\ pc = "config_publish"
  /\ config' = pending /\ configTmp' = "absent"
  /\ active' = pending /\ pending' = none
  /\ Enter("mark")
  /\ UNCHANGED <<state, horizon, leftover, marker, budget, extended, progress,
                 doomed, runs, published>>

-----------------------------------------------------------------------------
(* maintain_local_checkpoints                                               *)

\* A marker that a dead process did not finish makes the directory foreign:
\* retention returns at once.
MarkSkipped ==
  /\ pc = "mark"
  /\ marker[step] = "tmp"
  /\ Enter("train")
  /\ UNCHANGED <<files, settings, progress, doomed, runs, published>>

\* The temporary marker is created exclusively; over a marker that is there the
\* directory holds both for a moment, which is all "tmp" has to tell.
MarkWrite ==
  /\ pc = "mark"
  /\ marker[step] # "tmp"
  /\ marker' = [marker EXCEPT ![step] = "tmp"]
  /\ Enter("mark_publish")
  /\ UNCHANGED <<config, configTmp, state, horizon, leftover, settings,
                 progress, doomed, runs, published>>

\* Mutant of Excess: one too many is kept.
Excess_OffByOne(own) ==
  {s \in own \ {step} : Cardinality({t \in own \ {step} : t > s}) >= Limit}
\* candidates[limit - 1:] of the other owned checkpoints, newest first.
Excess(own) ==
  {s \in own \ {step} : Cardinality({t \in own \ {step} : t > s}) >= Limit - 1}

MarkPublish ==
  /\ pc = "mark_publish"
  /\ marker' = [marker EXCEPT ![step] = "marked"]
  /\ doomed' = IF Limit = 0 THEN {} ELSE Excess(Owned \union {step})
  /\ Enter("prune")
  /\ UNCHANGED <<config, configTmp, state, horizon, leftover, settings,
                 progress, runs, published>>

\* shutil.rmtree of the next candidate, newest first: its files go in the order
\* the directory lists them.
Remove(s) ==
  /\ s = Newest(doomed)
  /\ \/ /\ state[s] # none
        /\ state' = [state EXCEPT ![s] = none]
        /\ horizon' = [horizon EXCEPT ![s] = 0]
        /\ UNCHANGED marker
     \/ /\ marker[s] # "none"
        /\ marker' = [marker EXCEPT ![s] = "none"]
        /\ UNCHANGED <<state, horizon>>
  /\ doomed' = IF state'[s] = none /\ marker'[s] = "none"
               THEN doomed \ {s} ELSE doomed

Prune ==
  /\ pc = "prune"
  /\ \E s \in doomed : Remove(s)
  /\ UNCHANGED <<config, configTmp, leftover, pc, settings, progress, runs,
                 published>>

\* All done, or an OSError that is turned into a warning.
PruneEnd ==
  /\ pc = "prune"
  /\ doomed = {} \/ "remove" \in FileErrors
  /\ doomed' = {}
  /\ Enter("train")
  /\ UNCHANGED <<files, settings, progress, runs, published>>

Exit ==
  /\ pc # "down"
  /\ Enter("down")
  /\ UNCHANGED <<files, settings, progress, doomed, runs, published>>

Next ==
  \/ Start \/ InitPublish
  \/ TrainFresh \/ ResumeCall
  \/ LoadedPlain \/ Activate
  \/ CatchUpWrite \/ CatchUpPublish \/ CatchUpError
  \/ Update \/ StageState \/ PublishState
  \/ ConfigWrite \/ ConfigError \/ ConfigPublish
  \/ MarkSkipped \/ MarkWrite \/ MarkPublish \/ Prune \/ PruneEnd
  \/ Exit

Spec == Init /\ [][Next]_vars

-----------------------------------------------------------------------------
(* Properties                                                               *)

Places == {"down", "init_publish", "ready", "loaded", "catch_up", "train",
           "stage", "publish", "config_write", "config_publish", "mark",
           "mark_publish", "prune", "failed"}

TypeOK ==
  /\ config \in 0..MaxBudget /\ configTmp \in {"absent", "present"}
  /\ state \in [Steps -> 0..MaxBudget]
  /\ horizon \in [Steps -> 0..Horizon(MaxBudget)]
  /\ leftover \subseteq Steps
  /\ marker \in [Steps -> {"none", "tmp", "marked"}]
  /\ pc \in Places
  /\ budget \in 0..MaxBudget /\ active \in 0..MaxBudget
  /\ pending \in 0..MaxBudget /\ extended \in {"yes", "no"}
  /\ step \in 0..Horizon(MaxBudget) /\ schedule \in 0..Horizon(MaxBudget)
  /\ doomed \subseteq Steps
  /\ runs \in 0..MaxRuns
  /\ published \in {"yes", "no"}

\* From the first save on, the directory holds a checkpoint of the very
\* configuration that run_config.json binds it to: wherever a process dies, in
\* an extension, a save or the retention, a new one of that configuration has
\* something to resume from.
RunResumable ==
  published = "yes" => \E s \in Saved : state[s] = config

\* The schedule of a running trainer, and that of every checkpoint, ends at the
\* horizon of the budget it belongs to, over any chain of extensions.
SchedulesFit ==
  /\ \A s \in Saved : horizon[s] = Horizon(state[s])
  /\ pc = "train" => schedule = Horizon(budget)

\* Retention starts only when the new checkpoint and run_config.json agree, and
\* it leaves the new checkpoint alone, though older ones have higher numbers.
RetentionAfterCommit ==
  pc \in {"mark", "mark_publish", "prune"} => state[step] = config

\* After a save the owned checkpoints are within save_total_limit, the remains
\* of retentions that were cut short included.
OwnedWithinLimit ==
  (pc = "prune" /\ doomed = {} /\ Limit > 0) => Cardinality(Owned) <= Limit

\* Retention is safe: it neither starts too early nor keeps or removes too much.
RetentionSafe == RetentionAfterCommit /\ OwnedWithinLimit

\* docs/AI_AGENT_GUIDE.md:80 says of an extension: "After a compatible
\* checkpoint is restored, it starts a new cosine schedule".  A second train()
\* in a process whose first one could not write run_config.json does not.
ExtensionRestartsSchedule ==
  (pc = "train" /\ active = budget) => schedule = Horizon(budget)

=============================================================================
