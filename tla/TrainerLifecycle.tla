-------------------------- MODULE TrainerLifecycle --------------------------
(***************************************************************************)
(* The lifecycle of one TrainLM Trainer (training/trainer.py) with its     *)
(* TrainerState phases (training/state.py) and one-shot callback flags     *)
(* (training/control.py).                                                  *)
(*                                                                         *)
(* One thread runs the public methods; `pc` is where train() stands and    *)
(* `op` is the evaluate / save / load call that is nested in it or that    *)
(* the user made directly.  Every hook, callback, saver and loader returns *)
(* or raises, and may raise flags of the control object it is handed; one  *)
(* that calls the trainer's own methods while it runs is not modelled.  A  *)
(* stop request may arrive from another thread at any time, and the        *)
(* process may die at any time; a new process starts a new Trainer and     *)
(* finds the checkpoints that earlier ones left on disk.                   *)
(***************************************************************************)
EXTENDS Integers

CONSTANTS
  MaxSteps,     \* config.trainer.max_steps
  SaveEvery,    \* checkpoint.save_training_every_steps, 0 for None
  EvalEvery,    \* evaluation.eval_every_steps, 0 for None
  HasEval,      \* is an eval dataloader configured?
  HasSaver,     \* is a checkpoint saver (and loader) injected?
  MaxRestarts   \* bound of the model: how often the process may die

ASSUME ConfigAssumption ==
  /\ MaxSteps \in Nat
  /\ SaveEvery \in Nat
  /\ EvalEvery \in Nat
  /\ MaxRestarts \in Nat
  /\ HasEval \in BOOLEAN
  /\ HasSaver \in BOOLEAN

VARIABLES
  phase,       \* TrainerState.phase
  failure,     \* TrainerState.failure: "none" or an "error"
  flags,       \* TrainerState: which of is_training, should_stop are set
  step,        \* TrainerState.step
  ctl,         \* TrainerControl: which of the three flags are raised
  lastCkpt,    \* Trainer._last_checkpoint_step
  runtime,     \* the execution backend: new, live or released
  ends,        \* calls of runtime.on_train_end
  finals,      \* calls of runtime.finalize
  pc,          \* where the user's thread stands in train()
  opKind,      \* the evaluate / save / load call in progress, or "none"
  opPrev,      \* its local previous_phase
  opAt,        \* "after" once the saver or loader is done, "body" before
  disk,        \* steps with a durable checkpoint: survives a process
  restarts,    \* how often the process died
  reqStep      \* history: the step at which a stop was first requested

op == <<opKind, opPrev, opAt>>

vars == <<phase, failure, flags, step, ctl, lastCkpt, runtime, ends,
          finals, pc, op, disk, restarts, reqStep>>

never == -1

Phases == {"created", "prepared", "training", "evaluating", "saving",
           "resuming", "stopping", "failed", "finalized"}

\* Mutant of Allowed: the table forgets that a save may start in CREATED.
Allowed_NoSaveReturn ==
  [created    |-> {"prepared", "evaluating", "saving", "resuming", "failed"},
   prepared   |-> {"training", "evaluating", "saving", "resuming", "stopping",
                   "failed"},
   training   |-> {"evaluating", "saving", "stopping", "failed"},
   evaluating |-> {"created", "prepared", "training", "finalized", "failed"},
   saving     |-> {"prepared", "training", "failed"},
   resuming   |-> {"prepared", "training", "failed"},
   stopping   |-> {"finalized", "failed"},
   failed     |-> {"stopping", "finalized"},
   finalized  |-> {"evaluating"}]

\* The `allowed` table of TrainerState.transition.
Allowed ==
  [created    |-> {"prepared", "evaluating", "saving", "resuming", "failed"},
   prepared   |-> {"training", "evaluating", "saving", "resuming", "stopping",
                   "failed"},
   training   |-> {"evaluating", "saving", "stopping", "failed"},
   evaluating |-> {"created", "prepared", "training", "finalized", "failed"},
   saving     |-> {"created", "prepared", "training", "failed"},
   resuming   |-> {"prepared", "training", "failed"},
   stopping   |-> {"finalized", "failed"},
   failed     |-> {"stopping", "finalized"},
   finalized  |-> {"evaluating"}]

Flags == {"stop", "save", "eval"}

\* What any number of callbacks may make of the flags c: they only raise them.
Asked(c) == {d \in SUBSET Flags : c \subseteq d}

NoOp == opKind = "none" /\ opPrev = "created" /\ opAt = "body"

\* A nested call starts in the current phase; it returns or raises.
Begin(kind) == opKind' = kind /\ opPrev' = phase /\ opAt' = "body"

EndOp == opKind' = "none" /\ opPrev' = "created" /\ opAt' = "body"

\* The two call counters tell never, once, and more than once apart.
Count(n) == IF n < 2 THEN n + 1 ELSE n

\* Mutant of MarkFailed: the text is recorded, the phase is left alone.
MarkFailed_PhaseKept ==
  /\ failure' = "error"
  /\ flags' = flags \union {"should_stop"}
  /\ UNCHANGED phase

\* TrainerState.mark_failed
MarkFailed ==
  /\ failure' = "error"
  /\ flags' = flags \union {"should_stop"}
  /\ phase' = IF phase \in {"failed", "finalized"} THEN phase ELSE "failed"

\* Both places where a stop request can be found.
StopAsked == "stop" \in ctl \/ "should_stop" \in flags

\* History only: remember where the first stop request fell.
NoteRequest ==
  reqStep' = IF reqStep = never /\ StopAsked' THEN step ELSE reqStep

\* The process-local state of a Trainer that was just constructed.
Init ==
  /\ phase = "created" /\ failure = "none" /\ flags = {}
  /\ step = 0 /\ ctl = {} /\ lastCkpt = never
  /\ runtime = "new" /\ ends = 0 /\ finals = 0
  /\ pc = "idle" /\ NoOp
  /\ disk = {} /\ restarts = 0 /\ reqStep = never

Idle == pc = "idle" /\ opKind = "none"

At(where) == pc = where /\ opKind = "none"

-----------------------------------------------------------------------------
(* prepare() and the entry of train()                                       *)

\* The backend initialises, or raises: then it is finalized on the spot and
\* the trainer is failed.
PrepareCall ==
  /\ Idle
  /\ phase = "created"
  /\ \/ /\ phase' = "prepared"
        /\ runtime' = "live"
        /\ UNCHANGED <<failure, flags, finals>>
     \/ /\ MarkFailed
        /\ runtime' = "released"
        /\ finals' = Count(finals)
  /\ UNCHANGED <<step, ctl, lastCkpt, ends, pc, op, disk, restarts>>
  /\ NoteRequest

\* train() on a created trainer is PrepareCall and then this step: prepare()
\* stands outside the try block, so a failing one returns to the caller and
\* _finish_training does not run.
TrainCall ==
  /\ Idle
  /\ phase = "prepared"
  /\ phase' = "training"
  /\ flags' = flags \union {"is_training"}
  /\ pc' = "begin"
  /\ UNCHANGED <<failure, step, ctl, lastCkpt, runtime, ends, finals, op, disk,
                 restarts, reqStep>>

\* An exception anywhere in the body of train(): except, then finally.
Raise ==
  /\ MarkFailed
  /\ pc' = "finish"

\* Token budget, runtime.on_train_begin and the on_train_begin callbacks.
TrainBegin ==
  /\ At("begin")
  /\ ctl' \in Asked(ctl)
  /\ \/ pc' = "loop" /\ UNCHANGED <<phase, failure, flags>>
     \/ Raise
  /\ UNCHANGED <<step, lastCkpt, runtime, ends, finals, op, disk, restarts>>
  /\ NoteRequest

-----------------------------------------------------------------------------
(* The loop of train()                                                      *)

\* Mutant of ShouldStop: a callback's request is not read.
ShouldStop_NoControl == "should_stop" \in flags \/ step >= MaxSteps

\* _should_stop
ShouldStop == StopAsked \/ step >= MaxSteps

\* TrainerControl.reset keeps the stop request.
ResetControl == ctl' = ctl \intersect {"stop"}

LoopEnter ==
  /\ At("loop")
  /\ ~ShouldStop
  /\ ResetControl
  /\ pc' = "step"
  /\ UNCHANGED <<phase, failure, flags, step, lastCkpt, runtime, ends,
                 finals, op, disk, restarts, reqStep>>

LoopExit ==
  /\ At("loop")
  /\ ShouldStop
  /\ pc' = "finish"
  /\ UNCHANGED <<phase, failure, flags, step, ctl, lastCkpt, runtime,
                 ends, finals, op, disk, restarts, reqStep>>

\* Mutant of TrainStep: the update does not count itself.
TrainStep_Uncounted ==
  /\ At("step")
  /\ ctl' \in Asked(ctl)
  /\ \/ /\ pc' = "scheduled"
        /\ UNCHANGED <<phase, failure, flags>>
     \/ Raise
  /\ UNCHANGED <<step, lastCkpt, runtime, ends, finals, op, disk, restarts>>
  /\ NoteRequest

\* on_step_begin, _train_step, on_step_end and _emit_step_metrics.  The step
\* counter moves in the middle, so an exception leaves it moved or not.
TrainStep ==
  /\ At("step")
  /\ ctl' \in Asked(ctl)
  /\ \/ /\ step' = step + 1
        /\ pc' = "scheduled"
        /\ UNCHANGED <<phase, failure, flags>>
     \/ /\ step' \in {step, step + 1}
        /\ Raise
  /\ UNCHANGED <<lastCkpt, runtime, ends, finals, op, disk,
                 restarts>>
  /\ NoteRequest

Due(every) == every > 0 /\ step % every = 0

EvalDue == "eval" \in ctl \/ Due(EvalEvery)

\* Mutant of SaveDue: an `elif`, so that an evaluation swallows the save.
SaveDue_Elif == ~EvalDue /\ ("save" \in ctl \/ Due(SaveEvery))

SaveDue == "save" \in ctl \/ Due(SaveEvery)

\* The local should_save, kept as the place where the method goes on.
AfterEval == IF SaveDue THEN "then_save" ELSE "then_loop"

\* _run_scheduled_actions: both decisions are taken before evaluate() runs.
Scheduled ==
  /\ At("scheduled")
  /\ \/ /\ ~EvalDue
        /\ pc' = AfterEval
        /\ UNCHANGED <<phase, failure, flags, op>>
     \/ /\ EvalDue /\ HasEval
        /\ pc' = AfterEval
        /\ Begin("evaluate")
        /\ phase' = "evaluating"
        /\ UNCHANGED <<failure, flags>>
     \/ /\ EvalDue /\ ~HasEval
        /\ Raise
        /\ UNCHANGED op
  /\ UNCHANGED <<step, ctl, lastCkpt, runtime, ends, finals, disk, restarts>>
  /\ NoteRequest

ScheduledSave ==
  /\ At("then_save")
  /\ \/ /\ HasSaver
        /\ pc' = "loop"
        /\ Begin("save")
        /\ phase' = "saving"
        /\ UNCHANGED <<failure, flags>>
     \/ /\ ~HasSaver
        /\ Raise
        /\ UNCHANGED op
  /\ UNCHANGED <<step, ctl, lastCkpt, runtime, ends, finals, disk, restarts>>
  /\ NoteRequest

\* No save was due: back to the head of the loop.
NothingToSave ==
  /\ At("then_loop")
  /\ pc' = "loop"
  /\ UNCHANGED <<phase, failure, flags, step, ctl, lastCkpt, runtime, ends,
                 finals, op, disk, restarts, reqStep>>

-----------------------------------------------------------------------------
(* evaluate(), save_checkpoint() and load_checkpoint()                      *)

\* Direct calls by the user; a call in a wrong phase raises and changes
\* nothing.  Evaluation is allowed in FINALIZED too.
EvaluateCall ==
  /\ Idle
  /\ HasEval
  /\ phase \in {"created", "prepared", "training", "finalized"}
  /\ Begin("evaluate")
  /\ phase' = "evaluating"
  /\ UNCHANGED <<failure, flags, step, ctl, lastCkpt, runtime, ends,
                 finals, pc, disk, restarts, reqStep>>

SaveCall ==
  /\ Idle
  /\ HasSaver
  /\ phase \in {"created", "prepared", "training"}
  /\ Begin("save")
  /\ phase' = "saving"
  /\ UNCHANGED <<failure, flags, step, ctl, lastCkpt, runtime, ends,
                 finals, pc, disk, restarts, reqStep>>

\* load_checkpoint() on a created trainer is PrepareCall and then this step.
LoadCall ==
  /\ Idle
  /\ HasSaver
  /\ phase = "prepared"
  /\ Begin("load")
  /\ phase' = "resuming"
  /\ UNCHANGED <<failure, flags, step, ctl, lastCkpt, runtime, ends,
                 finals, pc, disk, restarts, reqStep>>

\* Mutant of AfterRaise: the try of train() has no finally.
AfterRaise_NoFinally == IF pc = "stopping" THEN "rt_end" ELSE "idle"

\* Where an exception that leaves the nested call lands: in the caller of a
\* direct call, behind the final save of _finish_training, or in the except
\* clause around the body of train().
AfterRaise ==
  IF pc = "idle" THEN "idle"
  ELSE IF pc = "stopping" THEN "rt_end"
  ELSE "finish"

\* Mutant of Restore: unconditional.
Restore_Always(nested) == opPrev
\* `finally: if phase is still the nested one, transition(previous_phase)`.
Restore(nested) == IF phase = nested THEN opPrev ELSE phase

EvaluateBody ==
  /\ opKind = "evaluate"
  /\ ctl' \in Asked(ctl)
  /\ EndOp
  /\ \/ /\ phase' = Restore("evaluating")
        /\ UNCHANGED <<failure, flags, pc>>
     \/ /\ MarkFailed
        /\ pc' = AfterRaise
  /\ UNCHANGED <<step, lastCkpt, runtime, ends, finals, disk,
                 restarts>>
  /\ NoteRequest

\* before_checkpoint, the saver and the on_save callbacks.  The file may be
\* durable although a callback raised after it.
SaveBody ==
  /\ opKind = "save" /\ opAt = "body"
  /\ opAt' = "after" /\ UNCHANGED <<opKind, opPrev>>
  /\ ctl' \in Asked(ctl)
  /\ \/ /\ disk' = disk \union {step}
        /\ lastCkpt' = step
        /\ UNCHANGED <<phase, failure, flags>>
     \/ /\ disk' \in {disk, disk \union {step}}
        /\ MarkFailed
        /\ UNCHANGED lastCkpt
  /\ UNCHANGED <<step, runtime, ends, finals, pc, restarts>>
  /\ NoteRequest

\* before_checkpoint, the loader and the on_resume callbacks.
LoadBody ==
  /\ opKind = "load" /\ opAt = "body"
  /\ opAt' = "after" /\ UNCHANGED <<opKind, opPrev>>
  /\ ctl' \in Asked(ctl)
  /\ \/ \E s \in disk :
           /\ step' = s
           /\ lastCkpt' = s
           /\ UNCHANGED <<phase, failure, flags>>
     \/ /\ step' \in {step} \union disk
        /\ MarkFailed
        /\ UNCHANGED lastCkpt
  /\ reqStep' = IF reqStep # never \/ StopAsked' THEN step' ELSE never
  /\ UNCHANGED <<runtime, ends, finals, pc, disk, restarts>>

\* after_checkpoint, which runs after a failure too, and the phase restored.
AfterCheckpoint ==
  /\ opKind \in {"save", "load"} /\ opAt = "after"
  /\ EndOp
  /\ \/ /\ phase' = Restore(IF opKind = "save" THEN "saving" ELSE "resuming")
        /\ pc' = IF phase = "failed" THEN AfterRaise ELSE pc
        /\ UNCHANGED <<failure, flags>>
     \/ /\ MarkFailed
        /\ pc' = AfterRaise
  /\ UNCHANGED <<step, ctl, lastCkpt, runtime, ends, finals, disk, restarts>>
  /\ NoteRequest

-----------------------------------------------------------------------------
(* _finish_training() and finalize()                                        *)

\* Mutant of FinalSaveDue: only a run that never saved saves at its end.
FinalSaveDue_FirstOnly ==
  /\ phase # "failed"
  /\ SaveEvery > 0
  /\ HasSaver
  /\ step >= 1
  /\ lastCkpt = never

\* _save_final_training_checkpoint
FinalSaveDue ==
  /\ phase # "failed"
  /\ SaveEvery > 0
  /\ HasSaver
  /\ step >= 1
  /\ lastCkpt # step

Finish ==
  /\ At("finish")
  /\ flags' = IF StopAsked THEN {"should_stop"} ELSE {}
  /\ pc' = "stopping"
  /\ \/ /\ FinalSaveDue
        /\ Begin("save")
        /\ phase' = "saving"
     \/ /\ ~FinalSaveDue
        /\ UNCHANGED <<op, phase>>
  /\ UNCHANGED <<failure, step, ctl, lastCkpt, runtime, ends, finals, disk,
                 restarts, reqStep>>

\* The move to STOPPING and the on_train_end callbacks.
Stopping ==
  /\ At("stopping")
  /\ pc' = "rt_end"
  /\ ctl' \in Asked(ctl)
  /\ \/ phase' = "stopping" /\ UNCHANGED <<failure, flags>>
     \/ /\ phase' = "failed"
        /\ failure' = "error"
        /\ flags' = flags \union {"should_stop"}
  /\ UNCHANGED <<step, lastCkpt, runtime, ends, finals, op, disk, restarts>>
  /\ NoteRequest

RuntimeTrainEnd ==
  /\ At("rt_end")
  /\ pc' = "rt_final"
  /\ ends' = Count(ends)
  /\ \/ UNCHANGED <<phase, failure, flags>>
     \/ MarkFailed
  /\ UNCHANGED <<step, ctl, lastCkpt, runtime, finals, op, disk, restarts>>
  /\ NoteRequest

\* The innermost finally: whatever happened, the phase reaches FINALIZED.
Terminal == IF phase \in {"failed", "stopping"} THEN "finalized" ELSE phase

RuntimeFinalize ==
  /\ At("rt_final")
  /\ pc' = "idle"
  /\ finals' = Count(finals)
  /\ runtime' = "released"
  /\ phase' = Terminal
  /\ \/ UNCHANGED <<failure, flags>>
     \/ failure' = "error" /\ flags' = flags \union {"should_stop"}
  /\ UNCHANGED <<step, ctl, lastCkpt, ends, op, disk,
                 restarts>>
  /\ NoteRequest

\* finalize() of a trainer at rest; one that is finalized has nothing to do.
FinalizeCall ==
  /\ Idle
  /\ phase # "finalized"
  /\ \/ phase = "failed" /\ UNCHANGED phase
     \/ "stopping" \in Allowed[phase] /\ phase' = "stopping"
  /\ pc' = "finalizing"
  /\ UNCHANGED <<failure, flags, step, ctl, lastCkpt, runtime, ends,
                 finals, op, disk, restarts, reqStep>>

\* It asks for STOPPING before its try block: where the table has no such
\* move, which is in CREATED, the caller gets the InvalidTrainerTransition and
\* the trainer is as it was.
FinalizeRefused ==
  /\ Idle
  /\ phase \notin {"finalized", "failed"}
  /\ "stopping" \notin Allowed[phase]
  /\ UNCHANGED vars

\* Unlike _finish_training it does not record an exception of the backend.
FinalizeReturn ==
  /\ At("finalizing")
  /\ pc' = "idle"
  /\ finals' = Count(finals)
  /\ runtime' = "released"
  /\ phase' = Terminal
  /\ UNCHANGED <<failure, flags, step, ctl, lastCkpt, ends, op, disk, restarts,
                 reqStep>>

-------------------------------------------------------------------------------
(* The environment                                                          *)

\* Trainer.request_stop from another thread.
RequestStop ==
  /\ "should_stop" \notin flags
  /\ ctl' = ctl \union {"stop"}
  /\ flags' = flags \union {"should_stop"}
  /\ UNCHANGED <<phase, failure, step, lastCkpt, runtime, ends, finals, pc, op,
                 disk, restarts>>
  /\ NoteRequest

\* The process dies; a new one constructs a new Trainer (Trainer.__init__).
NewProcess ==
  /\ restarts < MaxRestarts
  /\ restarts' = restarts + 1
  /\ phase' = "created" /\ failure' = "none" /\ flags' = {}
  /\ step' = 0 /\ ctl' = {} /\ lastCkpt' = never
  /\ runtime' = "new" /\ ends' = 0 /\ finals' = 0
  /\ pc' = "idle" /\ EndOp
  /\ reqStep' = never
  /\ UNCHANGED disk

\* The steps of the thread that is inside a call: they are taken.
Running ==
  \/ TrainBegin \/ LoopEnter \/ LoopExit \/ TrainStep \/ Scheduled
  \/ ScheduledSave \/ NothingToSave
  \/ EvaluateBody \/ SaveBody \/ LoadBody \/ AfterCheckpoint
  \/ Finish \/ Stopping \/ RuntimeTrainEnd \/ RuntimeFinalize
  \/ FinalizeReturn

\* The calls a user may or may not make.
UserCall ==
  \/ PrepareCall \/ TrainCall \/ EvaluateCall \/ SaveCall \/ LoadCall
  \/ FinalizeCall \/ FinalizeRefused

Next == Running \/ UserCall \/ RequestStop \/ NewProcess

Spec == Init /\ [][Next]_vars

\* A thread inside a call goes on: callbacks, hooks, savers and the dataloader
\* return or raise.  Nobody is obliged to make a call, to stop or to crash.
FairSpec == Spec /\ WF_vars(Running)

-----------------------------------------------------------------------------
(* Properties                                                               *)

Locations == {"idle", "begin", "loop", "step", "scheduled", "then_save",
              "then_loop", "finish", "stopping", "rt_end", "rt_final",
              "finalizing"}

\* Every variable has its type.
TypeData ==
  /\ phase \in Phases
  /\ failure \in {"none", "error"}
  /\ step \in Nat /\ ends \in Nat /\ finals \in Nat /\ restarts \in Nat
  /\ lastCkpt \in Nat \union {never} /\ reqStep \in Nat \union {never}
  /\ runtime \in {"new", "live", "released"}
  /\ pc \in Locations
  /\ opKind \in {"none", "evaluate", "save", "load"}
  /\ opPrev \in Phases
  /\ opAt \in {"body", "after"}

TypeSets ==
  /\ flags \subseteq {"is_training", "should_stop"}
  /\ ctl \subseteq Flags
  /\ disk \subseteq Nat

TypeOK == TypeData /\ TypeSets

\* Every move of the phase that prepare(), train(), evaluate(),
\* save_checkpoint(), load_checkpoint() and an accepted finalize() make is in
\* the table of TrainerState.transition, wherever a hook, a callback, the saver
\* or the final save has failed in between: no InvalidTrainerTransition
\* replaces the exception that is being handled.  Only finalize() of a created
\* trainer asks for a move that the table refuses (FinalizeRefused).
LegalTransitions ==
  [][restarts' = restarts => phase' \in Allowed[phase]]_phase

\* A trainer that recorded a failure never again trains, saves, resumes or
\* counts as prepared: mark_failed wins over every `finally` that restores the
\* previous phase.
FailureIsTerminal ==
  failure = "error" =>
    phase \in {"failed", "stopping", "finalized", "evaluating"}

\* No checkpoint is published after a failure was recorded.
NoSaveAfterFailure ==
  [][disk' # disk => failure = "none"]_vars

\* A stop request lets at most the update that is under way complete,
\* wherever it lands between the loop check, the flag reset and the step.
StopAtBoundary ==
  reqStep # never => step <= reqStep + 1

\* The step budget is never overrun, across resumes from earlier processes.
StepBudget == step <= MaxSteps

\* A run that ended without failure after at least one update left a
\* checkpoint of its very last update, whichever way the loop was left.
CompletedRunIsSaved ==
  (/\ phase = "finalized" /\ failure = "none" /\ ends > 0
   /\ SaveEvery > 0 /\ HasSaver /\ step >= 1) =>
     step \in disk /\ lastCkpt = step

\* A periodic save that fell due is durable, and known to be, when the loop
\* goes on: an evaluation or a flag reset in between does not lose it.
PeriodicSaveDone ==
  (At("loop") /\ HasSaver /\ step > 0 /\ Due(SaveEvery)) =>
    step \in disk /\ lastCkpt = step

\* train() never returns or raises past the backend: when it is left, the end
\* and finalize hooks have both run, the end hook once, the resources are
\* released, is_training is off and the phase is FINALIZED.
TrainLeavesCleanly ==
  [][(/\ pc \notin {"idle", "finalizing"} /\ pc' = "idle"
      /\ restarts' = restarts) =>
        /\ ends' = 1 /\ finals' >= 1 /\ runtime' = "released"
        /\ "is_training" \notin flags' /\ phase' = "finalized"]_vars

\* train() always comes back to its caller.
TrainReturns == (pc = "begin") ~> (pc = "idle")

=============================================================================
