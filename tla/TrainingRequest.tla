--------------------------- MODULE TrainingRequest --------------------------
(***************************************************************************)
(* What the arguments of a TrainLMTrainer become (api.py): either a local  *)
(* engine, or a request whose options travel over a command line to a TPU  *)
(* worker (_tpu_coordinator.py, trainlm_tpu_worker.py), which builds its   *)
(* own configuration.                                                      *)
(*                                                                         *)
(* Options that are always passed on with the value they have are one      *)
(* group, "scalars": seed, learning rate, betas, eps, weight decay, batch  *)
(* and accumulation sizes, logging, model source, directories.             *)
(***************************************************************************)
EXTENDS Integers

CONSTANTS
  Budgets,   \* subset of {"steps", "tokens", "both"}: what is configured
  MaxSteps   \* max_steps where it is set, positive

VARIABLES
  stage,     \* idle, arguments, facade, request, worker, training, refused
  args,      \* TrainLMTrainingArguments, and whether evaluation data is given
  options,   \* the options the engine or the worker works with
  horizon    \* SchedulerConfig.horizon_steps, 0 for None

vars == <<stage, args, options, horizon>>

none == "none"
Schedulers == {"constant", "linear", "cosine", "wsd"}
Losses == {"auto", "causal_lm", "model", "chunked_linear"}
Precisions == {"fp32", "bf16", "fp16"}
Switch == {none, "set"}
Arguments ==
  [budget : Budgets, accelerator : {"local", "tpu"}, scheduler : Schedulers,
   sequence_length : {"one", "more"}, eval_data : Switch, eval_steps : Switch,
   max_eval_batches : Switch, save_steps : Switch, save_total_limit : Switch,
   loss : Losses, precision : Precisions, resume : Switch]

NoArguments == [accelerator |-> none]

\* Options that reach the trainer by a name of their own.
Always == {"scalars", "scheduler", "sequence_length", "loss", "precision",
           "z_loss"}
IfSet == {"eval_data", "eval_steps", "max_eval_batches", "save_steps", "resume"}
Nothing == [o \in Always \union IfSet |-> none]

\* What the user asked for; the facade knows no z-loss and fixes it at zero.
Asked(a) == [o \in Always \union IfSet |->
  CASE o = "scalars" -> "asked" [] o = "z_loss" -> "zero" [] OTHER -> a[o]]

Init ==
  /\ stage = "idle"
  /\ args = NoArguments /\ options = Nothing /\ horizon = 0

Refuse ==
  /\ stage' = "refused"
  /\ UNCHANGED <<args, options, horizon>>

Pass(next) ==
  /\ stage' = next
  /\ UNCHANGED <<args, options, horizon>>

-----------------------------------------------------------------------------
(* The facade                                                               *)

\* main of the command line and from_config: arguments and data sets are made
\* and TrainLMTrainingArguments checks its fields.
MakeArguments ==
  /\ stage = "idle"
  /\ args' \in Arguments
  /\ stage' = IF args'.accelerator = "tpu" /\ args'.save_total_limit # none
              THEN "refused" ELSE "arguments"
  /\ UNCHANGED <<options, horizon>>

EvaluationNeedsData(a) ==
  (a.eval_steps # none \/ a.max_eval_batches # none) => a.eval_data # none

\* TrainLMTrainer.__init__, what either route is refused for.
Supported(a) ==
  /\ EvaluationNeedsData(a)
  /\ IF a.accelerator = "tpu" THEN a.budget = "steps" /\ a.precision # "fp16"
     ELSE a.loss # "chunked_linear"

\* Locally the scheduler is made at once, and wsd has no horizon_tokens there.
Construct ==
  /\ stage = "arguments"
  /\ IF /\ Supported(args)
        /\ args.accelerator = "local" => args.scheduler # "wsd"
     THEN Pass("facade") ELSE Refuse

\* max_steps or 1
Steps == IF args.budget = "tokens" THEN 1 ELSE MaxSteps

HorizonOf(scheduler) == IF scheduler = "constant" THEN 0 ELSE Steps

\* _make_optimizer, _make_scheduler, _make_config and the engine itself, whose
\* task is causal_lm whatever loss_implementation says.
LocalEngine ==
  /\ stage = "facade" /\ args.accelerator = "local"
  /\ options' = [Asked(args) EXCEPT !["loss"] = "causal_lm"]
  /\ horizon' = HorizonOf(args.scheduler)
  /\ stage' = "training"
  /\ UNCHANGED args

-----------------------------------------------------------------------------
(* The TPU route                                                            *)

\* _make_tpu_request and the checks of _TPURunRequest.
Request ==
  /\ stage = "facade" /\ args.accelerator = "tpu"
  /\ IF (args.eval_data = none) = (args.eval_steps = none)
        /\ (args.max_eval_batches # none => args.eval_data # none)
     THEN Pass("request") ELSE Refuse

\* Mutant of Command: z-loss is left to the parser's default.
Command_NoZLoss(a) ==
  {<<o, Asked(a)[o]>> : o \in Always \ {"z_loss"}} \union
  {<<o, a[o]>> : o \in {p \in IfSet : a[p] # none}}

\* _command: pairs of an option and its value.
Command(a) ==
  {<<o, Asked(a)[o]>> : o \in Always} \union
  {<<o, a[o]>> : o \in {p \in IfSet : a[p] # none}}

\* The defaults of parse_args are those of a run by hand, not of the facade.
ParserDefault(o) ==
  CASE o = "scalars" -> "other" [] o = "scheduler" -> "wsd"
    [] o = "sequence_length" -> "more" [] o = "loss" -> "causal_lm"
    [] o = "precision" -> "bf16" [] o = "z_loss" -> "positive"
    [] OTHER -> none

Parsed(command) == [o \in Always \union IfSet |->
  IF \E v \in {p[2] : p \in {q \in command : q[1] = o}} : TRUE
  THEN (CHOOSE p \in command : p[1] = o)[2] ELSE ParserDefault(o)]

\* parse_args refuses what its checks or its choices exclude.
Acceptable(p) ==
  /\ p["sequence_length"] # "one"
  /\ (p["eval_data"] = none) = (p["eval_steps"] = none)
  /\ (p["max_eval_batches"] # none => p["eval_data"] # none)
  /\ p["precision"] \in {"fp32", "bf16"}

Launch ==
  /\ stage = "request"
  /\ options' = Parsed(Command(args))
  /\ stage' = IF Acceptable(options') THEN "worker" ELSE "refused"
  /\ UNCHANGED <<args, horizon>>

\* train_fn: every rank builds its model, optimizer, scheduler and trainer from
\* the options.  The schedule of wsd runs over a fixed number of tokens.
Configure ==
  /\ stage = "worker"
  /\ horizon' = IF options["scheduler"] \in {"linear", "cosine"} THEN MaxSteps
                ELSE 0
  /\ stage' = "training"
  /\ UNCHANGED <<args, options>>

Next == MakeArguments \/ Construct \/ LocalEngine \/ Request \/ Launch
        \/ Configure

Spec == Init /\ [][Next]_vars

-----------------------------------------------------------------------------
(* Properties                                                               *)

\* A worker trains with what the facade was asked for, though its parser has
\* other defaults and its checks are written a second time: no option is lost on
\* the command line, the horizon of the schedule is that of the training, and
\* what the worker would refuse is refused before the launch, but a sequence of
\* one token.
TrainsAsAsked ==
  args # NoArguments /\ args.accelerator = "tpu" =>
    /\ stage = "training" =>
         options = Asked(args) /\ horizon \in {0, MaxSteps}
    /\ stage = "refused" /\ options # Nothing => args.sequence_length = "one"

=============================================================================
