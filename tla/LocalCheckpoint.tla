--------------------------- MODULE LocalCheckpoint --------------------------
(***************************************************************************)
(* The local training checkpoint of TrainLMTrainer (api.py): what a save   *)
(* puts into trainer_state.pt, the validation of a payload before anything *)
(* is restored, and the restoration, component by component, in the code's *)
(* order.  Sessions follow each other over one output directory, each with *)
(* arguments and data of its own; the file a session resumes from may      *)
(* carry a flaw (an old schema, an edit, another model or machine).        *)
(*                                                                         *)
(* A component of the engine is "fresh", "live" (trained by this session), *)
(* "saved" (what the checkpoint holds), "moved" (a random state drawn from *)
(* after it was set), "torn" (partly overwritten) or "corrupt".  A batch   *)
(* is <<order, pass, offset>>: the order is the seed a TrainLM-owned       *)
(* generator started from, or Own for data that has an order of its own.   *)
(***************************************************************************)
EXTENDS Integers, Sequences

CONSTANTS
  Sessions,     \* [loader, data, workers, native, cuda, runtime, seed]
  LoaderLength, \* batches in one pass
  Flaws,        \* what may be wrong: sequences <<section, how>>
  MaxMicro,     \* bound on micro_step
  MaxSessions

VARIABLES
  pc,        \* "begin", "loading", "resumed", "training", "refused",
             \* "unreadable" (the data raised in the middle of a resume)
  session,   \* the arguments and data of this session
  engine,    \* component -> value
  loader,    \* [gen, passes, at]: generator seed, passes begun, next batch
  initial,   \* _train_loader_generator_initial_state, or None
  micro,     \* state.micro_step
  disk,      \* the last checkpoint, or Missing
  loading,   \* [flaw, next, left]: the resume that is going on
  sessions   \* sessions begun

checkpointVars ==
  <<pc, session, engine, loader, initial, micro, disk, loading, sessions>>

----------------------------------------------------------------------------
None == 0
Own == 0
Missing == [micro |-> MaxMicro + 1]
NoFlaw == <<"none", "none">>
Idle == [flaw |-> NoFlaw, next |-> 0, left |-> 0]

(* Sections of the payload, in the order _load_training_checkpoint takes   *)
(* them; the loader's generator and the dataset's cursor come before the   *)
(* random states, the runtime's state is last.                             *)
Order == <<"model", "optimizer", "scheduler", "trainer", "generator", "data",
           "cpu", "cuda", "runtime">>
Section(i) == Order[i]
\* The optimizer's groups, one parameter each: its name and its shape.
Names == <<"weight", "bias">>
Shapes == <<2, 1>>
Groups == DOMAIN Names
Components == {Order[i] : i \in DOMAIN Order}

Stateful(s) == s.data \in {"stateful", "validating"}
Mapped(s) == s.data = "map"
(* Facade loaders shuffle a map-style dataset with a generator of their    *)
(* own; a DataLoader of the caller's may sample at random without one.     *)
Owned(s) == s.loader = "facade" /\ Mapped(s)
Random(s) == Mapped(s) /\ s.loader \in {"facade", "shuffled"}

(* _validate_native_resume_data: on TorchTPU a position must be replayable. *)
Replayable(s) ==
  s.native => /\ ~s.workers
              /\ ~Mapped(s) => Stateful(s)
              /\ Random(s) => Owned(s)

(* _make_loader, and an engine nothing was restored into.                  *)
Begin(s) ==
  /\ session' = s
  /\ engine' = [c \in Components |-> "fresh"]
  /\ loader' = [gen |-> IF Owned(s) THEN s.seed ELSE Own, passes |-> 0,
                at |-> LoaderLength]
  /\ initial' = IF Owned(s) THEN s.seed ELSE None
  /\ micro' = 0
  /\ loading' = Idle
  /\ pc' = "begin"

Init ==
  /\ session \in Sessions
  /\ engine = [c \in Components |-> "fresh"]
  /\ loader = [gen |-> IF Owned(session) THEN session.seed ELSE Own,
               passes |-> 0, at |-> LoaderLength]
  /\ initial = IF Owned(session) THEN session.seed ELSE None
  /\ micro = 0
  /\ loading = Idle
  /\ pc = "begin"
  /\ disk = Missing
  /\ sessions = 1

(* The next batch: a pass that is over is followed by a new iterator,      *)
(* which draws the next permutation from the generator.                    *)
Drawn(l) ==
  IF l.at < LoaderLength THEN [l EXCEPT !.at = @ + 1]
  ELSE [l EXCEPT !.passes = @ + 1, !.at = 1]

(* A micro-step of training consumes one batch.                            *)
Train ==
  /\ pc \in {"begin", "resumed", "training"}
  /\ micro < MaxMicro
  /\ pc' = "training"
  /\ loader' = Drawn(loader)
  /\ micro' = micro + 1
  /\ engine' = [c \in Components |-> "live"]
  /\ UNCHANGED <<session, initial, disk, loading, sessions>>

(* What decides the order of batches besides the seed: workers share a     *)
(* map-style dataset, each reads an iterable one for itself.               *)
Source(s) == <<s.loader, s.data, s.workers /\ ~Mapped(s)>>

(* _training_checkpoint_payload: the generator's state is the one this     *)
(* session's loader was created with, the cursor is there when the dataset *)
(* has one and no worker reads ahead.  `live' remembers the position.      *)
Payload ==
  [micro |-> micro, initial |-> initial,
   cursor |-> Stateful(session) /\ ~session.workers,
   native |-> session.native, cuda |-> session.cuda,
   source |-> Source(session), live |-> loader]

Save ==
  /\ pc \in {"resumed", "training"}
  /\ Replayable(session)
  /\ disk' = Payload
  /\ pc' = "training"
  /\ UNCHANGED <<session, engine, loader, initial, micro, loading, sessions>>

----------------------------------------------------------------------------
(* Validation, section by section: TRUE when the section passes.           *)

How(flaw, section) == IF flaw[1] = section THEN flaw[2] ELSE "good"

(* Same keys, tensors of the same shapes.                                  *)
AdmitsModel(how) == how = "good"

(* What the file holds for the optimizer: the ids of each group, names     *)
(* where they were recorded, and the slots of the ids that have a state.   *)
OptimizerSection(how, m) ==
  LET good == [groups |-> [g \in Groups |-> <<g>>], names |-> Names,
               slots |-> [id \in Groups |-> [step |-> m, shape |-> Shapes[id]]]]
  IN CASE how = "merged"   -> [good EXCEPT !.groups = <<<<1, 2>>>>]
       [] how = "longer"   -> [good EXCEPT !.groups[2] = <<2, 3>>]
       [] how = "repeated" -> [good EXCEPT !.groups[2] = <<1>>]
       [] how = "swapped"  -> [good EXCEPT !.groups = <<<<2>>, <<1>>>>,
                                           !.names = <<>>]
       [] how = "renamed"  -> [good EXCEPT !.names = <<"bias", "weight">>]
       [] how = "unnamed"  -> [good EXCEPT !.names = <<>>]
       [] how = "reshaped" -> [good EXCEPT !.slots[1].shape = 3]
       [] how = "negative" -> [good EXCEPT !.slots[2].step = -1]
       [] how = "strays"   -> [good EXCEPT !.slots = [id \in {1, 2, 7} |->
                                 IF id = 7 THEN [step |-> -1, shape |-> 9]
                                 ELSE good.slots[id]]]
       [] how = "slotless" -> [good EXCEPT !.slots = [id \in {2} |->
                                                        good.slots[id]]]
       [] OTHER            -> good

(* Mutant of AdmitsOptimizer: the slots are left to load_state_dict.       *)
AdmitsOptimizer_GroupsOnly(o) ==
  /\ Len(o.groups) = Len(Names)
  /\ \A g \in Groups : Len(o.groups[g]) = 1

(* _preflight_optimizer_state: as many groups and parameters, each id once,*)
(* the same names where both sides have them; each slot of an id of a      *)
(* group has a step that is none or not negative and that parameter's      *)
(* shape.                                                                  *)
AdmitsOptimizer(o) ==
  /\ Len(o.groups) = Len(Names)
  /\ \A g \in Groups : Len(o.groups[g]) = 1
  /\ \A g, h \in Groups : o.groups[g][1] = o.groups[h][1] => g = h
  /\ o.names # <<>> => o.names = Names
  /\ \A g \in Groups : o.groups[g][1] \in DOMAIN o.slots =>
       LET slot == o.slots[o.groups[g][1]]
       IN slot.step >= 0 /\ slot.shape = Shapes[g]

SchedulerSection(how, m) ==
  LET good == [step_count |-> m + 1, last_epoch |-> m, lrs |-> Len(Names),
               horizon |-> 4, warmup |-> 1, stable |-> 2, stable_end |-> 3]
  IN CASE how = "fields"  -> [f \in DOMAIN good \ {"horizon"} |-> good[f]]
       [] how = "rates"   -> [good EXCEPT !.lrs = 1]
       [] how = "count"   -> [good EXCEPT !.step_count = -1]
       [] how = "epoch"   -> [good EXCEPT !.last_epoch = -2]
       [] how = "phases"  -> [good EXCEPT !.stable = 3]
       [] how = "horizon" -> [good EXCEPT !.horizon = 2]
       [] OTHER           -> good

(* _preflight_scheduler_state: every field of the active scheduler, in its *)
(* range, one rate per group, and phases that add up within the horizon.   *)
AdmitsScheduler(s) ==
  /\ DOMAIN SchedulerSection("good", 0) \subseteq DOMAIN s
  /\ s.step_count >= 0 /\ s.last_epoch >= -1
  /\ s.lrs = Len(Names)
  /\ s.horizon > 0 /\ s.warmup >= 0 /\ s.stable >= 0
  /\ s.warmup + s.stable = s.stable_end
  /\ s.stable_end <= s.horizon

TrainerSection(how, m) ==
  LET good == [step |-> m, micro_step |-> m, tokens_seen |-> m]
  IN CASE how = "fields"   -> [f \in {"step", "phase"} \cup DOMAIN good |-> m]
       [] how = "uncounted" -> [f \in {"step", "tokens_seen"} |-> m]
       [] how = "negative" -> [good EXCEPT !.micro_step = -1]
       [] how = "tokens"   -> [good EXCEPT !.tokens_seen = -1]
       [] OTHER            -> good

(* _preflight_trainer_state: persisted fields only, step and micro_step    *)
(* there, no counter negative.                                             *)
AdmitsTrainer(t) ==
  /\ DOMAIN t \subseteq {"step", "micro_step", "tokens_seen"}
  /\ {"step", "micro_step"} \subseteq DOMAIN t
  /\ \A f \in DOMAIN t : t[f] >= 0

(* A mapping, which only a runtime with validate_state_dict looks into.    *)
AdmitsRuntime(s, how, d) ==
  /\ how # "malformed" /\ how # "absent"
  /\ s.runtime = "validating" => how = "good" /\ d.native = s.native

AdmitsRandomStates(cpu, cuda) == cpu = "good" /\ cuda # "malformed"

(* A random sampler needs the generator's state; what is there is one.     *)
AdmitsGenerator(s, how, d) ==
  /\ how # "malformed"
  /\ Random(s) => d.initial # None /\ how # "absent"

(* A cursor needs a dataset that can load it, without workers, and that    *)
(* accepts it where it has a hook to ask.                                  *)
AdmitsCursor(s, how, d) ==
  d.cursor /\ how # "absent" =>
    /\ Stateful(s) /\ ~s.workers
    /\ s.data = "validating" => how = "good"

(* _preflight_training_checkpoint: nothing is changed yet.  The classes of *)
(* optimizer and scheduler are compared where the file names them ("type").*)
Preflight(s, flaw, d) ==
  /\ AdmitsModel(How(flaw, "model"))
  /\ \A c \in {"optimizer", "scheduler", "trainer"} :
       How(flaw, c) \notin {"absent", "malformed", "type"}
  /\ AdmitsOptimizer(OptimizerSection(How(flaw, "optimizer"), d.micro))
  /\ AdmitsScheduler(SchedulerSection(How(flaw, "scheduler"), d.micro))
  /\ AdmitsRuntime(s, How(flaw, "runtime"), d)
  /\ AdmitsTrainer(TrainerSection(How(flaw, "trainer"), d.micro))
  /\ AdmitsRandomStates(How(flaw, "cpu"), How(flaw, "cuda"))
  /\ AdmitsGenerator(s, How(flaw, "generator"), d)
  /\ AdmitsCursor(s, How(flaw, "data"), d)

Resume(flaw) ==
  /\ pc = "begin"
  /\ disk # Missing
  /\ IF Replayable(session) /\ Preflight(session, flaw, disk)
     THEN /\ pc' = "loading"
          /\ loading' = [flaw |-> flaw, next |-> 1, left |-> 0]
     ELSE /\ pc' = "refused"
          /\ UNCHANGED loading
  /\ UNCHANGED <<session, engine, loader, initial, micro, disk, sessions>>

(* What loading a section that passed raises on: more CUDA states than     *)
(* devices or none at all, a runtime that refuses another backend's state, *)
(* a dataset that refuses its cursor, optimizer groups of another size.  A *)
(* model of another shape is copied up to the tensor that does not fit.    *)
Raises(section, how) ==
  CASE section \in {"model", "cpu"} -> how # "good"
    [] section = "optimizer" -> how \in {"absent", "malformed", "merged",
                                         "longer"}
    [] section = "cuda"    -> session.cuda /\ how \in {"absent", "devices"}
    [] section = "runtime" -> session.runtime = "strict" /\ how # "good"
    [] section = "data"    -> disk.cursor /\ how = "unfit"
    [] OTHER               -> FALSE

(* Mutant of Present: the generator keeps the seed of this session.        *)
Present_OwnSeed(section, how) ==
  CASE section = "generator" -> FALSE
    [] section = "cuda"      -> session.cuda /\ disk.cuda
    [] OTHER                 -> TRUE

(* Sections a session has something to restore into.                       *)
Present(section, how) ==
  CASE section = "generator" -> initial # None /\ disk.initial # None
                                /\ how # "absent"
    [] section = "cuda"      -> session.cuda /\ disk.cuda
    [] OTHER                 -> TRUE

(* torch numbers the parameters of the active groups in order and gives    *)
(* each the state of the id in its place; schedulers take every field.     *)
Sound(section, how) ==
  CASE section = "optimizer" ->
         LET o == OptimizerSection(how, disk.micro)
         IN \A g \in Groups : o.groups[g][1] \in DOMAIN o.slots =>
              /\ o.slots[o.groups[g][1]].shape = Shapes[g]
              /\ o.slots[o.groups[g][1]].step = disk.micro
    [] section = "scheduler" ->
         SchedulerSection(how, disk.micro)
           = SchedulerSection("good", disk.micro)
    [] section = "trainer" ->
         TrainerSection(how, disk.micro) = TrainerSection("good", disk.micro)
    [] OTHER -> TRUE

Restored(section, how) ==
  IF ~Present(section, how) THEN engine[section]
  ELSE IF Sound(section, how) THEN "saved" ELSE "corrupt"

Cursor(how) == disk.cursor /\ how # "absent"

(* One section is restored, or what it holds raises and the resume fails.  *)
Load ==
  LET section == Section(loading.next)
      how == How(loading.flaw, section)
  IN /\ pc = "loading"
     /\ loading.left = 0
     /\ IF Raises(section, how)
        THEN /\ pc' = "refused"
             /\ engine' = [engine EXCEPT ![section] =
                             IF section = "model" THEN "torn" ELSE @]
             /\ UNCHANGED <<loader, micro, loading>>
        ELSE /\ engine' = [engine EXCEPT ![section] = Restored(section, how)]
             /\ micro' = IF section = "trainer" THEN disk.micro ELSE micro
             /\ loader' =
                  CASE section = "generator" /\ Present(section, how) ->
                         [loader EXCEPT !.gen = disk.initial, !.passes = 0,
                                        !.at = LoaderLength]
                    [] section = "data" /\ Cursor(how) -> disk.live
                    [] OTHER -> loader
             /\ loading' = [loading EXCEPT
                  !.next = @ + 1,
                  !.left = IF section = "data" /\ ~Cursor(how) THEN micro
                           ELSE 0]
             /\ pc' = IF section = "runtime" THEN "resumed" ELSE pc
     /\ UNCHANGED <<session, initial, disk, sessions>>

(* The code of the data draws from the random states of this process.      *)
Disturbed == [c \in Components |->
  IF c \in {"cpu", "cuda", "runtime"} THEN "moved" ELSE engine[c]]

(* Without a cursor the batches of micro_step are read again.              *)
Replay ==
  /\ pc = "loading"
  /\ loading.left > 0
  /\ loader' = Drawn(loader)
  /\ loading' = [loading EXCEPT !.left = @ - 1]
  /\ engine' = Disturbed
  /\ UNCHANGED <<pc, session, initial, micro, disk, sessions>>

(* The iterator, or a batch of it, raises: model, optimizer, scheduler and *)
(* counters are the checkpoint's by then, the random states are not.       *)
Unreadable ==
  /\ pc = "loading" /\ Section(loading.next) = "cpu"
  /\ pc' = "unreadable"
  /\ engine' = Disturbed
  /\ UNCHANGED <<session, loader, initial, micro, disk, loading, sessions>>

(* The process ends, at any point; the file stays.                         *)
NextSession ==
  /\ sessions < MaxSessions
  /\ sessions' = sessions + 1
  /\ \E s \in Sessions : Begin(s)
  /\ UNCHANGED disk

Next ==
  \/ Train \/ Save \/ Load \/ Replay \/ Unreadable \/ NextSession
  \/ \E flaw \in Flaws : Resume(flaw)

Spec == Init /\ [][Next]_checkpointVars

----------------------------------------------------------------------------
Untouched == \A c \in Components : engine[c] = "fresh"

(* Sections the preflight leaves to the code that loads them.              *)
LateSections == {"cuda", "runtime", "data"}

(* A checkpoint is restored all or not at all but for what the preflight   *)
(* cannot see: one that is refused leaves the engine as it was unless the  *)
(* CUDA states, the runtime or the dataset's cursor are at fault, and a    *)
(* completed resume has restored each component there was a state for,     *)
(* none of them disturbed by what was restored after it.  (Data that       *)
(* raises while it is positioned is no fault of the checkpoint, and does   *)
(* leave the engine half restored: Unreadable.)                            *)
ResumeAllOrNothing ==
  /\ pc = "refused" /\ ~Untouched => loading.flaw[1] \in LateSections
  /\ pc = "resumed" =>
       \A c \in Components :
         Present(c, How(loading.flaw, c)) => engine[c] = "saved"

Positioned == pc = "loading" /\ loading.next > 6 /\ loading.left = 0

(* A session over the same data and sampler reads on where the one that    *)
(* saved had stopped: the same batches in the same order, whatever mixture *)
(* of sessions, seeds, cursors and replays led to the checkpoint, provided *)
(* that the session that saved recorded the state its generator was in: it *)
(* records the seed it began with, also where it resumed from another.     *)
ReplayIsExact ==
  Positioned /\ disk.source = Source(session) /\ disk.initial = disk.live.gen
  => loader = disk.live
=============================================================================
