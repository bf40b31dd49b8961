--------------------------- MODULE PretrainingRun ---------------------------
(***************************************************************************)
(* run_pretraining (pretraining_run.py) over one output directory: each    *)
(* session prepares tokenizer and packed shards (pretraining.py,           *)
(* data/writer.py) or reuses them, builds the trainer of ScratchRun, trains *)
(* and leaves a report, from which a later session may be restored.        *)
(*                                                                         *)
(* A session may be killed between any two replacements of a file, and any *)
(* call may raise.  The content of a file is the dataset settings it was   *)
(* made from; the same settings make the same content.                     *)
(***************************************************************************)
EXTENDS ScratchRun, Sequences

CONSTANTS
  Inputs,      \* dataset and tokenizer settings a session may ask for
  Scarce,      \* those whose text pays for a budget of one only
  MaxSessions  \* bound of the model: how many sessions are opened

ASSUME PretrainingAssumption ==
  /\ Inputs \subseteq Nat \ {0}
  /\ Scarce \subseteq Inputs
  /\ MaxSessions \in Nat

VARIABLES
  at,        \* where the session stands
  asked,     \* its arguments: [inputs, budget, extend, from]
  tokenizer, \* the tokenizer directory: none, torn or the inputs
  shard,     \* per file of the two shards: none or the inputs
  written,   \* how many files of Order this session has replaced
  cache,     \* preparation_cache.json: what it names and hashes
  report,    \* report.json
  fresh,     \* history: has no session been opened since? "yes" or "no"
  sessions   \* how many sessions were opened

data == <<tokenizer, shard, written, cache>>
told == <<report, fresh>>
session == <<at, asked, data, told, sessions>>
allVars == <<vars, session>>

torn == 1000
Splits == {"train", "validation"}

\* write_packed_binary_shard installs the manifest last.
Order == << <<"train", "data">>, <<"train", "offsets">>,
            <<"train", "manifest">>, <<"validation", "data">>,
            <<"validation", "offsets">>, <<"validation", "manifest">> >>
ShardFiles == {Order[k] : k \in DOMAIN Order}

NoCache == [inputs |-> none, tokenizer |-> none,
            manifests |-> [s \in Splits |-> none]]
NoReport == [status |-> "none", inputs |-> none, budget |-> none,
             checkpoint |-> none, extend |-> "no"]
Idle == [inputs |-> none, budget |-> none, extend |-> "no", from |-> none]
latest == -1

PrepareInit ==
  /\ Init
  /\ at = "off" /\ asked = Idle
  /\ tokenizer = none /\ shard = [f \in ShardFiles |-> none]
  /\ written = 0 /\ cache = NoCache
  /\ report = NoReport /\ fresh = "no" /\ sessions = 0

-----------------------------------------------------------------------------
(* The start of a session                                                   *)

Begin(arguments) ==
  /\ at = "off"
  /\ sessions < MaxSessions
  /\ sessions' = sessions + 1
  /\ at' = "prepare" /\ asked' = arguments
  /\ written' = 0 /\ fresh' = "no"
  /\ UNCHANGED <<vars, tokenizer, shard, cache, report>>

\* run_pretraining with a configuration of the user.
Call == \E i \in Inputs, b \in Budgets, e \in {"yes", "no"},
           c \in {none, latest} \union Saved :
  Begin([inputs |-> i, budget |-> b, extend |-> e, from |-> c])

\* restore_pretraining_report: a checkpoint was published and it,
\* run_config.json and preparation_cache.json are there; the rest is the
\* report's.
Restorable ==
  /\ report.checkpoint \in Saved
  /\ config # none /\ cache # NoCache

RestoreCall ==
  /\ Restorable
  /\ Begin([inputs |-> report.inputs, budget |-> report.budget,
            extend |-> report.extend, from |-> report.checkpoint])

-----------------------------------------------------------------------------
(* _prepare_scratch_training                                                *)

Go(place) ==
  /\ at' = place
  /\ UNCHANGED <<vars, asked, told, sessions>>

\* _check_scratch_dataset_sizes
EnoughText(i, b) == i \in Scarce => b = 1

\* PackedBinDataset.from_directory: data and offsets are those of the manifest.
Opens(s) == \A f \in {"data", "offsets"} :
  /\ shard[<<s, f>>] = shard[<<s, "manifest">>]
  /\ shard[<<s, f>>] # none

\* Mutant of Intact: the tokenizer and the manifests are not hashed again, and
\* the settings are not compared.
Intact_Unchecked == \A s \in Splits : Opens(s)

\* What _load_scratch_preparation_cache checks.
Intact ==
  /\ cache.inputs = asked.inputs
  /\ tokenizer = cache.tokenizer
  /\ \A s \in Splits : /\ shard[<<s, "manifest">>] = cache.manifests[s]
                       /\ Opens(s)

\* Mutant of LoadCache: data of other settings is made anew.
LoadCache_Remakes ==
  /\ at = "prepare"
  /\ Go(IF Intact THEN "construct" ELSE "tokenizer")
  /\ UNCHANGED data

\* Data for other settings, or data that does not verify, is refused and kept.
LoadCache ==
  /\ at = "prepare"
  /\ \/ cache = NoCache /\ Go("tokenizer")
     \/ cache # NoCache /\ Intact /\ EnoughText(asked.inputs, asked.budget)
        /\ Go("construct")
     \/ cache # NoCache
        /\ ~(Intact /\ EnoughText(asked.inputs, asked.budget)) /\ Go("report")
  /\ UNCHANGED data

\* tokenizer.save_pretrained writes several files, none of them atomically.
SaveTokenizer ==
  /\ at = "tokenizer"
  /\ tokenizer' = IF tokenizer = torn THEN asked.inputs ELSE torn
  /\ Go(IF tokenizer = torn THEN "shards" ELSE "tokenizer")
  /\ UNCHANGED <<shard, written, cache>>

\* The next os.replace of write_packed_binary_shard.
WriteShard ==
  /\ at = "shards"
  /\ written' = written + 1
  /\ shard' = [shard EXCEPT ![Order[written + 1]] = asked.inputs]
  /\ Go(IF written + 1 = Len(Order) THEN "open" ELSE "shards")
  /\ UNCHANGED <<tokenizer, cache>>

OpenData ==
  /\ at = "open"
  /\ Go(IF EnoughText(asked.inputs, asked.budget) /\ \A s \in Splits : Opens(s)
        THEN "write_cache" ELSE "report")
  /\ UNCHANGED data

\* _write_scratch_preparation_cache hashes what is there and replaces the file.
WriteCache ==
  /\ at = "write_cache"
  /\ cache' = [inputs |-> asked.inputs, tokenizer |-> tokenizer,
               manifests |-> [s \in Splits |-> shard[<<s, "manifest">>]]]
  /\ Go("construct")
  /\ UNCHANGED <<tokenizer, shard, written>>

-----------------------------------------------------------------------------
(* The trainer                                                              *)

StartAsked ==
  \/ StartBound(asked.budget)
  \/ asked.extend = "no" /\ StartFresh(asked.budget)
  \/ asked.extend = "yes" /\ StartExtension(asked.budget)

Constructible(b, extend) ==
  \/ config = b
  \/ config = none /\ extend = "no" /\ Saved = {} /\ configTmp = "absent"
  \/ config # none /\ extend = "yes" /\ ExtensionAllowed(config, b)
     /\ Saved # {}

\* from_scratch: the directory belongs to this configuration, or it raises.
FromScratch ==
  /\ at = "construct"
  /\ \/ StartAsked /\ at' = "run"
     \/ ~Constructible(asked.budget, asked.extend)
        /\ at' = "report" /\ UNCHANGED vars
  /\ UNCHANGED <<asked, data, told, sessions>>

\* train(resume_from_checkpoint): "latest" is looked up, a path is not.
Checkpoint == IF asked.from = latest /\ Saved # {} THEN Newest(Saved)
              ELSE asked.from

TrainCall ==
  /\ at = "run" /\ pc = "ready"
  /\ \/ asked.from = none /\ TrainFresh
     \/ Checkpoint \in Saved
        /\ (Resume(Checkpoint) \/ ResumeRefused(Checkpoint))
  /\ UNCHANGED session

Working ==
  /\ at = "run"
  /\ \/ InitPublish \/ LoadedPlain \/ Activate
     \/ CatchUpWrite \/ CatchUpPublish
     \/ Update \/ StageState \/ PublishState
     \/ ConfigWrite \/ ConfigError \/ ConfigPublish
     \/ MarkSkipped \/ MarkWrite \/ MarkPublish \/ Prune \/ PruneEnd
  /\ UNCHANGED session

-----------------------------------------------------------------------------
(* The end of a session                                                     *)

\* Any call raises: in the preparation, or where the trainer calls user code.
Raises ==
  /\ \/ at \in {"prepare", "tokenizer", "shards", "open", "write_cache",
               "construct"}
     \/ at = "run" /\ pc \in {"ready", "loaded", "train", "failed"}
  /\ at' = "report"
  /\ UNCHANGED <<vars, asked, data, told, sessions>>

\* Mutant of Extending: the flag is forgotten.
Extending_Never == "no"

\* build_resume_report repeats the flag while the extension is not committed.
Extending == IF pending # none THEN "yes" ELSE "no"

\* Without a trainer, or without a checkpoint, there is nothing to resume.
Reported(status) ==
  [status |-> status, inputs |-> asked.inputs, budget |-> asked.budget,
   checkpoint |-> IF pc = "down" \/ Saved = {} THEN none ELSE Newest(Saved),
   extend |-> IF pc = "down" \/ Saved = {} THEN "no" ELSE Extending]

\* _write_report replaces the file at once; the process of the session is over.
WriteReport(status) ==
  /\ report' = Reported(status) /\ fresh' = "yes"
  /\ at' = "off" /\ asked' = Idle
  /\ pc' = "down"
  /\ UNCHANGED <<files, settings, progress, doomed, runs, published, data,
                 sessions>>

Passed ==
  /\ at = "run" /\ pc = "train" /\ step = Horizon(budget)
  /\ WriteReport("passed")

Failed == at = "report" /\ WriteReport("failed")

\* KeyboardInterrupt or a kill: no report is written.
Killed ==
  /\ at # "off"
  /\ at' = "off" /\ asked' = Idle
  /\ IF pc = "down" THEN UNCHANGED vars ELSE Exit
  /\ UNCHANGED <<data, told, sessions>>

PrepareNext ==
  \/ Call \/ RestoreCall
  \/ LoadCache \/ SaveTokenizer \/ WriteShard \/ OpenData \/ WriteCache
  \/ FromScratch \/ TrainCall \/ Working
  \/ Raises \/ Passed \/ Failed \/ Killed

PretrainingSpec == PrepareInit /\ [][PrepareNext]_allVars

-----------------------------------------------------------------------------
(* Properties                                                               *)

\* A trainer is built on a tokenizer and two shards made from the settings it
\* was asked for, and on all of each: whatever sessions were cut short before,
\* with whatever settings, between any two replacements.
PreparedIsWhole ==
  at \in {"construct", "run"} =>
    /\ tokenizer = asked.inputs
    /\ \A f \in ShardFiles : shard[f] = asked.inputs
    /\ EnoughText(asked.inputs, asked.budget)

\* Once the directory is bound by run_config.json its data never changes: no
\* later session replaces files that checkpoints were trained on.
BoundDataKept ==
  [][config # none => UNCHANGED <<tokenizer, shard, cache>>]_allVars

\* The last report, if it offers a checkpoint, can be restored: the files it
\* requires are there and from_scratch accepts the configuration with the
\* extension flag it repeats, wherever an extension was interrupted.
ReportConstructs ==
  (fresh = "yes" /\ report.checkpoint # none) =>
    /\ Restorable
    /\ cache.inputs = report.inputs
    /\ Constructible(report.budget, report.extend)

=============================================================================
