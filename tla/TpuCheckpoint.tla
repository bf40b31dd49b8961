---------------------------- MODULE TpuCheckpoint ----------------------------
(***************************************************************************)
(* The rank-sharded checkpoint of TPU workers (_tpu_checkpoint.py): every  *)
(* rank publishes its shard, the ranks vote, the primary rank publishes    *)
(* the manifest, the ranks vote again.  manifest.json is the commit.       *)
(*                                                                         *)
(* A run is one launch of all ranks; it starts afresh or resumes from the  *)
(* directory it is given.  Ranks meet only in collectives (reduce_sum and  *)
(* barrier).                                                               *)
(* A rank may be killed between any two steps, its peers then wait until   *)
(* the launcher reclaims the process group, and a new run may start.       *)
(* A file is the number of the run that wrote it: what the checksums of    *)
(* the manifest tell apart.  Directories are named after the step.         *)
(***************************************************************************)
EXTENDS Integers, FiniteSets

CONSTANTS
  Ranks,        \* the ranks of the world
  Primary,      \* the rank of is_primary_process
  MaxStep,      \* training steps, with a save after each
  MaxRuns       \* bound of the model: how many runs are launched

ASSUME WorldAssumption ==
  /\ Primary \in Ranks
  /\ MaxStep \in Nat
  /\ MaxRuns \in Nat

VARIABLES
  shard,      \* per step and rank: the run that wrote the shard, or none
  committed,  \* the steps whose manifest.json is there
  listed,     \* per step and rank: the shard_integrity of that manifest
  draft,      \* the shard_integrity of manifest.json.tmp
  run,        \* the number of the current run
  source,     \* the step of the checkpoint it resumes from, or fresh
  pc,         \* where each rank stands
  step,       \* TrainerState.step of each rank
  entered,    \* how many collectives of saves each rank has entered
  checked,    \* its vote of the resume preflight
  wrote,      \* its vote of the shard write
  published,  \* its vote of the manifest publication
  saved       \* history: steps whose save returned on some rank, in any run

disk == <<shard, committed, listed, draft>>
launch == <<run, source>>
votes == <<checked, wrote, published>>
vars == <<disk, launch, pc, step, entered, votes, saved>>

Steps == 1..MaxStep
Runs == 1..MaxRuns
none == 0        \* no such file
fresh == 0       \* no checkpoint: training starts at step 0

Init ==
  /\ shard = [s \in Steps |-> [r \in Ranks |-> none]]
  /\ committed = {}
  /\ listed = [s \in Steps |-> [r \in Ranks |-> none]]
  /\ draft = [r \in Ranks |-> none]
  /\ run = 0 /\ source = fresh
  /\ pc = [r \in Ranks |-> "down"]
  /\ step = [r \in Ranks |-> 0]
  /\ entered = [r \in Ranks |-> 0]
  /\ checked = [r \in Ranks |-> "open"]
  /\ wrote = [r \in Ranks |-> "open"]
  /\ published = [r \in Ranks |-> "open"]
  /\ saved = {}

Goto(r, place) == pc' = [pc EXCEPT ![r] = place]

\* The n-th collective of a rank completes with the n-th of every other one.
Enter(r) == entered' = [entered EXCEPT ![r] = @ + 1]

AllIn(r) == \A q \in Ranks : entered[q] >= entered[r]

-----------------------------------------------------------------------------
(* Launch and resume                                                        *)

\* find_latest_committed_tpu_checkpoint: a manifest and all shards it names.
Committed == {s \in committed : \A r \in Ranks : shard[s][r] # none}

\* Mutant of Latest: a directory with all its shards counts as a checkpoint.
Latest_NoManifest ==
  LET whole == {s \in Steps : \A r \in Ranks : shard[s][r] # none}
  IN  IF whole = {} THEN fresh ELSE CHOOSE s \in whole : \A t \in whole : t <= s

Latest ==
  IF Committed = {} THEN fresh
  ELSE CHOOSE s \in Committed : \A t \in Committed : t <= s

\* --resume-from-checkpoint names an existing directory, committed or not.
Directories == {s \in Steps : \E r \in Ranks : shard[s][r] # none}

\* All ranks are launched, afresh or with a directory to resume from.
Launch ==
  /\ run < MaxRuns
  /\ \A r \in Ranks : pc[r] = "down"
  /\ run' = run + 1
  /\ \E s \in Directories \union {fresh} :
       /\ source' = s
       /\ pc' = [r \in Ranks |-> IF s = fresh THEN "train" ELSE "preflight"]
  /\ step' = [r \in Ranks |-> 0]
  /\ entered' = [r \in Ranks |-> 0]
  /\ checked' = [r \in Ranks |-> "open"]
  /\ wrote' = [r \in Ranks |-> "open"]
  /\ published' = [r \in Ranks |-> "open"]
  /\ UNCHANGED <<disk, saved>>

\* The manifest and the rank's own shard are validated, checksum included; an
\* I/O error or any mismatch is a no.
Preflight(r) ==
  /\ pc[r] = "preflight"
  /\ \E vote \in {"yes", "no"} :
       /\ vote = "yes" =>
            source \in committed /\ shard[source][r] = listed[source][r]
       /\ checked' = [checked EXCEPT ![r] = vote]
  /\ Goto(r, "checking")
  /\ UNCHANGED <<disk, launch, step, entered, wrote, published, saved>>

\* Mutant of PreflightResult: every rank follows its own preflight.
PreflightResult_Own(r) ==
  /\ pc[r] = "checking"
  /\ \A q \in Ranks : checked[q] # "open"
  /\ Goto(r, IF checked[r] = "yes" THEN "apply" ELSE "load_failed")
  /\ UNCHANGED <<disk, launch, step, entered, votes, saved>>

\* reduce_sum of the preflight votes.
PreflightResult(r) ==
  /\ pc[r] = "checking"
  /\ \A q \in Ranks : checked[q] # "open"
  /\ Goto(r, IF \A q \in Ranks : checked[q] = "yes"
             THEN "apply" ELSE "load_failed")
  /\ UNCHANGED <<disk, launch, step, entered, votes, saved>>

\* The load_state_dict calls; nothing synchronises an error in them.
Apply(r) ==
  /\ pc[r] = "apply"
  /\ \/ /\ step' = [step EXCEPT ![r] = source]
        /\ Goto(r, "train")
     \/ /\ step' \in {step, [step EXCEPT ![r] = source]}
        /\ Goto(r, "load_failed")
  /\ UNCHANGED <<disk, launch, entered, votes, saved>>

-----------------------------------------------------------------------------
(* Training and saving                                                      *)

\* The update after which a save is due.
Train(r) ==
  /\ pc[r] = "train"
  /\ step[r] < MaxStep
  /\ step' = [step EXCEPT ![r] = @ + 1]
  /\ Goto(r, "write")
  /\ UNCHANGED <<disk, launch, entered, votes, saved>>

\* Mutant of StageShard: a committed checkpoint is not looked for.
StageShard_Blind(r) ==
  /\ pc[r] = "write"
  /\ Goto(r, "replace")
  /\ UNCHANGED <<disk, launch, step, entered, votes, saved>>

\* The committed manifest is looked for and the shard is written to .pt.tmp.
StageShard(r) ==
  /\ pc[r] = "write"
  /\ step[r] \notin committed
  /\ Goto(r, "replace")
  /\ UNCHANGED <<disk, launch, step, entered, votes, saved>>

\* Any exception in the try block becomes a no in the vote.
ShardError(r) ==
  /\ pc[r] \in {"write", "replace"}
  /\ wrote' = [wrote EXCEPT ![r] = "no"]
  /\ Enter(r)
  /\ Goto(r, "voting")
  /\ UNCHANGED <<disk, launch, step, checked, published, saved>>

\* temporary.replace(shard)
PublishShard(r) ==
  /\ pc[r] = "replace"
  /\ shard' = [shard EXCEPT ![step[r]][r] = run]
  /\ wrote' = [wrote EXCEPT ![r] = "yes"]
  /\ Enter(r)
  /\ Goto(r, "voting")
  /\ UNCHANGED <<committed, listed, draft, launch, step, checked, published,
                 saved>>

\* Mutant of WriteResult: a rank that wrote its shard does not heed the vote.
WriteResult_Own(r) ==
  /\ pc[r] = "voting"
  /\ AllIn(r)
  /\ \/ wrote[r] = "yes" /\ Enter(r) /\ Goto(r, "ready")
     \/ wrote[r] = "no" /\ UNCHANGED entered /\ Goto(r, "save_failed")
  /\ UNCHANGED <<disk, launch, step, votes, saved>>

\* _all_ranks_succeeded(phase="shard write"): on to the first barrier, or raise.
WriteResult(r) ==
  /\ pc[r] = "voting"
  /\ AllIn(r)
  /\ \/ /\ \A q \in Ranks : wrote[q] = "yes"
        /\ Enter(r)
        /\ Goto(r, "ready")
     \/ /\ \E q \in Ranks : wrote[q] # "yes"
        /\ UNCHANGED entered
        /\ Goto(r, "save_failed")
  /\ UNCHANGED <<disk, launch, step, votes, saved>>

\* The barrier "checkpoint-shards": the primary goes on to the manifest, every
\* other rank votes that it has nothing to complain of.
ShardsReady(r) ==
  /\ pc[r] = "ready"
  /\ AllIn(r)
  /\ \/ /\ r = Primary
        /\ Goto(r, "manifest")
        /\ UNCHANGED <<entered, published>>
     \/ /\ r # Primary
        /\ published' = [published EXCEPT ![r] = "yes"]
        /\ Enter(r)
        /\ Goto(r, "publishing")
  /\ UNCHANGED <<disk, launch, step, checked, wrote, saved>>

\* All shards are there: their sizes and checksums go to manifest.json.tmp.
StageManifest(r) ==
  /\ pc[r] = "manifest"
  /\ \A q \in Ranks : shard[step[r]][q] # none
  /\ draft' = [q \in Ranks |-> shard[step[r]][q]]
  /\ Goto(r, "commit")
  /\ UNCHANGED <<shard, committed, listed, launch, step, entered, votes, saved>>

ManifestError(r) ==
  /\ pc[r] \in {"manifest", "commit"}
  /\ published' = [published EXCEPT ![r] = "no"]
  /\ Enter(r)
  /\ Goto(r, "publishing")
  /\ UNCHANGED <<disk, launch, step, checked, wrote, saved>>

\* manifest_tmp.replace(manifest)
PublishManifest(r) ==
  /\ pc[r] = "commit"
  /\ committed' = committed \union {step[r]}
  /\ listed' = [listed EXCEPT ![step[r]] = draft]
  /\ published' = [published EXCEPT ![r] = "yes"]
  /\ Enter(r)
  /\ Goto(r, "publishing")
  /\ UNCHANGED <<shard, draft, launch, step, checked, wrote, saved>>

\* Mutant of PublishResult: a rank reports its own part only.
PublishResult_Own(r) ==
  /\ pc[r] = "publishing"
  /\ AllIn(r)
  /\ \/ published[r] = "yes" /\ Enter(r) /\ Goto(r, "done")
     \/ published[r] = "no" /\ UNCHANGED entered /\ Goto(r, "save_failed")
  /\ UNCHANGED <<disk, launch, step, votes, saved>>

\* _all_ranks_succeeded(phase="manifest publication"): the last barrier or an
\* exception.
PublishResult(r) ==
  /\ pc[r] = "publishing"
  /\ AllIn(r)
  /\ \/ /\ \A q \in Ranks : published[q] = "yes"
        /\ Enter(r)
        /\ Goto(r, "done")
     \/ /\ \E q \in Ranks : published[q] # "yes"
        /\ UNCHANGED entered
        /\ Goto(r, "save_failed")
  /\ UNCHANGED <<disk, launch, step, votes, saved>>

\* The barrier "checkpoint-published": the save returns.
SaveReturn(r) ==
  /\ pc[r] = "done"
  /\ AllIn(r)
  /\ Goto(r, "train")
  /\ saved' = saved \union {step[r]}
  /\ UNCHANGED <<disk, launch, step, entered, votes>>

-----------------------------------------------------------------------------
(* Failures                                                                 *)

\* A process dies, or ends after an error or after its last step.
Exit(r) ==
  /\ pc[r] # "down"
  /\ Goto(r, "down")
  /\ UNCHANGED <<disk, launch, step, entered, votes, saved>>

\* The launcher reclaims the whole process group.
Reclaim ==
  /\ \E r \in Ranks : pc[r] # "down"
  /\ pc' = [r \in Ranks |-> "down"]
  /\ UNCHANGED <<disk, launch, step, entered, votes, saved>>

RankStep(r) ==
  \/ Preflight(r) \/ PreflightResult(r) \/ Apply(r)
  \/ Train(r) \/ StageShard(r) \/ ShardError(r) \/ PublishShard(r)
  \/ WriteResult(r) \/ ShardsReady(r)
  \/ StageManifest(r) \/ ManifestError(r) \/ PublishManifest(r)
  \/ PublishResult(r) \/ SaveReturn(r)

Next == Launch \/ Reclaim \/ \E r \in Ranks : RankStep(r) \/ Exit(r)

Spec == Init /\ [][Next]_vars

\* Every live rank is scheduled; nothing has to crash or to be launched.
FairSpec == Spec /\ \A r \in Ranks : WF_vars(RankStep(r))

-----------------------------------------------------------------------------
(* Properties                                                               *)

Places == {"down", "preflight", "checking", "apply", "load_failed", "train",
           "write", "replace", "voting", "ready", "manifest", "commit",
           "publishing", "done", "save_failed"}

TypeOK ==
  /\ shard \in [Steps -> [Ranks -> 0..MaxRuns]]
  /\ committed \subseteq Steps
  /\ listed \in [Steps -> [Ranks -> 0..MaxRuns]]
  /\ draft \in [Ranks -> 0..MaxRuns]
  /\ run \in 0..MaxRuns
  /\ source \in 0..MaxStep
  /\ pc \in [Ranks -> Places]
  /\ step \in [Ranks -> 0..MaxStep]
  /\ entered \in [Ranks -> Nat]
  /\ checked \in [Ranks -> {"open", "yes", "no"}]
  /\ wrote \in [Ranks -> {"open", "yes", "no"}]
  /\ published \in [Ranks -> {"open", "yes", "no"}]
  /\ saved \subseteq Steps

\* A committed checkpoint can be loaded: every shard is the one whose checksum
\* the manifest lists, and all of them are of one run.  A retry over the
\* leftovers of a killed run neither mixes nor changes shards.
CommittedIntact ==
  \A s \in committed : \E w \in Runs :
    \A r \in Ranks : shard[s][r] = w /\ listed[s][r] = w

\* A save that returned on any rank is committed, whatever crashed since.
ReturnedIsCommitted == saved \subseteq committed

\* What find_latest_committed_tpu_checkpoint returns can be loaded by every
\* rank, and no save that returned is newer, whatever partial attempts of
\* killed runs lie beside it.
LatestLoads ==
  /\ \A s \in saved : s <= Latest
  /\ Latest # fresh =>
       Latest \in committed /\ shard[Latest] = listed[Latest]

\* The ranks agree on the outcome of a save: none returns from it while
\* another one raises.
SavesAgree ==
  \A r, q \in Ranks :
    /\ pc[r] = "save_failed"
    /\ pc[q] = "done" \/ (pc[q] = "train" /\ entered[q] > 0)
    => step[r] # step[q]

\* No rank restores anything unless every rank has validated its shard.
RestoreTogether ==
  \A r \in Ranks :
    pc[r] = "apply" => \A q \in Ranks : checked[q] = "yes"

\* No rank waits for a peer that raised: a rank inside a save comes back, by
\* return or by exception, unless some process is gone or a restore raised.
Saving(r) == pc[r] \in {"write", "replace", "voting", "ready", "manifest",
                        "commit", "publishing", "done"}

Gone == \E q \in Ranks : pc[q] \in {"down", "load_failed"}

SaveEnds == \A r \in Ranks : Saving(r) ~> (~Saving(r) \/ Gone)

\* The directory behaves like CheckpointStore: a checkpoint appears whole and
\* never changes.  Mixed shards would be no run at all.
Stored(s) ==
  IF s \notin committed THEN none
  ELSE IF \E w \in Runs : \A r \in Ranks : shard[s][r] = w
       THEN shard[s][Primary]
       ELSE -1

Store ==
  INSTANCE CheckpointStore WITH
    Absent <- none,
    store <- [s \in Steps |-> Stored(s)]

AtomicStore == Store!Spec

=============================================================================
