------------------------- MODULE TpuCheckpointProofs -------------------------
(***************************************************************************)
(* Proofs about TpuCheckpoint, for any set of ranks, any number of steps   *)
(* and any number of runs.                                                 *)
(*                                                                         *)
(* A save is four collectives, so `entered` tells how far a rank is in the *)
(* saves of its run.  No rank is more than one collective ahead of another *)
(* (Skew), hence a vote that is read is the vote on the same save, and the *)
(* shards the primary rank lists are those of its own run.                 *)
(***************************************************************************)
EXTENDS TpuCheckpoint, WellFoundedInduction, TLAPS

-----------------------------------------------------------------------------
(* The inductive invariant                                                  *)

\* The collectives a rank has entered when its save of step[r] is over.
Over(r) == 4 * (step[r] - source)

\* A rank's place in a save and its count of collectives go together.
Counted ==
  \A r \in Ranks :
    /\ pc[r] \in {"preflight", "checking", "apply", "load_failed"}
         => entered[r] = 0
    /\ pc[r] = "train" => entered[r] = Over(r)
    /\ pc[r] \in {"write", "replace"} => entered[r] = Over(r) - 4
    /\ pc[r] = "voting" => entered[r] = Over(r) - 3
    /\ pc[r] \in {"ready", "manifest", "commit"} => entered[r] = Over(r) - 2
    /\ pc[r] = "publishing" => entered[r] = Over(r) - 1
    /\ pc[r] = "done" => entered[r] = Over(r) /\ entered[r] > 0
    /\ pc[r] = "save_failed" => entered[r] \in {Over(r) - 3, Over(r) - 1}
    /\ pc[r] \in {"manifest", "commit"} => r = Primary

\* No rank is more than one collective ahead of another one.
Skew == \A r, q \in Ranks : entered[r] <= entered[q] + 1

\* Whoever is not in a collective has met all others in the last one.
Met ==
  \A r \in Ranks :
    pc[r] \in {"train", "write", "replace", "manifest", "commit",
               "save_failed"} => AllIn(r)

\* The vote of a rank on the shards of step s is still its last one.
VotedOn(q, s) ==
  /\ source < s
  /\ 4 * (s - source) - 3 <= entered[q] /\ entered[q] <= 4 * (s - source)

\* The vote on the manifest of step s is still the last one of that rank.
Concluded(q, s) ==
  /\ source < s
  /\ 4 * (s - source) - 1 <= entered[q] /\ entered[q] <= 4 * (s - source) + 2

\* A yes on the shards is the truth, and so is the primary rank's on the
\* manifest.
ShardsTruthful ==
  \A q \in Ranks, s \in Steps :
    VotedOn(q, s) /\ wrote[q] = "yes" => shard[s][q] = run

ManifestTruthful ==
  \A s \in Steps :
    Concluded(Primary, s) /\ published[Primary] = "yes" => s \in committed

\* After the first vote of a save every rank has said yes, after the second
\* one every rank has said yes to the manifest; a rank that raised at the
\* second one has seen a no.
Unanimous ==
  /\ \A r \in Ranks :
       pc[r] \in {"ready", "manifest", "commit", "publishing"}
         => \A q \in Ranks : wrote[q] = "yes"
  /\ \A r \in Ranks :
       pc[r] = "done" \/ (pc[r] = "train" /\ entered[r] > 0)
         => \A q \in Ranks : published[q] = "yes"
  /\ \A r \in Ranks :
       pc[r] = "save_failed" /\ entered[r] = Over(r) - 1
         => \E q \in Ranks : published[q] # "yes"

\* No committed step is under way: its shards are not replaced and its
\* manifest is not published again.
NotYet ==
  /\ \A r \in Ranks : pc[r] = "replace" => step[r] \notin committed
  /\ \/ pc[Primary] \in {"ready", "manifest", "commit"}
     \/ pc[Primary] = "voting" /\ wrote[Primary] = "yes"
     => step[Primary] \notin committed

\* The manifest that is about to be published lists shards of this run.
Drafted == pc[Primary] = "commit" => \A q \in Ranks : draft[q] = run

\* A rank that is there is of a run, and casts each resume vote once.
Alive ==
  /\ \A r \in Ranks : pc[r] # "down" => run \in Runs
  /\ \A r \in Ranks : pc[r] = "preflight" => checked[r] = "open"

\* A save that is done has its manifest.
DoneCommitted == \A r \in Ranks : pc[r] = "done" => step[r] \in committed

IInv ==
  /\ TypeOK
  /\ Alive /\ Counted /\ Skew /\ Met
  /\ ShardsTruthful /\ ManifestTruthful /\ Unanimous
  /\ NotYet /\ Drafted
  /\ RestoreTogether /\ CommittedIntact
  /\ DoneCommitted /\ ReturnedIsCommitted

-----------------------------------------------------------------------------
(* Types                                                                    *)

\* The invariant holds before the first launch.
LEMMA InitIInv == Init => IInv
<1> SUFFICES ASSUME Init PROVE IInv
  OBVIOUS
<1>1. TypeOK
  BY WorldAssumption DEF Init, TypeOK, Steps, Places, none, fresh,
     WorldAssumption
<1>2. Alive /\ Counted /\ Skew /\ Met /\ ShardsTruthful
     /\ ManifestTruthful /\ Unanimous /\ NotYet /\ Drafted
  BY <1>1, WorldAssumption
  DEF Init, Alive, Counted, Skew, Met, ShardsTruthful, ManifestTruthful,
      Unanimous, NotYet, Drafted, VotedOn, Concluded, WorldAssumption
<1>3. RestoreTogether /\ CommittedIntact /\ DoneCommitted /\ ReturnedIsCommitted
  BY DEF Init, RestoreTogether, CommittedIntact, DoneCommitted,
         ReturnedIsCommitted
<1>4. QED
  BY <1>1, <1>2, <1>3 DEF IInv

\* A save is of a step after the one the run started from.
LEMMA SaveOfStep ==
  ASSUME TypeOK, Counted, NEW r \in Ranks,
         pc[r] \in {"write", "replace", "voting", "ready", "manifest",
                   "commit", "publishing", "done", "save_failed"}
  PROVE  step[r] \in Steps /\ source < step[r]
<1>1. step[r] \in 0..MaxStep /\ source \in 0..MaxStep /\ entered[r] \in Nat
  BY DEF TypeOK
<1>2. source < step[r]
  BY <1>1, WorldAssumption DEF Counted, Over, WorldAssumption
<1>3. QED
  BY <1>1, <1>2, WorldAssumption DEF Steps, WorldAssumption

\* Every step keeps the types.
LEMMA TypeStep == TypeOK /\ Counted /\ [Next]_vars => TypeOK'
<1> SUFFICES ASSUME TypeOK, Counted, [Next]_vars PROVE TypeOK'
  OBVIOUS
<1> USE WorldAssumption DEF TypeOK, WorldAssumption, Places, disk, launch,
        votes,
        Goto, Enter
<1>1. CASE Launch
  <2>1. run' \in 0..MaxRuns
    BY <1>1 DEF Launch
  <2>2. source' \in 0..MaxStep
    BY <1>1 DEF Launch, Directories, Steps, fresh
  <2>3. QED
    BY <1>1, <2>1, <2>2 DEF Launch
<1>2. CASE Reclaim
  BY <1>2 DEF Reclaim
<1>3. ASSUME NEW r \in Ranks, RankStep(r) \/ Exit(r)
      PROVE  TypeOK'
  <2>1. CASE Preflight(r)
    BY <2>1 DEF Preflight
  <2>2. CASE PreflightResult(r)
    BY <2>2 DEF PreflightResult
  <2>3. CASE Apply(r)
    <3>1. step' \in [Ranks -> 0..MaxStep]
      BY <2>3 DEF Apply
    <3>2. pc' \in [Ranks -> Places]
      BY <2>3 DEF Apply
    <3>3. QED
      BY <2>3, <3>1, <3>2 DEF Apply
  <2>4. CASE Train(r)
    BY <2>4 DEF Train
  <2>5. CASE StageShard(r)
    BY <2>5 DEF StageShard
  <2>6. CASE ShardError(r)
    BY <2>6 DEF ShardError
  <2>7. CASE PublishShard(r)
    <3>1. shard' \in [Steps -> [Ranks -> 0..MaxRuns]]
      BY <2>7, SaveOfStep DEF PublishShard
    <3>2. QED
      BY <2>7, <3>1 DEF PublishShard
  <2>8. CASE WriteResult(r)
    <3>1. pc' \in [Ranks -> Places]
      BY <2>8 DEF WriteResult
    <3>2. entered' \in [Ranks -> Nat]
      BY <2>8 DEF WriteResult
    <3>3. QED
      BY <2>8, <3>1, <3>2 DEF WriteResult
  <2>9. CASE ShardsReady(r)
    <3>1. pc' \in [Ranks -> Places]
      BY <2>9 DEF ShardsReady
    <3>2. entered' \in [Ranks -> Nat]
      BY <2>9 DEF ShardsReady
    <3>3. published' \in [Ranks -> {"open", "yes", "no"}]
      BY <2>9 DEF ShardsReady
    <3>4. QED
      BY <2>9, <3>1, <3>2, <3>3 DEF ShardsReady
  <2>10. CASE StageManifest(r)
    BY <2>10, SaveOfStep DEF StageManifest
  <2>11. CASE ManifestError(r)
    BY <2>11 DEF ManifestError
  <2>12. CASE PublishManifest(r)
    <3>1. committed' \subseteq Steps
      BY <2>12, SaveOfStep DEF PublishManifest
    <3>2. listed' \in [Steps -> [Ranks -> 0..MaxRuns]]
      BY <2>12, SaveOfStep DEF PublishManifest
    <3>3. QED
      BY <2>12, <3>1, <3>2 DEF PublishManifest
  <2>13. CASE PublishResult(r)
    <3>1. pc' \in [Ranks -> Places]
      BY <2>13 DEF PublishResult
    <3>2. entered' \in [Ranks -> Nat]
      BY <2>13 DEF PublishResult
    <3>3. QED
      BY <2>13, <3>1, <3>2 DEF PublishResult
  <2>14. CASE SaveReturn(r)
    BY <2>14, SaveOfStep DEF SaveReturn
  <2>15. CASE Exit(r)
    BY <2>15 DEF Exit
  <2>16. QED
    BY <1>3, <2>1, <2>2, <2>3, <2>4, <2>5, <2>6, <2>7, <2>8, <2>9, <2>10,
       <2>11, <2>12, <2>13, <2>14, <2>15
    DEF RankStep
<1>4. CASE UNCHANGED vars
  BY <1>4 DEF vars
<1>5. QED
  BY <1>1, <1>2, <1>3, <1>4 DEF Next

-----------------------------------------------------------------------------
(* The collectives                                                          *)

\* Every step keeps the count of collectives with the place of a rank.
LEMMA CountedStep == TypeOK /\ Counted /\ [Next]_vars => Counted'
<1> SUFFICES ASSUME TypeOK, Counted, [Next]_vars PROVE Counted'
  OBVIOUS
<1> USE WorldAssumption DEF TypeOK, Places, disk, launch, votes, Goto, Enter,
        WorldAssumption, Counted, Over, fresh
<1>1. CASE Launch
  BY <1>1 DEF Launch
<1>2. CASE Reclaim
  BY <1>2 DEF Reclaim
<1>3. ASSUME NEW r \in Ranks, RankStep(r) \/ Exit(r)
      PROVE  Counted'
  <2>1. CASE Preflight(r)
    BY <2>1 DEF Preflight
  <2>2. CASE PreflightResult(r)
    BY <2>2 DEF PreflightResult
  <2>3. CASE Apply(r)
    BY <2>3 DEF Apply
  <2>4. CASE Train(r)
    BY <2>4 DEF Train
  <2>5. CASE StageShard(r)
    BY <2>5 DEF StageShard
  <2>6. CASE ShardError(r)
    BY <2>6 DEF ShardError
  <2>7. CASE PublishShard(r)
    BY <2>7 DEF PublishShard
  <2>8. CASE WriteResult(r)
    BY <2>8 DEF WriteResult
  <2>9. CASE ShardsReady(r)
    BY <2>9 DEF ShardsReady
  <2>10. CASE StageManifest(r)
    BY <2>10 DEF StageManifest
  <2>11. CASE ManifestError(r)
    BY <2>11 DEF ManifestError
  <2>12. CASE PublishManifest(r)
    BY <2>12 DEF PublishManifest
  <2>13. CASE PublishResult(r)
    BY <2>13 DEF PublishResult
  <2>14. CASE SaveReturn(r)
    BY <2>14 DEF SaveReturn
  <2>15. CASE Exit(r)
    BY <2>15 DEF Exit
  <2>16. QED
    BY <1>3, <2>1, <2>2, <2>3, <2>4, <2>5, <2>6, <2>7, <2>8, <2>9, <2>10,
       <2>11, <2>12, <2>13, <2>14, <2>15
    DEF RankStep
<1>4. CASE UNCHANGED vars
  BY <1>4 DEF vars
<1>5. QED
  BY <1>1, <1>2, <1>3, <1>4 DEF Next

\* A rank that has met all others may enter the next collective.
LEMMA EnterNext ==
  ASSUME TypeOK, Skew, Met, NEW r \in Ranks, AllIn(r), Enter(r),
         NEW place \in {"voting", "ready", "publishing", "done"},
         Goto(r, place)
  PROVE  Skew' /\ Met'
<1> USE DEF TypeOK, Enter, Goto
<1>1. entered'[r] = entered[r] + 1 /\ \A q \in Ranks \ {r} : entered'[q] = entered[q]
  OBVIOUS
<1>2. \A q \in Ranks : entered[r] <= entered[q] /\ entered'[q] >= entered[q]
  BY <1>1 DEF AllIn
<1>3. Skew'
  BY <1>1, <1>2 DEF Skew
<1>4. ASSUME NEW p \in Ranks,
             pc'[p] \in {"train", "write", "replace", "manifest", "commit",
                        "save_failed"}
      PROVE  AllIn(p)'
  <2>1. p # r /\ pc'[p] = pc[p]
    BY <1>4
  <2>2. AllIn(p)
    BY <1>4, <2>1 DEF Met
  <2>3. QED
    BY <1>1, <1>2, <2>1, <2>2 DEF AllIn
<1>5. QED
  BY <1>3, <1>4 DEF Met

\* Every step keeps the ranks within one collective of each other.
LEMMA MetStep ==
  TypeOK /\ Counted /\ Skew /\ Met /\ [Next]_vars
    => (Skew /\ Met)'
<1> SUFFICES ASSUME TypeOK, Counted, Skew, Met, [Next]_vars
             PROVE  (Skew /\ Met)'
  OBVIOUS
<1> USE WorldAssumption DEF TypeOK, Places, disk, launch, votes, Goto, Enter,
        WorldAssumption, Skew, Met, AllIn
<1>1. CASE Launch
  BY <1>1 DEF Launch
<1>2. CASE Reclaim
  BY <1>2 DEF Reclaim
<1>3. ASSUME NEW r \in Ranks, RankStep(r) \/ Exit(r)
      PROVE  (Skew /\ Met)'
  <2>1. CASE Preflight(r)
    BY <2>1 DEF Preflight
  <2>2. CASE PreflightResult(r)
    BY <2>2 DEF PreflightResult
  <2>3. CASE Apply(r)
    <3>1. CASE pc' = [pc EXCEPT ![r] = "train"]
      BY <2>3, <3>1 DEF Apply, Counted
    <3>2. CASE pc' = [pc EXCEPT ![r] = "load_failed"]
      BY <2>3, <3>2 DEF Apply
    <3>3. QED
      BY <2>3, <3>1, <3>2 DEF Apply
  <2>4. CASE Train(r)
    BY <2>4 DEF Train
  <2>5. CASE StageShard(r)
    BY <2>5 DEF StageShard
  <2>6. CASE ShardError(r)
    BY <2>6 DEF ShardError
  <2>7. CASE PublishShard(r)
    BY <2>7 DEF PublishShard
  <2>8. CASE WriteResult(r)
    <3>1. CASE pc' = [pc EXCEPT ![r] = "ready"]
      BY <2>8, <3>1, EnterNext DEF WriteResult
    <3>2. CASE pc' = [pc EXCEPT ![r] = "save_failed"]
      BY <2>8, <3>2 DEF WriteResult
    <3>3. QED
      BY <2>8, <3>1, <3>2 DEF WriteResult
  <2>9. CASE ShardsReady(r)
    <3>1. CASE r = Primary
      BY <2>9, <3>1 DEF ShardsReady
    <3>2. CASE r # Primary
      BY <2>9, <3>2, EnterNext DEF ShardsReady
    <3>3. QED
      BY <2>9, <3>1, <3>2 DEF ShardsReady
  <2>10. CASE StageManifest(r)
    BY <2>10 DEF StageManifest
  <2>11. CASE ManifestError(r)
    BY <2>11 DEF ManifestError
  <2>12. CASE PublishManifest(r)
    BY <2>12 DEF PublishManifest
  <2>13. CASE PublishResult(r)
    <3>1. CASE pc' = [pc EXCEPT ![r] = "done"]
      BY <2>13, <3>1, EnterNext DEF PublishResult
    <3>2. CASE pc' = [pc EXCEPT ![r] = "save_failed"]
      BY <2>13, <3>2 DEF PublishResult
    <3>3. QED
      BY <2>13, <3>1, <3>2 DEF PublishResult
  <2>14. CASE SaveReturn(r)
    BY <2>14 DEF SaveReturn
  <2>15. CASE Exit(r)
    BY <2>15 DEF Exit
  <2>16. QED
    BY <1>3, <2>1, <2>2, <2>3, <2>4, <2>5, <2>6, <2>7, <2>8, <2>9, <2>10,
       <2>11, <2>12, <2>13, <2>14, <2>15
    DEF RankStep
<1>4. CASE UNCHANGED vars
  BY <1>4 DEF vars
<1>5. QED
  BY <1>1, <1>2, <1>3, <1>4 DEF Next

-----------------------------------------------------------------------------
(* The votes                                                                *)

\* Every rank that is there stays one of a run.
LEMMA AliveStep == TypeOK /\ Alive /\ [Next]_vars => Alive'
<1> SUFFICES ASSUME TypeOK, Alive, [Next]_vars PROVE Alive'
  OBVIOUS
<1> USE WorldAssumption DEF TypeOK, Places, disk, launch, votes, Goto, Enter,
        WorldAssumption, Alive, Runs
<1>1. CASE Launch
  BY <1>1 DEF Launch
<1>2. CASE Reclaim
  BY <1>2 DEF Reclaim
<1>3. ASSUME NEW r \in Ranks, RankStep(r) \/ Exit(r)
      PROVE  Alive'
  <2>1. CASE Preflight(r)
    BY <2>1 DEF Preflight
  <2>2. CASE PreflightResult(r)
    BY <2>2 DEF PreflightResult
  <2>3. CASE Apply(r)
    BY <2>3 DEF Apply
  <2>4. CASE Train(r)
    BY <2>4 DEF Train
  <2>5. CASE StageShard(r)
    BY <2>5 DEF StageShard
  <2>6. CASE ShardError(r)
    BY <2>6 DEF ShardError
  <2>7. CASE PublishShard(r)
    BY <2>7 DEF PublishShard
  <2>8. CASE WriteResult(r)
    BY <2>8 DEF WriteResult
  <2>9. CASE ShardsReady(r)
    BY <2>9 DEF ShardsReady
  <2>10. CASE StageManifest(r)
    BY <2>10 DEF StageManifest
  <2>11. CASE ManifestError(r)
    BY <2>11 DEF ManifestError
  <2>12. CASE PublishManifest(r)
    BY <2>12 DEF PublishManifest
  <2>13. CASE PublishResult(r)
    BY <2>13 DEF PublishResult
  <2>14. CASE SaveReturn(r)
    BY <2>14 DEF SaveReturn
  <2>15. CASE Exit(r)
    BY <2>15 DEF Exit
  <2>16. QED
    BY <1>3, <2>1, <2>2, <2>3, <2>4, <2>5, <2>6, <2>7, <2>8, <2>9, <2>10,
       <2>11, <2>12, <2>13, <2>14, <2>15
    DEF RankStep
<1>4. CASE UNCHANGED vars
  BY <1>4 DEF vars
<1>5. QED
  BY <1>1, <1>2, <1>3, <1>4 DEF Next

\* Every step keeps the ranks together in a restore.
LEMMA RestoreStep ==
  TypeOK /\ Alive /\ RestoreTogether /\ [Next]_vars
    => RestoreTogether'
<1> SUFFICES ASSUME TypeOK, Alive, RestoreTogether, [Next]_vars
             PROVE  RestoreTogether'
  OBVIOUS
<1> USE WorldAssumption DEF TypeOK, Places, disk, launch, votes, Goto, Enter,
        WorldAssumption, RestoreTogether, Alive
<1>1. CASE Launch
  BY <1>1 DEF Launch
<1>2. CASE Reclaim
  BY <1>2 DEF Reclaim
<1>3. ASSUME NEW r \in Ranks, RankStep(r) \/ Exit(r)
      PROVE  RestoreTogether'
  <2>1. CASE Preflight(r)
    BY <2>1 DEF Preflight
  <2>2. CASE PreflightResult(r)
    BY <2>2 DEF PreflightResult
  <2>3. CASE Apply(r)
    BY <2>3 DEF Apply
  <2>4. CASE Train(r)
    BY <2>4 DEF Train
  <2>5. CASE StageShard(r)
    BY <2>5 DEF StageShard
  <2>6. CASE ShardError(r)
    BY <2>6 DEF ShardError
  <2>7. CASE PublishShard(r)
    BY <2>7 DEF PublishShard
  <2>8. CASE WriteResult(r)
    BY <2>8 DEF WriteResult
  <2>9. CASE ShardsReady(r)
    BY <2>9 DEF ShardsReady
  <2>10. CASE StageManifest(r)
    BY <2>10 DEF StageManifest
  <2>11. CASE ManifestError(r)
    BY <2>11 DEF ManifestError
  <2>12. CASE PublishManifest(r)
    BY <2>12 DEF PublishManifest
  <2>13. CASE PublishResult(r)
    BY <2>13 DEF PublishResult
  <2>14. CASE SaveReturn(r)
    BY <2>14 DEF SaveReturn
  <2>15. CASE Exit(r)
    BY <2>15 DEF Exit
  <2>16. QED
    BY <1>3, <2>1, <2>2, <2>3, <2>4, <2>5, <2>6, <2>7, <2>8, <2>9, <2>10,
       <2>11, <2>12, <2>13, <2>14, <2>15
    DEF RankStep
<1>4. CASE UNCHANGED vars
  BY <1>4 DEF vars
<1>5. QED
  BY <1>1, <1>2, <1>3, <1>4 DEF Next

\* Every step keeps the answer of a vote the same for all ranks.
LEMMA UnanimousStep ==
  TypeOK /\ Counted /\ Skew /\ Met /\ Unanimous /\ [Next]_vars
    => Unanimous'
<1> SUFFICES ASSUME TypeOK, Counted, Skew, Met, Unanimous, [Next]_vars
             PROVE  Unanimous'
  OBVIOUS
<1> USE WorldAssumption DEF TypeOK, Places, disk, launch, votes, Goto, Enter,
        WorldAssumption, Counted, Over, Skew, Met, AllIn, Unanimous
<1>1. CASE Launch
  BY <1>1 DEF Launch
<1>2. CASE Reclaim
  BY <1>2 DEF Reclaim
<1>3. ASSUME NEW r \in Ranks, RankStep(r) \/ Exit(r)
      PROVE  Unanimous'
  <2>1. CASE Preflight(r)
    BY <2>1 DEF Preflight
  <2>2. CASE PreflightResult(r)
    BY <2>2 DEF PreflightResult
  <2>3. CASE Apply(r)
    BY <2>3 DEF Apply
  <2>4. CASE Train(r)
    BY <2>4 DEF Train
  <2>5. CASE StageShard(r)
    BY <2>5 DEF StageShard
  <2>6. CASE ShardError(r)
    BY <2>6 DEF ShardError
  <2>7. CASE PublishShard(r)
    BY <2>7 DEF PublishShard
  <2>8. CASE WriteResult(r)
    BY <2>8 DEF WriteResult
  <2>9. CASE ShardsReady(r)
    <3>1. CASE r = Primary
      BY <2>9, <3>1 DEF ShardsReady
    <3>2. CASE r # Primary
      <4>1. ASSUME NEW p \in Ranks, pc[p] = "save_failed",
                   entered[p] = Over(p) - 1
            PROVE  entered[r] < entered[p]
        BY <2>9, <4>1 DEF ShardsReady
      <4>2. ASSUME NEW p \in Ranks, pc'[p] = "save_failed",
                   entered'[p] = Over(p)' - 1
            PROVE  \E q \in Ranks : published'[q] # "yes"
        <5>1. p # r /\ pc[p] = "save_failed" /\ entered[p] = Over(p) - 1
          BY <2>9, <3>2, <4>2 DEF ShardsReady
        <5>2. PICK q \in Ranks : published[q] # "yes"
          BY <5>1
        <5>3. QED
          BY <2>9, <3>2, <4>1, <5>1, <5>2 DEF ShardsReady
      <4>3. QED
        <5>1. \A q \in Ranks : wrote'[q] = "yes"
          BY <2>9 DEF ShardsReady
        <5>2. \A q \in Ranks : published[q] = "yes" => published'[q] = "yes"
          BY <2>9, <3>2 DEF ShardsReady
        <5>3. ASSUME NEW p \in Ranks,
                     pc'[p] = "done" \/ (pc'[p] = "train" /\ entered'[p] > 0)
              PROVE  \A q \in Ranks : published'[q] = "yes"
          BY <2>9, <3>2, <5>2, <5>3 DEF ShardsReady
        <5>4. QED
          BY <4>2, <5>1, <5>3
    <3>3. QED
      BY <3>1, <3>2
  <2>10. CASE StageManifest(r)
    BY <2>10 DEF StageManifest
  <2>11. CASE ManifestError(r)
    BY <2>11 DEF ManifestError
  <2>12. CASE PublishManifest(r)
    BY <2>12 DEF PublishManifest
  <2>13. CASE PublishResult(r)
    BY <2>13 DEF PublishResult
  <2>14. CASE SaveReturn(r)
    BY <2>14 DEF SaveReturn
  <2>15. CASE Exit(r)
    BY <2>15 DEF Exit
  <2>16. QED
    BY <1>3, <2>1, <2>2, <2>3, <2>4, <2>5, <2>6, <2>7, <2>8, <2>9, <2>10,
       <2>11, <2>12, <2>13, <2>14, <2>15
    DEF RankStep
<1>4. CASE UNCHANGED vars
  BY <1>4 DEF vars
<1>5. QED
  BY <1>1, <1>2, <1>3, <1>4 DEF Next

\* Only the first vote of a save opens the time of the next one.
LEMMA VoteStands ==
  ASSUME TypeOK, TypeOK', NEW r \in Ranks, NEW s \in Steps, UNCHANGED source,
         Enter(r), entered[r] \in {Over(r) - 3, Over(r) - 2, Over(r) - 1},
         VotedOn(r, s)'
  PROVE  VotedOn(r, s)
<1>1. entered'[r] = entered[r] + 1
  BY DEF TypeOK, Enter
<1>2. source \in Int /\ s \in Int /\ step[r] \in Int /\ entered[r] \in Int
  BY WorldAssumption DEF TypeOK, Steps, WorldAssumption
<1>3. QED
  BY <1>1, <1>2 DEF VotedOn, Over

\* Only the second one opens the time of the next conclusion.
LEMMA ConclusionStands ==
  ASSUME TypeOK, TypeOK', NEW r \in Ranks, NEW s \in Steps, UNCHANGED source,
         Enter(r), entered[r] \in {Over(r) - 4, Over(r) - 3, Over(r) - 1},
         Concluded(r, s)'
  PROVE  Concluded(r, s)
<1>1. entered'[r] = entered[r] + 1
  BY DEF TypeOK, Enter
<1>2. source \in Int /\ s \in Int /\ step[r] \in Int /\ entered[r] \in Int
  BY WorldAssumption DEF TypeOK, Steps, WorldAssumption
<1>3. QED
  BY <1>1, <1>2 DEF Concluded, Over

\* Every step keeps the shards of ranks that voted for them.
LEMMA ShardsTruthfulStep ==
  TypeOK /\ TypeOK' /\ Counted /\ ShardsTruthful /\ [Next]_vars
    => ShardsTruthful'
<1> SUFFICES ASSUME TypeOK, TypeOK', Counted, ShardsTruthful, [Next]_vars
             PROVE  ShardsTruthful'
  OBVIOUS
<1> USE WorldAssumption DEF Places, disk, launch, votes, Goto, WorldAssumption
<1>1. CASE Launch
  BY <1>1 DEF Launch, ShardsTruthful, VotedOn
<1>2. CASE Reclaim
  BY <1>2 DEF Reclaim, ShardsTruthful, VotedOn
<1>3. ASSUME NEW r \in Ranks, RankStep(r) \/ Exit(r)
      PROVE  ShardsTruthful'
  <2>1. CASE Preflight(r)
    BY <2>1 DEF Preflight, ShardsTruthful, VotedOn
  <2>2. CASE PreflightResult(r)
    BY <2>2 DEF PreflightResult, ShardsTruthful, VotedOn
  <2>3. CASE Apply(r)
    BY <2>3 DEF Apply, ShardsTruthful, VotedOn
  <2>4. CASE Train(r)
    BY <2>4 DEF Train, ShardsTruthful, VotedOn
  <2>5. CASE StageShard(r)
    BY <2>5 DEF StageShard, ShardsTruthful, VotedOn
  <2>6. CASE ShardError(r)
    <3>1. ASSUME NEW q \in Ranks, wrote'[q] = "yes"
          PROVE  q # r /\ entered'[q] = entered[q] /\ wrote[q] = "yes"
      BY <2>6, <3>1 DEF ShardError, TypeOK, Enter
    <3>2. UNCHANGED <<shard, run, source>>
      BY <2>6 DEF ShardError
    <3>3. QED
      BY <3>1, <3>2 DEF ShardsTruthful, VotedOn
  <2>7. CASE PublishShard(r)
    <3>1. UNCHANGED <<run, source>> /\ step[r] \in Steps
      BY <2>7, SaveOfStep DEF PublishShard
    <3>2. ASSUME NEW s \in Steps, VotedOn(r, s)'
          PROVE  s = step[r]
      <4>1. entered'[r] = 4 * (step[r] - source) - 3
        BY <2>7 DEF PublishShard, Counted, Over, Enter, TypeOK
      <4>2. source \in Int /\ s \in Int /\ step[r] \in Int
        BY <3>1 DEF TypeOK, Steps
      <4>3. QED
        BY <3>1, <3>2, <4>1, <4>2 DEF VotedOn
    <3>3. shard'[step[r]][r] = run
      BY <2>7, <3>1 DEF PublishShard, TypeOK
    <3>4. ASSUME NEW q \in Ranks \ {r}, NEW s \in Steps
          PROVE  /\ wrote'[q] = wrote[q] /\ entered'[q] = entered[q]
                 /\ shard'[s][q] = shard[s][q]
      BY <2>7, <3>1 DEF PublishShard, TypeOK, Enter
    <3>5. QED
      BY <3>1, <3>2, <3>3, <3>4 DEF ShardsTruthful, VotedOn
  <2>8. CASE WriteResult(r)
    <3>1. ASSUME NEW q \in Ranks, NEW s \in Steps, VotedOn(q, s)', wrote'[q] = "yes"
          PROVE  VotedOn(q, s)
      <4>1. CASE q = r
        BY <2>8, <3>1, <4>1, VoteStands DEF WriteResult, Counted, VotedOn
      <4>2. CASE q # r
        BY <2>8, <3>1, <4>2 DEF WriteResult, VotedOn, Enter, TypeOK
      <4>3. QED
        BY <4>1, <4>2
    <3>2. UNCHANGED <<shard, run, wrote>>
      BY <2>8 DEF WriteResult
    <3>3. QED
      BY <3>1, <3>2 DEF ShardsTruthful
  <2>9. CASE ShardsReady(r)
    <3>1. ASSUME NEW q \in Ranks, NEW s \in Steps, VotedOn(q, s)', wrote'[q] = "yes"
          PROVE  VotedOn(q, s)
      <4>1. CASE q = r
        BY <2>9, <3>1, <4>1, VoteStands DEF ShardsReady, Counted, VotedOn
      <4>2. CASE q # r
        BY <2>9, <3>1, <4>2 DEF ShardsReady, VotedOn, Enter, TypeOK
      <4>3. QED
        BY <4>1, <4>2
    <3>2. UNCHANGED <<shard, run, wrote>>
      BY <2>9 DEF ShardsReady
    <3>3. QED
      BY <3>1, <3>2 DEF ShardsTruthful
  <2>10. CASE StageManifest(r)
    BY <2>10 DEF StageManifest, ShardsTruthful, VotedOn
  <2>11. CASE ManifestError(r)
    <3>1. ASSUME NEW q \in Ranks, NEW s \in Steps, VotedOn(q, s)', wrote'[q] = "yes"
          PROVE  VotedOn(q, s)
      <4>1. CASE q = r
        BY <2>11, <3>1, <4>1, VoteStands DEF ManifestError, Counted
      <4>2. CASE q # r
        BY <2>11, <3>1, <4>2 DEF ManifestError, VotedOn, Enter, TypeOK
      <4>3. QED
        BY <4>1, <4>2
    <3>2. UNCHANGED <<shard, run, wrote>>
      BY <2>11 DEF ManifestError
    <3>3. QED
      BY <3>1, <3>2 DEF ShardsTruthful
  <2>12. CASE PublishManifest(r)
    <3>1. ASSUME NEW q \in Ranks, NEW s \in Steps, VotedOn(q, s)', wrote'[q] = "yes"
          PROVE  VotedOn(q, s)
      <4>1. CASE q = r
        BY <2>12, <3>1, <4>1, VoteStands DEF PublishManifest, Counted
      <4>2. CASE q # r
        BY <2>12, <3>1, <4>2 DEF PublishManifest, VotedOn, Enter, TypeOK
      <4>3. QED
        BY <4>1, <4>2
    <3>2. UNCHANGED <<shard, run, wrote>>
      BY <2>12 DEF PublishManifest
    <3>3. QED
      BY <3>1, <3>2 DEF ShardsTruthful
  <2>13. CASE PublishResult(r)
    <3>1. ASSUME NEW q \in Ranks, NEW s \in Steps, VotedOn(q, s)', wrote'[q] = "yes"
          PROVE  VotedOn(q, s)
      <4>1. CASE q = r
        BY <2>13, <3>1, <4>1, VoteStands DEF PublishResult, Counted, VotedOn
      <4>2. CASE q # r
        BY <2>13, <3>1, <4>2 DEF PublishResult, VotedOn, Enter, TypeOK
      <4>3. QED
        BY <4>1, <4>2
    <3>2. UNCHANGED <<shard, run, wrote>>
      BY <2>13 DEF PublishResult
    <3>3. QED
      BY <3>1, <3>2 DEF ShardsTruthful
  <2>14. CASE SaveReturn(r)
    BY <2>14 DEF SaveReturn, ShardsTruthful, VotedOn
  <2>15. CASE Exit(r)
    BY <2>15 DEF Exit, ShardsTruthful, VotedOn
  <2>16. QED
    BY <1>3, <2>1, <2>2, <2>3, <2>4, <2>5, <2>6, <2>7, <2>8, <2>9, <2>10,
       <2>11, <2>12, <2>13, <2>14, <2>15
    DEF RankStep
<1>4. CASE UNCHANGED vars
  BY <1>4 DEF vars, ShardsTruthful, VotedOn
<1>5. QED
  BY <1>1, <1>2, <1>3, <1>4 DEF Next

\* Every step keeps the manifest behind a successful second vote.
LEMMA ManifestTruthfulStep ==
  TypeOK /\ TypeOK' /\ Counted /\ ManifestTruthful /\ [Next]_vars
    => ManifestTruthful'
<1> SUFFICES ASSUME TypeOK, TypeOK', Counted, ManifestTruthful, [Next]_vars
             PROVE  ManifestTruthful'
  OBVIOUS
<1> USE WorldAssumption DEF Places, disk, launch, votes, Goto, WorldAssumption
<1>1. CASE Launch
  BY <1>1 DEF Launch, ManifestTruthful, Concluded
<1>2. CASE Reclaim
  BY <1>2 DEF Reclaim, ManifestTruthful, Concluded
<1>3. ASSUME NEW r \in Ranks, RankStep(r) \/ Exit(r)
      PROVE  ManifestTruthful'
  <2>1. CASE Preflight(r)
    BY <2>1 DEF Preflight, ManifestTruthful, Concluded
  <2>2. CASE PreflightResult(r)
    BY <2>2 DEF PreflightResult, ManifestTruthful, Concluded
  <2>3. CASE Apply(r)
    BY <2>3 DEF Apply, ManifestTruthful, Concluded
  <2>4. CASE Train(r)
    BY <2>4 DEF Train, ManifestTruthful, Concluded
  <2>5. CASE StageShard(r)
    BY <2>5 DEF StageShard, ManifestTruthful, Concluded
  <2>6. CASE ShardError(r)
    <3>1. ASSUME NEW s \in Steps, Concluded(Primary, s)'
          PROVE  Concluded(Primary, s)
      <4>1. CASE Primary = r
        BY <2>6, <3>1, <4>1, ConclusionStands DEF ShardError, Counted, Concluded
      <4>2. CASE Primary # r
        BY <2>6, <3>1, <4>2 DEF ShardError, Concluded, Enter, TypeOK
      <4>3. QED
        BY <4>1, <4>2
    <3>2. UNCHANGED <<committed, published>>
      BY <2>6 DEF ShardError
    <3>3. QED
      BY <3>1, <3>2 DEF ManifestTruthful
  <2>7. CASE PublishShard(r)
    <3>1. ASSUME NEW s \in Steps, Concluded(Primary, s)'
          PROVE  Concluded(Primary, s)
      <4>1. CASE Primary = r
        BY <2>7, <3>1, <4>1, ConclusionStands DEF PublishShard, Counted,
           Concluded
      <4>2. CASE Primary # r
        BY <2>7, <3>1, <4>2 DEF PublishShard, Concluded, Enter, TypeOK
      <4>3. QED
        BY <4>1, <4>2
    <3>2. UNCHANGED <<committed, published>>
      BY <2>7 DEF PublishShard
    <3>3. QED
      BY <3>1, <3>2 DEF ManifestTruthful
  <2>8. CASE WriteResult(r)
    <3>1. ASSUME NEW s \in Steps, Concluded(Primary, s)'
          PROVE  Concluded(Primary, s)
      <4>1. CASE Primary = r
        BY <2>8, <3>1, <4>1, ConclusionStands DEF WriteResult, Counted,
           Concluded
      <4>2. CASE Primary # r
        BY <2>8, <3>1, <4>2 DEF WriteResult, Concluded, Enter, TypeOK
      <4>3. QED
        BY <4>1, <4>2
    <3>2. UNCHANGED <<committed, published>>
      BY <2>8 DEF WriteResult
    <3>3. QED
      BY <3>1, <3>2 DEF ManifestTruthful
  <2>9. CASE ShardsReady(r)
    BY <2>9 DEF ShardsReady, ManifestTruthful, Concluded, Enter, TypeOK
  <2>10. CASE StageManifest(r)
    BY <2>10 DEF StageManifest, ManifestTruthful, Concluded
  <2>11. CASE ManifestError(r)
    <3>1. r = Primary /\ published'[Primary] = "no"
      BY <2>11 DEF ManifestError, Counted, TypeOK
    <3>2. QED
      BY <3>1 DEF ManifestTruthful
  <2>12. CASE PublishManifest(r)
    <3>1. r = Primary /\ UNCHANGED source /\ step[r] \in Steps
      BY <2>12, SaveOfStep DEF PublishManifest, Counted
    <3>2. ASSUME NEW s \in Steps, Concluded(Primary, s)'
          PROVE  s = step[r]
      <4>1. entered'[r] = 4 * (step[r] - source) - 1
        BY <2>12 DEF PublishManifest, Counted, Over, Enter, TypeOK
      <4>2. source \in Int /\ s \in Int /\ step[r] \in Int
        BY <3>1 DEF TypeOK, Steps
      <4>3. QED
        BY <3>1, <3>2, <4>1, <4>2 DEF Concluded
    <3>3. QED
      BY <2>12, <3>2 DEF PublishManifest, ManifestTruthful
  <2>13. CASE PublishResult(r)
    <3>1. ASSUME NEW s \in Steps, Concluded(Primary, s)'
          PROVE  Concluded(Primary, s)
      <4>1. CASE Primary = r
        BY <2>13, <3>1, <4>1, ConclusionStands DEF PublishResult, Counted,
           Concluded
      <4>2. CASE Primary # r
        BY <2>13, <3>1, <4>2 DEF PublishResult, Concluded, Enter, TypeOK
      <4>3. QED
        BY <4>1, <4>2
    <3>2. UNCHANGED <<committed, published>>
      BY <2>13 DEF PublishResult
    <3>3. QED
      BY <3>1, <3>2 DEF ManifestTruthful
  <2>14. CASE SaveReturn(r)
    BY <2>14 DEF SaveReturn, ManifestTruthful, Concluded
  <2>15. CASE Exit(r)
    BY <2>15 DEF Exit, ManifestTruthful, Concluded
  <2>16. QED
    BY <1>3, <2>1, <2>2, <2>3, <2>4, <2>5, <2>6, <2>7, <2>8, <2>9, <2>10,
       <2>11, <2>12, <2>13, <2>14, <2>15
    DEF RankStep
<1>4. CASE UNCHANGED vars
  BY <1>4 DEF vars, ManifestTruthful, Concluded
<1>5. QED
  BY <1>1, <1>2, <1>3, <1>4 DEF Next

-----------------------------------------------------------------------------
(* The checkpoint                                                           *)

\* While the primary rank is at the manifest, every other rank has passed the
\* vote on the shards and waits for the manifest, and they are all there.
LEMMA ShardsReadyForManifest ==
  ASSUME TypeOK, Counted, Skew, Met, ShardsTruthful, Unanimous,
         pc[Primary] \in {"manifest", "commit"}
  PROVE  \A q \in Ranks :
           /\ entered[q] \in {Over(Primary) - 2, Over(Primary) - 1}
           /\ shard[step[Primary]][q] = run
<1>1. Primary \in Ranks /\ step[Primary] \in Steps /\ source < step[Primary]
  BY SaveOfStep, WorldAssumption DEF WorldAssumption
<1>2. entered[Primary] = Over(Primary) - 2 /\ AllIn(Primary)
  BY <1>1 DEF Counted, Met
<1>3. SUFFICES ASSUME NEW q \in Ranks
               PROVE  /\ entered[q] \in {Over(Primary) - 2, Over(Primary) - 1}
                      /\ shard[step[Primary]][q] = run
  OBVIOUS
<1>4. entered[Primary] <= entered[q] /\ entered[q] <= entered[Primary] + 1
  BY <1>1, <1>2 DEF AllIn, Skew
<1>5. /\ entered[q] \in Int /\ entered[Primary] \in Int
      /\ step[Primary] \in Int /\ source \in Int
  BY <1>1, WorldAssumption DEF TypeOK, Steps, WorldAssumption
<1>6. entered[q] \in {Over(Primary) - 2, Over(Primary) - 1}
  <2>1. Over(Primary) \in Int
    BY <1>5 DEF Over
  <2>2. QED
    BY <1>2, <1>4, <1>5, <2>1
<1>7. VotedOn(q, step[Primary])
  BY <1>1, <1>5, <1>6 DEF VotedOn, Over
<1>8. wrote[q] = "yes"
  BY <1>1 DEF Unanimous
<1>9. QED
  BY <1>1, <1>6, <1>7, <1>8 DEF ShardsTruthful

\* When every rank has said yes to the manifest, the step is committed.
LEMMA AllYesIsCommitted ==
  ASSUME TypeOK, Counted, Skew, ManifestTruthful, NEW r \in Ranks,
         pc[r] = "publishing", AllIn(r), \A q \in Ranks : published[q] = "yes"
  PROVE  step[r] \in committed
<1>1. Primary \in Ranks /\ step[r] \in Steps /\ source < step[r]
  BY SaveOfStep, WorldAssumption DEF WorldAssumption
<1>2. entered[r] = Over(r) - 1
  BY DEF Counted
<1>3. entered[r] <= entered[Primary] /\ entered[Primary] <= entered[r] + 1
  BY <1>1 DEF AllIn, Skew
<1>4. /\ entered[r] \in Int /\ entered[Primary] \in Int
      /\ step[r] \in Int /\ source \in Int
  BY <1>1, WorldAssumption DEF TypeOK, Steps, WorldAssumption
<1>5. Concluded(Primary, step[r])
  BY <1>1, <1>2, <1>3, <1>4 DEF Concluded, Over
<1>6. QED
  BY <1>1, <1>5 DEF ManifestTruthful

\* Every step keeps committed steps out of the saves under way.
LEMMA NotYetStep ==
  TypeOK /\ Counted /\ Skew /\ Met /\ ShardsTruthful /\ Unanimous
     /\ NotYet /\ [Next]_vars
    => NotYet'
<1> SUFFICES ASSUME TypeOK, Counted, Skew, Met, ShardsTruthful, Unanimous,
                    NotYet, [Next]_vars
             PROVE  NotYet'
  OBVIOUS
<1> USE WorldAssumption DEF TypeOK, Places, disk, launch, votes, Goto, Enter,
        WorldAssumption, NotYet
<1>1. CASE Launch
  BY <1>1 DEF Launch
<1>2. CASE Reclaim
  BY <1>2 DEF Reclaim
<1>3. ASSUME NEW r \in Ranks, RankStep(r) \/ Exit(r)
      PROVE  NotYet'
  <2>1. CASE Preflight(r)
    BY <2>1 DEF Preflight
  <2>2. CASE PreflightResult(r)
    BY <2>2 DEF PreflightResult
  <2>3. CASE Apply(r)
    BY <2>3 DEF Apply
  <2>4. CASE Train(r)
    BY <2>4 DEF Train
  <2>5. CASE StageShard(r)
    BY <2>5 DEF StageShard
  <2>6. CASE ShardError(r)
    BY <2>6 DEF ShardError
  <2>7. CASE PublishShard(r)
    BY <2>7 DEF PublishShard
  <2>8. CASE WriteResult(r)
    BY <2>8 DEF WriteResult, Unanimous
  <2>9. CASE ShardsReady(r)
    BY <2>9 DEF ShardsReady
  <2>10. CASE StageManifest(r)
    BY <2>10 DEF StageManifest
  <2>11. CASE ManifestError(r)
    BY <2>11 DEF ManifestError
  <2>12. CASE PublishManifest(r)
    <3>1. r = Primary /\ pc[r] = "commit" /\ step' = step
      BY <2>12 DEF PublishManifest, Counted
    <3>2. ASSUME NEW p \in Ranks, pc'[p] = "replace"
          PROVE  step'[p] \notin committed'
      <4>1. p # r /\ pc[p] = "replace" /\ step[p] \notin committed
        BY <2>12, <3>2 DEF PublishManifest
      <4>2. entered[p] = Over(p) - 4 /\ AllIn(p) /\ entered[r] = Over(r) - 2
        BY <2>12, <4>1 DEF Counted, Met, PublishManifest
      <4>3. entered[p] \in {Over(r) - 2, Over(r) - 1}
        BY <3>1, ShardsReadyForManifest
      <4>4. step[p] # step[r]
        <5>1. step[p] \in Int /\ step[r] \in Int /\ source \in Int
          OBVIOUS
        <5>2. QED
          BY <5>1, <4>2, <4>3 DEF Over
      <4>5. QED
        BY <2>12, <4>1, <4>4 DEF PublishManifest
    <3>3. pc'[Primary] = "publishing"
      BY <2>12, <3>1 DEF PublishManifest
    <3>4. QED
      BY <3>2, <3>3
  <2>13. CASE PublishResult(r)
    BY <2>13 DEF PublishResult
  <2>14. CASE SaveReturn(r)
    BY <2>14 DEF SaveReturn
  <2>15. CASE Exit(r)
    BY <2>15 DEF Exit
  <2>16. QED
    BY <1>3, <2>1, <2>2, <2>3, <2>4, <2>5, <2>6, <2>7, <2>8, <2>9, <2>10,
       <2>11, <2>12, <2>13, <2>14, <2>15
    DEF RankStep
<1>4. CASE UNCHANGED vars
  BY <1>4 DEF vars
<1>5. QED
  BY <1>1, <1>2, <1>3, <1>4 DEF Next

\* Every step keeps a draft of a manifest to shards of its run.
LEMMA DraftedStep ==
  TypeOK /\ Counted /\ Skew /\ Met /\ ShardsTruthful /\ Unanimous
     /\ Drafted /\ [Next]_vars
    => Drafted'
<1> SUFFICES ASSUME TypeOK, Counted, Skew, Met, ShardsTruthful, Unanimous,
                    Drafted, [Next]_vars
             PROVE  Drafted'
  OBVIOUS
<1> USE WorldAssumption DEF TypeOK, Places, disk, launch, votes, Goto, Enter,
        WorldAssumption, Drafted
<1>1. CASE Launch
  BY <1>1 DEF Launch
<1>2. CASE Reclaim
  BY <1>2 DEF Reclaim
<1>3. ASSUME NEW r \in Ranks, RankStep(r) \/ Exit(r)
      PROVE  Drafted'
  <2>1. CASE Preflight(r)
    BY <2>1 DEF Preflight
  <2>2. CASE PreflightResult(r)
    BY <2>2 DEF PreflightResult
  <2>3. CASE Apply(r)
    BY <2>3 DEF Apply
  <2>4. CASE Train(r)
    BY <2>4 DEF Train
  <2>5. CASE StageShard(r)
    BY <2>5 DEF StageShard
  <2>6. CASE ShardError(r)
    BY <2>6 DEF ShardError
  <2>7. CASE PublishShard(r)
    BY <2>7 DEF PublishShard
  <2>8. CASE WriteResult(r)
    BY <2>8 DEF WriteResult
  <2>9. CASE ShardsReady(r)
    BY <2>9 DEF ShardsReady
  <2>10. CASE StageManifest(r)
    <3>1. r = Primary
      BY <2>10 DEF StageManifest, Counted
    <3>2. \A q \in Ranks : shard[step[r]][q] = run
      BY <2>10, <3>1, ShardsReadyForManifest DEF StageManifest
    <3>3. QED
      BY <2>10, <3>1, <3>2 DEF StageManifest
  <2>11. CASE ManifestError(r)
    BY <2>11 DEF ManifestError
  <2>12. CASE PublishManifest(r)
    BY <2>12 DEF PublishManifest
  <2>13. CASE PublishResult(r)
    BY <2>13 DEF PublishResult
  <2>14. CASE SaveReturn(r)
    BY <2>14 DEF SaveReturn
  <2>15. CASE Exit(r)
    BY <2>15 DEF Exit
  <2>16. QED
    BY <1>3, <2>1, <2>2, <2>3, <2>4, <2>5, <2>6, <2>7, <2>8, <2>9, <2>10,
       <2>11, <2>12, <2>13, <2>14, <2>15
    DEF RankStep
<1>4. CASE UNCHANGED vars
  BY <1>4 DEF vars
<1>5. QED
  BY <1>1, <1>2, <1>3, <1>4 DEF Next

\* Every step keeps committed checkpoints whole.
LEMMA IntactStep ==
  TypeOK /\ Alive /\ Counted /\ Skew /\ Met /\ ShardsTruthful
     /\ Unanimous /\ NotYet /\ Drafted /\ CommittedIntact /\ [Next]_vars
    => CommittedIntact'
<1> SUFFICES ASSUME TypeOK, Alive, Counted, Skew, Met, ShardsTruthful,
                    Unanimous, NotYet, Drafted, CommittedIntact, [Next]_vars
             PROVE  CommittedIntact'
  OBVIOUS
<1> USE WorldAssumption DEF TypeOK, Places, disk, launch, votes, Goto, Enter,
        WorldAssumption, CommittedIntact
<1>1. CASE Launch
  BY <1>1 DEF Launch
<1>2. CASE Reclaim
  BY <1>2 DEF Reclaim
<1>3. ASSUME NEW r \in Ranks, RankStep(r) \/ Exit(r)
      PROVE  CommittedIntact'
  <2>1. CASE Preflight(r)
    BY <2>1 DEF Preflight
  <2>2. CASE PreflightResult(r)
    BY <2>2 DEF PreflightResult
  <2>3. CASE Apply(r)
    BY <2>3 DEF Apply
  <2>4. CASE Train(r)
    BY <2>4 DEF Train
  <2>5. CASE StageShard(r)
    BY <2>5 DEF StageShard
  <2>6. CASE ShardError(r)
    BY <2>6 DEF ShardError
  <2>7. CASE PublishShard(r)
    <3>1. step[r] \in Steps \ committed
      BY <2>7, SaveOfStep DEF PublishShard, NotYet
    <3>2. \A s \in committed : shard'[s] = shard[s]
      BY <2>7, <3>1 DEF PublishShard
    <3>3. QED
      BY <2>7, <3>2 DEF PublishShard
  <2>8. CASE WriteResult(r)
    BY <2>8 DEF WriteResult
  <2>9. CASE ShardsReady(r)
    BY <2>9 DEF ShardsReady
  <2>10. CASE StageManifest(r)
    BY <2>10 DEF StageManifest
  <2>11. CASE ManifestError(r)
    BY <2>11 DEF ManifestError
  <2>12. CASE PublishManifest(r)
    <3>1. r = Primary /\ step[r] \in Steps /\ run \in Runs
      BY <2>12, SaveOfStep DEF PublishManifest, Counted, Alive
    <3>2. \A q \in Ranks : shard[step[r]][q] = run /\ draft[q] = run
      BY <2>12, <3>1, ShardsReadyForManifest DEF PublishManifest, Drafted
    <3>3. /\ shard' = shard /\ listed'[step[r]] = draft
          /\ committed' = committed \union {step[r]}
          /\ \A s \in Steps \ {step[r]} : listed'[s] = listed[s]
      BY <2>12, <3>1 DEF PublishManifest
    <3>4. QED
      BY <3>1, <3>2, <3>3
  <2>13. CASE PublishResult(r)
    BY <2>13 DEF PublishResult
  <2>14. CASE SaveReturn(r)
    BY <2>14 DEF SaveReturn
  <2>15. CASE Exit(r)
    BY <2>15 DEF Exit
  <2>16. QED
    BY <1>3, <2>1, <2>2, <2>3, <2>4, <2>5, <2>6, <2>7, <2>8, <2>9, <2>10,
       <2>11, <2>12, <2>13, <2>14, <2>15
    DEF RankStep
<1>4. CASE UNCHANGED vars
  BY <1>4 DEF vars
<1>5. QED
  BY <1>1, <1>2, <1>3, <1>4 DEF Next

\* Every step keeps returned saves committed.
LEMMA DoneStep ==
  TypeOK /\ Counted /\ Skew /\ ManifestTruthful /\ DoneCommitted
     /\ ReturnedIsCommitted /\ [Next]_vars
    => (DoneCommitted /\ ReturnedIsCommitted)'
<1> SUFFICES ASSUME TypeOK, Counted, Skew, ManifestTruthful, DoneCommitted,
                    ReturnedIsCommitted, [Next]_vars
             PROVE  (DoneCommitted /\ ReturnedIsCommitted)'
  OBVIOUS
<1> USE WorldAssumption DEF TypeOK, Places, disk, launch, votes, Goto, Enter,
        WorldAssumption, DoneCommitted, ReturnedIsCommitted
<1>1. CASE Launch
  BY <1>1 DEF Launch
<1>2. CASE Reclaim
  BY <1>2 DEF Reclaim
<1>3. ASSUME NEW r \in Ranks, RankStep(r) \/ Exit(r)
      PROVE  (DoneCommitted /\ ReturnedIsCommitted)'
  <2>1. CASE Preflight(r)
    BY <2>1 DEF Preflight
  <2>2. CASE PreflightResult(r)
    BY <2>2 DEF PreflightResult
  <2>3. CASE Apply(r)
    BY <2>3 DEF Apply
  <2>4. CASE Train(r)
    BY <2>4 DEF Train
  <2>5. CASE StageShard(r)
    BY <2>5 DEF StageShard
  <2>6. CASE ShardError(r)
    BY <2>6 DEF ShardError
  <2>7. CASE PublishShard(r)
    BY <2>7 DEF PublishShard
  <2>8. CASE WriteResult(r)
    BY <2>8 DEF WriteResult
  <2>9. CASE ShardsReady(r)
    BY <2>9 DEF ShardsReady
  <2>10. CASE StageManifest(r)
    BY <2>10 DEF StageManifest
  <2>11. CASE ManifestError(r)
    BY <2>11 DEF ManifestError
  <2>12. CASE PublishManifest(r)
    BY <2>12 DEF PublishManifest
  <2>13. CASE PublishResult(r)
    <3>1. CASE pc' = [pc EXCEPT ![r] = "done"]
      <4>1. pc' # [pc EXCEPT ![r] = "save_failed"]
        BY <3>1
      <4>2. step[r] \in committed
        BY <2>13, <4>1, AllYesIsCommitted DEF PublishResult
      <4>3. QED
        BY <2>13, <3>1, <4>2 DEF PublishResult
    <3>2. CASE pc' = [pc EXCEPT ![r] = "save_failed"]
      BY <2>13, <3>2 DEF PublishResult
    <3>3. QED
      BY <2>13, <3>1, <3>2 DEF PublishResult
  <2>14. CASE SaveReturn(r)
    BY <2>14 DEF SaveReturn
  <2>15. CASE Exit(r)
    BY <2>15 DEF Exit
  <2>16. QED
    BY <1>3, <2>1, <2>2, <2>3, <2>4, <2>5, <2>6, <2>7, <2>8, <2>9, <2>10,
       <2>11, <2>12, <2>13, <2>14, <2>15
    DEF RankStep
<1>4. CASE UNCHANGED vars
  BY <1>4 DEF vars
<1>5. QED
  BY <1>1, <1>2, <1>3, <1>4 DEF Next

-----------------------------------------------------------------------------
(* The theorems                                                             *)

\* Every step keeps the invariant.
LEMMA InvStep == IInv /\ [Next]_vars => IInv'
<1> SUFFICES ASSUME IInv, [Next]_vars PROVE IInv'
  OBVIOUS
<1>1. TypeOK'
  BY TypeStep DEF IInv
<1>2. Alive' /\ RestoreTogether'
  BY AliveStep, RestoreStep DEF IInv
<1>3. Counted' /\ Skew' /\ Met'
  BY CountedStep, MetStep DEF IInv
<1>4. ShardsTruthful' /\ ManifestTruthful' /\ Unanimous'
  BY <1>1, ShardsTruthfulStep, ManifestTruthfulStep, UnanimousStep DEF IInv
<1>5. NotYet' /\ Drafted' /\ CommittedIntact'
  BY NotYetStep, DraftedStep, IntactStep DEF IInv
<1>6. DoneCommitted' /\ ReturnedIsCommitted'
  BY DoneStep DEF IInv
<1>7. QED
  BY <1>1, <1>2, <1>3, <1>4, <1>5, <1>6 DEF IInv

\* The inductive invariant holds in every behaviour.
THEOREM Inductive == Spec => []IInv
<1>1. QED
  BY InitIInv, InvStep, PTL DEF Spec

\* Every variable of the checkpoint protocol keeps its type.
THEOREM TypeCorrect == Spec => []TypeOK
<1>1. IInv => TypeOK
  BY DEF IInv
<1>2. QED
  BY <1>1, Inductive, PTL

\* A committed checkpoint is of one run, and its shards are the ones the
\* manifest lists: a retry neither mixes nor replaces them
\* (save_rank_sharded_training_checkpoint).
THEOREM CommittedStaysIntact == Spec => []CommittedIntact
<1>1. IInv => CommittedIntact
  BY DEF IInv
<1>2. QED
  BY <1>1, Inductive, PTL

\* A save that returned on any rank is committed.
THEOREM ReturnedSavesAreCommitted == Spec => []ReturnedIsCommitted
<1>1. IInv => ReturnedIsCommitted
  BY DEF IInv
<1>2. QED
  BY <1>1, Inductive, PTL

\* A set of steps that is not empty has a last one.
LEMMA LastStep ==
  ASSUME NEW S \in SUBSET Steps, S # {}
  PROVE  \E s \in S : \A t \in S : t <= s
<1> USE WorldAssumption DEF WorldAssumption, Steps
<1> DEFINE T == {MaxStep - s : s \in S}
<1>1. T \subseteq Nat /\ T # {}
  <2>1. \A s \in S : MaxStep - s \in Nat
    OBVIOUS
  <2>2. QED
    BY <2>1
<1>2. PICK n \in T : \A m \in T : n <= m
  <2> HIDE DEF T
  <2>1. \E n \in T : \A m \in T : <<m, n>> \notin OpToRel(<, Nat)
    BY <1>1, NatLessThanWellFounded, WFMin
  <2>2. \A m, n \in Nat : <<m, n>> \notin OpToRel(<, Nat) => ~ m < n
    BY DEF OpToRel
  <2>3. \A m, n \in Nat : ~ m < n => n <= m
    OBVIOUS
  <2>4. QED
    BY <1>1, <2>1, <2>2, <2>3
<1>3. PICK s \in S : n = MaxStep - s
  BY <1>2
<1>4. ASSUME NEW t \in S PROVE t <= s
  <2>1. n <= MaxStep - t
    BY <1>2, <1>4
  <2>2. QED
    BY <1>3, <2>1
<1>5. QED
  BY <1>3, <1>4

\* A committed checkpoint has all its shards.
LEMMA CommittedIsWhole ==
  ASSUME CommittedIntact PROVE Committed = committed
<1>1. ASSUME NEW s \in committed PROVE \A r \in Ranks : shard[s][r] # none
  <2>1. PICK w \in Runs : \A r \in Ranks : shard[s][r] = w
    BY <1>1 DEF CommittedIntact
  <2>2. w # none
    BY WorldAssumption DEF Runs, none, WorldAssumption
  <2>3. QED
    BY <2>1, <2>2
<1>2. QED
  BY <1>1 DEF Committed

\* The invariant implies that what find_latest returns can be loaded.
LEMMA LatestFollows == IInv => LatestLoads
<1> SUFFICES ASSUME IInv PROVE LatestLoads
  OBVIOUS
<1>1. Committed = committed /\ committed \subseteq Steps /\ saved \subseteq committed
  BY CommittedIsWhole DEF IInv, TypeOK, ReturnedIsCommitted
<1>2. CASE committed = {}
  BY <1>1, <1>2 DEF LatestLoads, Latest, fresh
<1>3. CASE committed # {}
  <2>1. Latest \in committed /\ \A t \in committed : t <= Latest
    BY <1>1, <1>3, LastStep DEF Latest
  <2>2. PICK w \in Runs :
          \A r \in Ranks : shard[Latest][r] = w /\ listed[Latest][r] = w
    BY <2>1 DEF IInv, CommittedIntact
  <2>3. shard[Latest] = listed[Latest]
    <3>1. /\ shard[Latest] \in [Ranks -> 0..MaxRuns]
          /\ listed[Latest] \in [Ranks -> 0..MaxRuns]
      BY <1>1, <2>1 DEF IInv, TypeOK
    <3>2. QED
      BY <2>2, <3>1
  <2>4. QED
    BY <1>1, <2>1, <2>3 DEF LatestLoads
<1>4. QED
  BY <1>2, <1>3

\* The checkpoint that find_latest_committed_tpu_checkpoint returns can be
\* loaded by every rank, and no save that returned is newer.
THEOREM LatestCanBeLoaded == Spec => []LatestLoads
<1>1. QED
  BY LatestFollows, Inductive, PTL

\* The invariant implies that saves end alike on all ranks.
LEMMA AgreementFollows == IInv => SavesAgree
<1> SUFFICES ASSUME IInv, NEW r \in Ranks, NEW q \in Ranks,
                    pc[r] = "save_failed",
                    pc[q] = "done" \/ (pc[q] = "train" /\ entered[q] > 0),
                    step[r] = step[q]
             PROVE  FALSE
  BY DEF SavesAgree
<1>1. entered[q] = Over(r) /\ entered[r] \in {Over(r) - 3, Over(r) - 1}
  BY DEF IInv, Counted, Over
<1>2. entered[q] <= entered[r] + 1
  BY DEF IInv, Skew
<1>3. Over(r) \in Int
  <2>1. step[r] \in Int /\ source \in Int
    BY WorldAssumption DEF IInv, TypeOK, WorldAssumption
  <2>2. QED
    BY <2>1 DEF Over
<1>4. entered[r] = Over(r) - 1
  BY <1>1, <1>2, <1>3
<1>5. (\E p \in Ranks : published[p] # "yes") /\ \A p \in Ranks : published[p] = "yes"
  BY <1>4 DEF IInv, Unanimous
<1>6. QED
  BY <1>5

\* No rank returns from a save from which another one raises
\* (_all_ranks_succeeded).
THEOREM RanksAgree == Spec => []SavesAgree
<1>1. QED
  BY AgreementFollows, Inductive, PTL

\* No rank restores anything unless all ranks have validated their shards
\* (load_rank_sharded_training_checkpoint).
THEOREM RestoredTogether == Spec => []RestoreTogether
<1>1. IInv => RestoreTogether
  BY DEF IInv
<1>2. QED
  BY <1>1, Inductive, PTL

-----------------------------------------------------------------------------
(* The refinement                                                           *)

\* What is stored for a step: the run that wrote all its shards.
LEMMA StoredRun ==
  ASSUME CommittedIntact, NEW s \in Steps
  PROVE  Stored(s) = IF s \in committed THEN shard[s][Primary] ELSE none
<1>1. CASE s \in committed
  <2>1. PICK w \in Runs : \A r \in Ranks : shard[s][r] = w
    BY <1>1 DEF CommittedIntact
  <2>2. QED
    BY <1>1, <2>1 DEF Stored
<1>2. CASE s \notin committed
  BY <1>2 DEF Stored
<1>3. QED
  BY <1>1, <1>2

\* The same in the state after a step.
LEMMA StoredRunNext ==
  ASSUME CommittedIntact', NEW s \in Steps
  PROVE  Stored(s)' = IF s \in committed' THEN shard'[s][Primary] ELSE none
<1>1. CASE s \in committed'
  <2>1. PICK w \in Runs : \A r \in Ranks : shard'[s][r] = w
    BY <1>1 DEF CommittedIntact
  <2>2. QED
    BY <1>1, <2>1 DEF Stored
<1>2. CASE s \notin committed'
  BY <1>2 DEF Stored
<1>3. QED
  BY <1>1, <1>2

\* A step that leaves the manifests and the committed shards alone is a
\* stutter of the store.
LEMMA StoreKept ==
  ASSUME CommittedIntact, CommittedIntact', committed' = committed,
         \A s \in committed : shard'[s] = shard[s]
  PROVE  UNCHANGED [s \in Steps |-> Stored(s)]
<1>1. ASSUME NEW s \in Steps PROVE Stored(s)' = Stored(s)
  BY <1>1, StoredRun, StoredRunNext
<1>2. QED
  BY <1>1

\* Every step is one of the checkpoint store or a stutter.
LEMMA StoreStep ==
  IInv /\ [Next]_vars
    => [Store!Commit]_([s \in Steps |-> Stored(s)])
<1> SUFFICES ASSUME IInv, [Next]_vars
             PROVE  \/ Store!Commit
                    \/ UNCHANGED [s \in Steps |-> Stored(s)]
  OBVIOUS
<1>1. CommittedIntact /\ CommittedIntact'
  BY InvStep DEF IInv
<1>2. ASSUME NEW r \in Ranks, PublishManifest(r)
      PROVE  Store!Commit
  <2>1. r = Primary /\ run \in Runs /\ step[r] \in Steps
    BY <1>2, SaveOfStep DEF PublishManifest, IInv, Counted, Alive
  <2> PICK t \in Steps : t = step[r]
    BY <2>1
  <2>2. t \notin committed
    BY <1>2, <2>1 DEF PublishManifest, IInv, NotYet
  <2>3. shard' = shard /\ committed' = committed \union {t}
    BY <1>2 DEF PublishManifest
  <2>4. shard[t][Primary] = run
    BY <1>2, <2>1, ShardsReadyForManifest, WorldAssumption
    DEF PublishManifest, IInv, WorldAssumption
  <2>5. Stored(t) = none /\ Stored(t)' = run
    BY <1>1, <2>1, <2>2, <2>3, <2>4, StoredRun, StoredRunNext
  <2>6. \A s \in Steps \ {t} : Stored(s)' = Stored(s)
    BY <1>1, <2>3, StoredRun, StoredRunNext
  <2>7. [s \in Steps |-> Stored(s)]'
          = [[s \in Steps |-> Stored(s)] EXCEPT ![t] = run]
    BY <2>1, <2>5, <2>6
  <2>8. QED
    BY <2>1, <2>5, <2>7 DEF Store!Commit
<1>3. ASSUME NEW r \in Ranks, PublishShard(r)
      PROVE  UNCHANGED [s \in Steps |-> Stored(s)]
  <2>1. step[r] \in Steps \ committed
    BY <1>3, SaveOfStep DEF PublishShard, IInv, NotYet
  <2>2. committed' = committed /\ \A s \in committed : shard'[s] = shard[s]
    BY <1>3, <2>1 DEF PublishShard, IInv, TypeOK
  <2>3. QED
    BY <1>1, <2>2, StoreKept
<1>4. ASSUME UNCHANGED <<shard, committed>>
      PROVE  UNCHANGED [s \in Steps |-> Stored(s)]
  BY <1>1, <1>4, StoreKept
<1>5. CASE Launch \/ Reclaim \/ UNCHANGED vars
  BY <1>4, <1>5 DEF Launch, Reclaim, vars, disk
<1>6. ASSUME NEW r \in Ranks, RankStep(r) \/ Exit(r),
             ~ PublishShard(r), ~ PublishManifest(r)
      PROVE  UNCHANGED <<shard, committed>>
  BY <1>6
  DEF RankStep, Exit, Preflight, PreflightResult, Apply, Train, StageShard,
      ShardError, WriteResult, ShardsReady, StageManifest, ManifestError,
      PublishResult, SaveReturn, disk
<1>7. QED
  BY <1>2, <1>3, <1>4, <1>5, <1>6 DEF Next

\* The directory is an atomic store: a checkpoint appears whole, as the work of
\* one run, and is never replaced (save_rank_sharded_training_checkpoint).
THEOREM Refines == Spec => AtomicStore
<1>1. Init => Store!Init
  BY DEF Init, Store!Init, Stored
<1>2. QED
  BY <1>1, StoreStep, Inductive, PTL DEF Spec, AtomicStore, Store!Spec
=============================================================================
