------------------------ MODULE PretrainingRunProofs ------------------------
(***************************************************************************)
(* Proofs about ScratchRun, the output directory of a from-scratch run,    *)
(* and about PretrainingRun, the sessions that use it, for any budgets,    *)
(* horizons, limits, failures and number of sessions.                      *)
(*                                                                         *)
(* A budget extension leaves run_config.json and the checkpoints of two    *)
(* budgets side by side.  Started says which of the two a process is bound *)
(* to at each place, and Kept that a checkpoint of the older budget stays  *)
(* until run_config.json names the newer one.                              *)
(***************************************************************************)
EXTENDS PretrainingRun, FiniteSetTheorems, TLAPS

-----------------------------------------------------------------------------
(* The inductive invariant of ScratchRun                                    *)

\* A process is bound to the budget of run_config.json, or extends it.
Started ==
  pc # "down" =>
    /\ budget \in Budgets
    /\ IF pc = "init_publish"
       THEN config = none /\ Saved = {} /\ pending = none
       ELSE config \in Budgets
    /\ pending = none => active = budget
    /\ pending = none /\ pc # "init_publish" => config = budget
    /\ pending # none =>
         /\ pending = budget /\ ExtensionAllowed(config, budget)
         /\ active \in {config, budget}

\* At which places an extension is under way, and how far it is.
Phased ==
  /\ pc \in {"config_write", "config_publish", "catch_up"} => pending # none
  /\ pc \in {"mark", "mark_publish", "prune"} => pending = none
  /\ pending # none /\ pc \in {"ready", "loaded", "catch_up"}
       => active = config
  /\ pending # none /\ pc \in {"train", "stage", "publish", "config_write",
                               "config_publish"}
       => active = pending
  /\ pc \in {"init_publish", "train", "stage", "publish", "config_write",
             "config_publish", "mark", "mark_publish", "prune"}
       => extended = "no"
  /\ extended = "yes" /\ pc # "down" => pending # none
  /\ pc = "catch_up" => extended = "yes"

Saving == {"stage", "publish", "config_write", "config_publish", "mark",
           "mark_publish", "prune"}

\* The update that is being saved, or the checkpoint that was loaded.
Placed ==
  /\ pc \in Saving => step \in Steps /\ step <= Horizon(budget)
  /\ pc = "loaded" => step \in Saved /\ Compatible(step)
  /\ pc = "loaded" /\ extended = "no" => state[step] = active

\* A checkpoint of the older budget is there until run_config.json names the
\* newer one, and one of the newer budget when it does.
Kept ==
  /\ pc = "train" /\ pending # none => step \in Saved /\ state[step] = config
  /\ pc \in {"stage", "publish", "config_write", "config_publish"}
     /\ pending # none
       => step - 1 \in Saved /\ state[step - 1] = config
  /\ extended = "yes" /\ pc \in {"ready", "loaded", "catch_up"}
       => \E s \in Saved : state[s] = pending
  /\ pc \in {"config_write", "config_publish"} => state[step] = active

\* What retention is about to remove, and what it leaves.
Pruning ==
  pc = "prune" =>
    /\ step \notin doomed
    /\ Limit > 0 => Cardinality(Owned \ doomed) <= Limit

IInv ==
  /\ TypeOK
  /\ Started /\ Phased /\ Placed /\ Kept /\ Pruning
  /\ RunResumable /\ RetentionAfterCommit

-----------------------------------------------------------------------------
(* What holds in the sessions of PretrainingRun                             *)

\* No process there calls train() a second time, so the schedule is always the
\* one of the place.
Scheduled ==
  /\ \A s \in Saved : horizon[s] = Horizon(state[s])
  /\ pc \notin {"down", "loaded", "failed"} => schedule = Horizon(budget)
  /\ pc = "ready" => extended = "no"
  /\ pc = "loaded" => schedule = horizon[step]
  /\ pc = "loaded" /\ extended = "yes" => state[step] = pending

\* What a session was asked for, and what a report lets it ask for again.
Asking ==
  /\ at # "off" => asked.inputs \in Inputs /\ asked.budget \in Budgets
  /\ report.checkpoint # none =>
       report.inputs \in Inputs /\ report.budget \in Budgets

\* Tokenizer and shards are those of the settings, and all of them.
Whole(i) == tokenizer = i /\ \A f \in ShardFiles : shard[f] = i

\* How far the preparation is.
Prepared ==
  /\ shard \in [ShardFiles -> Inputs \union {none}]
  /\ at = "shards" =>
       /\ written \in 0..5 /\ tokenizer = asked.inputs
       /\ \A k \in 1..written : shard[Order[k]] = asked.inputs
  /\ at = "tokenizer" => written = 0
  /\ at = "prepare" => written = 0
  /\ at = "open" => Whole(asked.inputs)
  /\ at \in {"write_cache", "construct", "run"} =>
       Whole(asked.inputs) /\ EnoughText(asked.inputs, asked.budget)

\* What the cache names was there when it was written; from then on nothing is
\* prepared any more.
Cached ==
  /\ cache # NoCache =>
       /\ cache.tokenizer = cache.inputs
       /\ \A s \in Splits : cache.manifests[s] = cache.inputs
  /\ at \in {"tokenizer", "shards", "open", "write_cache"} => cache = NoCache
  /\ config # none \/ at \in {"construct", "run"} => cache # NoCache
  /\ at \in {"construct", "run"} => cache.inputs = asked.inputs

\* The trainer is the one this session asked for.
Trained ==
  /\ pc # "down" =>
       /\ at \in {"run", "report"}
       /\ cache # NoCache /\ cache.inputs = asked.inputs
       /\ budget = asked.budget
  /\ at = "run" => pc # "down"

\* A report that no session followed is about the directory as it is.
Reporting == (fresh = "yes" => at = "off") /\ ReportConstructs

SessionInv ==
  /\ IInv /\ Scheduled
  /\ Asking /\ Prepared /\ Cached /\ Trained /\ Reporting

-----------------------------------------------------------------------------
(* Facts about budgets and steps                                            *)

\* Multiplication by a natural keeps the order.
LEMMA Monotone == \A a, b, n \in Nat : a <= b => a * n <= b * n
  OBVIOUS

\* Every budget trains at most as long as the largest one.
LEMMA Horizons ==
  /\ \A b \in 0..MaxBudget : Horizon(b) \in 0..Horizon(MaxBudget)
  /\ Horizon(MaxBudget) \in Nat
<1>1. MaxBudget \in Nat /\ Span \in Nat
  BY ScratchAssumption DEF ScratchAssumption
<1>2. \A b \in 0..MaxBudget : b \in Nat /\ b <= MaxBudget
  BY <1>1
<1>3. \A b \in 0..MaxBudget : b * Span <= MaxBudget * Span
  BY <1>1, <1>2, Monotone
<1>4. \A b \in Nat : b * Span \in Nat
  BY <1>1
<1>5. QED
  BY <1>1, <1>2, <1>3, <1>4 DEF Horizon

\* A step that counts as saved has its state file.
LEMMA Savable == Saved \subseteq Steps /\ \A s \in Saved : state[s] # none
  BY DEF Saved

\* The invariant holds in an empty directory.
LEMMA InitIInv == Init => IInv
<1> SUFFICES ASSUME Init PROVE IInv
  OBVIOUS
<1>1. TypeOK
  BY Horizons, ScratchAssumption
  DEF Init, TypeOK, Places, none, ScratchAssumption, Steps
<1>2. Started /\ Phased /\ Placed /\ Kept /\ Pruning
  BY DEF Init, Started, Phased, Placed, Kept, Pruning, Saving, none
<1>3. RunResumable /\ RetentionAfterCommit
  BY DEF Init, RunResumable, RetentionAfterCommit
<1>4. QED
  BY <1>1, <1>2, <1>3 DEF IInv

\* Every step keeps the types.
LEMMA TypeStep == TypeOK /\ Started /\ Placed /\ [Next]_vars => TypeOK'
<1> SUFFICES ASSUME TypeOK, Started, Placed, [Next]_vars PROVE TypeOK'
  OBVIOUS
<1> USE Horizons, ScratchAssumption
    DEF TypeOK, Places, none, Budgets, files, settings, progress, Enter,
       Construct, ScratchAssumption
<1>1. ASSUME NEW b \in Budgets, StartBound(b) PROVE TypeOK'
  BY <1>1 DEF StartBound
<1>2. ASSUME NEW b \in Budgets, StartFresh(b) PROVE TypeOK'
  BY <1>2 DEF StartFresh
<1>3. ASSUME NEW b \in Budgets, StartExtension(b) PROVE TypeOK'
  BY <1>3 DEF StartExtension
<1>4. CASE InitPublish
  BY <1>4 DEF InitPublish
<1>5. CASE TrainFresh
  BY <1>5 DEF TrainFresh
<1>6. ASSUME NEW s \in Saved, Resume(s) PROVE TypeOK'
  BY <1>6, Savable DEF Resume, Steps
<1>7. ASSUME NEW s \in Saved, ResumeRefused(s) PROVE TypeOK'
  BY <1>7 DEF ResumeRefused
<1>8. CASE LoadedPlain
  BY <1>8 DEF LoadedPlain
<1>9. CASE Activate
  BY <1>9 DEF Activate, Placed, Started, Steps, Saved
<1>10. CASE CatchUpWrite
  BY <1>10 DEF CatchUpWrite
<1>11. CASE CatchUpPublish
  BY <1>11 DEF CatchUpPublish, Started
<1>12. CASE CatchUpError
  BY <1>12 DEF CatchUpError
<1>13. CASE Update
  BY <1>13 DEF Update
<1>14. CASE StageState
  BY <1>14 DEF StageState, Placed, Saving
<1>15. CASE PublishState
  BY <1>15 DEF PublishState, Placed, Saving, Started, AfterState
<1>16. CASE ConfigWrite
  BY <1>16 DEF ConfigWrite
<1>17. CASE ConfigError
  BY <1>17 DEF ConfigError
<1>18. CASE ConfigPublish
  BY <1>18 DEF ConfigPublish, Started
<1>19. CASE MarkSkipped
  BY <1>19 DEF MarkSkipped
<1>20. CASE MarkWrite
  BY <1>20 DEF MarkWrite, Placed, Saving
<1>21. CASE MarkPublish
  BY <1>21 DEF MarkPublish, Placed, Saving, Excess, Owned, Saved
<1>22. CASE Prune
  BY <1>22 DEF Prune, Remove
<1>23. CASE PruneEnd
  BY <1>23 DEF PruneEnd
<1>24. CASE Exit
  BY <1>24 DEF Exit
<1>25. CASE UNCHANGED vars
  BY <1>25 DEF vars
<1>26. QED
  BY <1>1, <1>2, <1>3, <1>4, <1>5, <1>6, <1>7, <1>8, <1>9, <1>10, <1>11,
     <1>12, <1>13, <1>14, <1>15, <1>16, <1>17, <1>18, <1>19, <1>20, <1>21,
     <1>22, <1>23, <1>24, <1>25
  DEF Next, Start, ResumeCall

\* Every step keeps a process bound to its budget.
LEMMA StartedStep ==
  TypeOK /\ Started /\ Phased /\ Placed /\ [Next]_vars
    => Started'
<1> SUFFICES ASSUME TypeOK, Started, Phased, Placed, [Next]_vars PROVE Started'
  OBVIOUS
<1> USE ScratchAssumption
    DEF TypeOK, none, Budgets, files, settings, progress, Enter, Construct,
       Started, Phased, ScratchAssumption
<1>1. ASSUME NEW b \in Budgets, StartBound(b) PROVE Started'
  BY <1>1 DEF StartBound
<1>2. ASSUME NEW b \in Budgets, StartFresh(b) PROVE Started'
  BY <1>2 DEF StartFresh, Saved
<1>3. ASSUME NEW b \in Budgets, StartExtension(b) PROVE Started'
  BY <1>3 DEF StartExtension, ExtensionAllowed
<1>4. CASE InitPublish
  BY <1>4 DEF InitPublish, Saved
<1>5. CASE TrainFresh
  BY <1>5 DEF TrainFresh
<1>6. ASSUME NEW s \in Saved, Resume(s) PROVE Started'
  BY <1>6 DEF Resume
<1>7. ASSUME NEW s \in Saved, ResumeRefused(s) PROVE Started'
  BY <1>7 DEF ResumeRefused
<1>8. CASE LoadedPlain
  BY <1>8 DEF LoadedPlain
<1>9. CASE Activate
  BY <1>9 DEF Activate
<1>10. CASE CatchUpWrite
  BY <1>10 DEF CatchUpWrite
<1>11. CASE CatchUpPublish
  BY <1>11 DEF CatchUpPublish
<1>12. CASE CatchUpError
  BY <1>12 DEF CatchUpError
<1>13. CASE Update
  BY <1>13 DEF Update
<1>14. CASE StageState
  BY <1>14 DEF StageState
<1>15. CASE PublishState
  BY <1>15 DEF PublishState, AfterState
<1>16. CASE ConfigWrite
  BY <1>16 DEF ConfigWrite
<1>17. CASE ConfigError
  BY <1>17 DEF ConfigError
<1>18. CASE ConfigPublish
  BY <1>18 DEF ConfigPublish
<1>19. CASE MarkSkipped
  BY <1>19 DEF MarkSkipped
<1>20. CASE MarkWrite
  BY <1>20 DEF MarkWrite
<1>21. CASE MarkPublish
  BY <1>21 DEF MarkPublish
<1>22. CASE Prune
  BY <1>22 DEF Prune
<1>23. CASE PruneEnd
  BY <1>23 DEF PruneEnd
<1>24. CASE Exit
  BY <1>24 DEF Exit
<1>25. CASE UNCHANGED vars
  BY <1>25 DEF vars, Saved
<1>26. QED
  BY <1>1, <1>2, <1>3, <1>4, <1>5, <1>6, <1>7, <1>8, <1>9, <1>10, <1>11,
     <1>12, <1>13, <1>14, <1>15, <1>16, <1>17, <1>18, <1>19, <1>20, <1>21,
     <1>22, <1>23, <1>24, <1>25
  DEF Next, Start, ResumeCall

\* Every step keeps the places an extension passes through.
LEMMA PhasedStep ==
  TypeOK /\ Started /\ Phased /\ Placed /\ [Next]_vars
    => Phased'
<1> SUFFICES ASSUME TypeOK, Started, Phased, Placed, [Next]_vars PROVE Phased'
  OBVIOUS
<1> USE DEF TypeOK, none, Budgets, files, settings, progress, Enter, Construct,
    Started, Phased
<1>1. ASSUME NEW b \in Budgets, StartBound(b) PROVE Phased'
  BY <1>1 DEF StartBound
<1>2. ASSUME NEW b \in Budgets, StartFresh(b) PROVE Phased'
  BY <1>2 DEF StartFresh
<1>3. ASSUME NEW b \in Budgets, StartExtension(b) PROVE Phased'
  BY <1>3 DEF StartExtension
<1>4. CASE InitPublish
  BY <1>4 DEF InitPublish
<1>5. CASE TrainFresh
  BY <1>5 DEF TrainFresh
<1>6. ASSUME NEW s \in Saved, Resume(s) PROVE Phased'
  BY <1>6 DEF Resume, Compatible, Saved
<1>7. ASSUME NEW s \in Saved, ResumeRefused(s) PROVE Phased'
  BY <1>7 DEF ResumeRefused
<1>8. CASE LoadedPlain
  BY <1>8 DEF LoadedPlain
<1>9. CASE Activate
  BY <1>9 DEF Activate, Placed
<1>10. CASE CatchUpWrite
  BY <1>10 DEF CatchUpWrite
<1>11. CASE CatchUpPublish
  BY <1>11 DEF CatchUpPublish
<1>12. CASE CatchUpError
  BY <1>12 DEF CatchUpError
<1>13. CASE Update
  BY <1>13 DEF Update
<1>14. CASE StageState
  BY <1>14 DEF StageState
<1>15. CASE PublishState
  BY <1>15 DEF PublishState, AfterState
<1>16. CASE ConfigWrite
  BY <1>16 DEF ConfigWrite
<1>17. CASE ConfigError
  BY <1>17 DEF ConfigError
<1>18. CASE ConfigPublish
  BY <1>18 DEF ConfigPublish
<1>19. CASE MarkSkipped
  BY <1>19 DEF MarkSkipped
<1>20. CASE MarkWrite
  BY <1>20 DEF MarkWrite
<1>21. CASE MarkPublish
  BY <1>21 DEF MarkPublish
<1>22. CASE Prune
  BY <1>22 DEF Prune
<1>23. CASE PruneEnd
  BY <1>23 DEF PruneEnd
<1>24. CASE Exit
  BY <1>24 DEF Exit
<1>25. CASE UNCHANGED vars
  BY <1>25 DEF vars
<1>26. QED
  BY <1>1, <1>2, <1>3, <1>4, <1>5, <1>6, <1>7, <1>8, <1>9, <1>10, <1>11,
     <1>12, <1>13, <1>14, <1>15, <1>16, <1>17, <1>18, <1>19, <1>20, <1>21,
     <1>22, <1>23, <1>24, <1>25
  DEF Next, Start, ResumeCall

\* Every step keeps the saved update, or the loaded one, in its budget.
LEMMA PlacedStep ==
  TypeOK /\ Started /\ Phased /\ Placed /\ [Next]_vars
    => Placed'
<1> SUFFICES ASSUME TypeOK, Started, Phased, Placed, [Next]_vars PROVE Placed'
  OBVIOUS
<1> USE Horizons DEF TypeOK, none, Budgets, files, settings, progress, Enter,
    Construct, Started, Phased, Placed, Saving, Saved, Compatible
<1>1. ASSUME NEW b \in Budgets, StartBound(b) PROVE Placed'
  BY <1>1 DEF StartBound
<1>2. ASSUME NEW b \in Budgets, StartFresh(b) PROVE Placed'
  BY <1>2 DEF StartFresh
<1>3. ASSUME NEW b \in Budgets, StartExtension(b) PROVE Placed'
  BY <1>3 DEF StartExtension
<1>4. CASE InitPublish
  BY <1>4 DEF InitPublish
<1>5. CASE TrainFresh
  BY <1>5 DEF TrainFresh
<1>6. ASSUME NEW s \in Saved, Resume(s) PROVE Placed'
  BY <1>6 DEF Resume
<1>7. ASSUME NEW s \in Saved, ResumeRefused(s) PROVE Placed'
  BY <1>7 DEF ResumeRefused
<1>8. CASE LoadedPlain
  BY <1>8 DEF LoadedPlain
<1>9. CASE Activate
  BY <1>9 DEF Activate
<1>10. CASE CatchUpWrite
  BY <1>10 DEF CatchUpWrite
<1>11. CASE CatchUpPublish
  BY <1>11 DEF CatchUpPublish
<1>12. CASE CatchUpError
  BY <1>12 DEF CatchUpError
<1>13. CASE Update
  BY <1>13 DEF Update, Steps
<1>14. CASE StageState
  BY <1>14 DEF StageState
<1>15. CASE PublishState
  BY <1>15 DEF PublishState, AfterState
<1>16. CASE ConfigWrite
  BY <1>16 DEF ConfigWrite
<1>17. CASE ConfigError
  BY <1>17 DEF ConfigError
<1>18. CASE ConfigPublish
  BY <1>18 DEF ConfigPublish
<1>19. CASE MarkSkipped
  BY <1>19 DEF MarkSkipped
<1>20. CASE MarkWrite
  BY <1>20 DEF MarkWrite
<1>21. CASE MarkPublish
  BY <1>21 DEF MarkPublish
<1>22. CASE Prune
  BY <1>22 DEF Prune, Remove
<1>23. CASE PruneEnd
  BY <1>23 DEF PruneEnd
<1>24. CASE Exit
  BY <1>24 DEF Exit
<1>25. CASE UNCHANGED vars
  BY <1>25 DEF vars
<1>26. QED
  BY <1>1, <1>2, <1>3, <1>4, <1>5, <1>6, <1>7, <1>8, <1>9, <1>10, <1>11,
     <1>12, <1>13, <1>14, <1>15, <1>16, <1>17, <1>18, <1>19, <1>20, <1>21,
     <1>22, <1>23, <1>24, <1>25
  DEF Next, Start, ResumeCall

\* Every step keeps a checkpoint that run_config.json can name.
LEMMA KeptStep ==
  TypeOK /\ Started /\ Phased /\ Placed /\ Kept /\ [Next]_vars
    => Kept'
<1> SUFFICES ASSUME TypeOK, Started, Phased, Placed, Kept, [Next]_vars
             PROVE  Kept'
  OBVIOUS
<1> USE DEF TypeOK, none, Budgets, files, settings, progress, Enter, Construct,
    Started, Phased, Placed, Kept, Saving, Saved
<1>1. ASSUME NEW b \in Budgets, StartBound(b) PROVE Kept'
  BY <1>1 DEF StartBound
<1>2. ASSUME NEW b \in Budgets, StartFresh(b) PROVE Kept'
  BY <1>2 DEF StartFresh
<1>3. ASSUME NEW b \in Budgets, StartExtension(b) PROVE Kept'
  BY <1>3 DEF StartExtension
<1>4. CASE InitPublish
  BY <1>4 DEF InitPublish
<1>5. CASE TrainFresh
  BY <1>5 DEF TrainFresh
<1>6. ASSUME NEW s \in Saved, Resume(s) PROVE Kept'
  BY <1>6 DEF Resume, Compatible
<1>7. ASSUME NEW s \in Saved, ResumeRefused(s) PROVE Kept'
  BY <1>7 DEF ResumeRefused
<1>8. CASE LoadedPlain
  BY <1>8 DEF LoadedPlain
<1>9. CASE Activate
  BY <1>9 DEF Activate
<1>10. CASE CatchUpWrite
  BY <1>10 DEF CatchUpWrite
<1>11. CASE CatchUpPublish
  BY <1>11 DEF CatchUpPublish
<1>12. CASE CatchUpError
  BY <1>12 DEF CatchUpError
<1>13. CASE Update
  BY <1>13 DEF Update, Steps
<1>14. CASE StageState
  BY <1>14 DEF StageState
<1>15. CASE PublishState
  BY <1>15 DEF PublishState, AfterState, Steps
<1>16. CASE ConfigWrite
  BY <1>16 DEF ConfigWrite
<1>17. CASE ConfigError
  BY <1>17 DEF ConfigError
<1>18. CASE ConfigPublish
  BY <1>18 DEF ConfigPublish
<1>19. CASE MarkSkipped
  BY <1>19 DEF MarkSkipped
<1>20. CASE MarkWrite
  BY <1>20 DEF MarkWrite
<1>21. CASE MarkPublish
  BY <1>21 DEF MarkPublish
<1>22. CASE Prune
  BY <1>22 DEF Prune, Remove
<1>23. CASE PruneEnd
  BY <1>23 DEF PruneEnd
<1>24. CASE Exit
  BY <1>24 DEF Exit
<1>25. CASE UNCHANGED vars
  BY <1>25 DEF vars
<1>26. QED
  BY <1>1, <1>2, <1>3, <1>4, <1>5, <1>6, <1>7, <1>8, <1>9, <1>10, <1>11,
     <1>12, <1>13, <1>14, <1>15, <1>16, <1>17, <1>18, <1>19, <1>20, <1>21,
     <1>22, <1>23, <1>24, <1>25
  DEF Next, Start, ResumeCall

\* Every step keeps a checkpoint that the configuration accepts.
LEMMA ResumableStep ==
  TypeOK /\ Started /\ Phased /\ Placed /\ Kept /\ RetentionAfterCommit
     /\ Pruning /\ RunResumable /\ [Next]_vars
    => (RunResumable /\ RetentionAfterCommit)'
<1> SUFFICES ASSUME TypeOK, Started, Phased, Placed, Kept,
    RetentionAfterCommit, Pruning, RunResumable, [Next]_vars
             PROVE  (RunResumable /\ RetentionAfterCommit)'
  OBVIOUS
<1> USE DEF TypeOK, none, Budgets, files, settings, progress, Enter, Construct,
    Started, Phased, Placed, Kept, Saving, Saved, Pruning, RunResumable,
        RetentionAfterCommit
<1>1. ASSUME NEW b \in Budgets, StartBound(b) PROVE (RunResumable
     /\ RetentionAfterCommit)'
  BY <1>1 DEF StartBound
<1>2. ASSUME NEW b \in Budgets, StartFresh(b) PROVE (RunResumable
     /\ RetentionAfterCommit)'
  BY <1>2 DEF StartFresh
<1>3. ASSUME NEW b \in Budgets, StartExtension(b) PROVE (RunResumable
     /\ RetentionAfterCommit)'
  BY <1>3 DEF StartExtension
<1>4. CASE InitPublish
  BY <1>4 DEF InitPublish
<1>5. CASE TrainFresh
  BY <1>5 DEF TrainFresh
<1>6. ASSUME NEW s \in Saved, Resume(s) PROVE (RunResumable
     /\ RetentionAfterCommit)'
  BY <1>6 DEF Resume
<1>7. ASSUME NEW s \in Saved, ResumeRefused(s) PROVE (RunResumable
     /\ RetentionAfterCommit)'
  BY <1>7 DEF ResumeRefused
<1>8. CASE LoadedPlain
  BY <1>8 DEF LoadedPlain
<1>9. CASE Activate
  BY <1>9 DEF Activate
<1>10. CASE CatchUpWrite
  BY <1>10 DEF CatchUpWrite
<1>11. CASE CatchUpPublish
  BY <1>11 DEF CatchUpPublish
<1>12. CASE CatchUpError
  BY <1>12 DEF CatchUpError
<1>13. CASE Update
  BY <1>13 DEF Update
<1>14. CASE StageState
  BY <1>14 DEF StageState
<1>15. CASE PublishState
  BY <1>15 DEF PublishState, AfterState, Steps
<1>16. CASE ConfigWrite
  BY <1>16 DEF ConfigWrite
<1>17. CASE ConfigError
  BY <1>17 DEF ConfigError
<1>18. CASE ConfigPublish
  BY <1>18 DEF ConfigPublish
<1>19. CASE MarkSkipped
  BY <1>19 DEF MarkSkipped
<1>20. CASE MarkWrite
  BY <1>20 DEF MarkWrite
<1>21. CASE MarkPublish
  BY <1>21 DEF MarkPublish
<1>22. CASE Prune
  BY <1>22 DEF Prune, Remove
<1>23. CASE PruneEnd
  BY <1>23 DEF PruneEnd
<1>24. CASE Exit
  BY <1>24 DEF Exit
<1>25. CASE UNCHANGED vars
  BY <1>25 DEF vars
<1>26. QED
  BY <1>1, <1>2, <1>3, <1>4, <1>5, <1>6, <1>7, <1>8, <1>9, <1>10, <1>11,
     <1>12, <1>13, <1>14, <1>15, <1>16, <1>17, <1>18, <1>19, <1>20, <1>21,
     <1>22, <1>23, <1>24, <1>25
  DEF Next, Start, ResumeCall

-----------------------------------------------------------------------------
(* Retention                                                                *)

\* A set of natural numbers that is not empty has a least one.
LEMMA Least ==
  ASSUME NEW S, S \subseteq Nat, S # {}
  PROVE  \E n \in S : \A m \in S : n <= m
<1>1. \E n \in S : \A m \in S : <<m, n>> \notin OpToRel(<, Nat)
  BY NatLessThanWellFounded, WFMin
<1>2. \A m, n \in Nat : <<m, n>> \notin OpToRel(<, Nat) => ~ m < n
  BY DEF OpToRel
<1>3. \A m, n \in Nat : ~ m < n => n <= m
  OBVIOUS
<1>4. QED
  BY <1>1, <1>2, <1>3

\* At most k elements of a set have fewer than k others above them.
LEMMA FewAbove ==
  ASSUME NEW S, IsFiniteSet(S), S \subseteq Nat, NEW k \in Nat
  PROVE  /\ IsFiniteSet({s \in S : Cardinality({t \in S : t > s}) < k})
         /\ Cardinality({s \in S : Cardinality({t \in S : t > s}) < k}) <= k
<1> DEFINE T == {s \in S : Cardinality({t \in S : t > s}) < k}
<1> DEFINE C(m) == Cardinality({t \in S : t > m})
<1>1. /\ T \subseteq S /\ IsFiniteSet(T) /\ Cardinality(T) \in Nat
      /\ \A m \in T : C(m) < k
  BY FS_Subset, FS_CardinalityType
<1> SUFFICES Cardinality(T) <= k
  BY <1>1
<1> HIDE DEF T
<1>2. CASE T = {}
  BY <1>2, FS_EmptySet
<1>3. CASE T # {}
  <2>1. PICK m \in T : \A n \in T : m <= n
    BY <1>1, <1>3, Least
  <2> DEFINE G == {t \in S : t > m}
  <2>2. G \subseteq S /\ Cardinality(G) < k
    BY <1>1
  <2>3. IsFiniteSet(G) /\ Cardinality(G) \in Nat
    BY <2>2, FS_Subset, FS_CardinalityType
  <2>4. ASSUME NEW n \in T \ {m} PROVE n \in G
    BY <1>1, <2>1
  <2>5. Cardinality(T \ {m}) <= Cardinality(G)
    BY <2>3, <2>4, FS_Subset
  <2>6. Cardinality(T \ {m}) = Cardinality(T) - 1
    BY <1>1, <2>1, FS_RemoveElement
  <2> HIDE DEF G
  <2>7. QED
    BY <1>1, <2>2, <2>3, <2>5, <2>6
<1>4. QED
  BY <1>2, <1>3

\* The checkpoints of a run are finitely many.
LEMMA OwnedFinite ==
  ASSUME TypeOK
  PROVE  Owned \subseteq Steps /\ Steps \subseteq Nat /\ IsFiniteSet(Steps)
  BY Horizons, FS_Interval DEF Owned, Saved, Steps

\* What retention leaves of the checkpoints it found and the new one.
LEMMA LeftByRetention ==
  ASSUME TypeOK, Limit > 0, step \in Steps
  PROVE  /\ IsFiniteSet((Owned \union {step}) \ Excess(Owned \union {step}))
         /\ Cardinality((Owned \union {step}) \ Excess(Owned \union {step}))
              <= Limit
<1> DEFINE R == (Owned \union {step}) \ {step}
           Few == {s \in R : Cardinality({t \in R : t > s}) < Limit - 1}
           Left == (Owned \union {step}) \ Excess(Owned \union {step})
<1>1. IsFiniteSet(R) /\ R \subseteq Nat /\ Limit - 1 \in Nat
  BY OwnedFinite, FS_Subset, ScratchAssumption DEF ScratchAssumption
<1>2. IsFiniteSet(Few) /\ Cardinality(Few) <= Limit - 1
  BY <1>1, FewAbove
<1>3. /\ IsFiniteSet(Few \union {step})
      /\ Cardinality(Few \union {step}) <= Limit
  <2> HIDE DEF Few
  <2>1. IsFiniteSet(Few \union {step}) /\ Cardinality(Few) \in Nat
    BY <1>2, FS_AddElement, FS_CardinalityType
  <2>2. Cardinality(Few \union {step}) <= Cardinality(Few) + 1
    BY <1>2, <2>1, FS_AddElement
  <2>3. Cardinality(Few \union {step}) \in Nat /\ Limit \in Nat
    BY <2>1, FS_CardinalityType, ScratchAssumption DEF ScratchAssumption
  <2>4. QED
    BY <1>2, <2>1, <2>2, <2>3
<1>4. \A s \in R : Cardinality({t \in R : t > s}) \in Nat
  BY <1>1, FS_Subset, FS_CardinalityType
<1>5. \A s \in R : s \notin Excess(Owned \union {step}) => s \in Few
  BY <1>1, <1>4 DEF Excess
<1>6. Left \subseteq Few \union {step}
  BY <1>5
<1> HIDE DEF Few, Left
<1>7. IsFiniteSet(Left) /\ Cardinality(Left) <= Cardinality(Few \union {step})
  BY <1>3, <1>6, FS_Subset
<1>8. Cardinality(Left) \in Nat /\ Cardinality(Few \union {step}) \in Nat
  BY <1>3, <1>7, FS_CardinalityType
<1>9. Cardinality(Left) <= Limit
  BY <1>3, <1>7, <1>8, ScratchAssumption DEF ScratchAssumption
<1>10. QED
  BY <1>7, <1>9 DEF Left

\* Removing files, or giving up on them, adds nothing to what is owned.
LEMMA FewerOwned ==
  ASSUME TypeOK, Owned' \ doomed' \subseteq Owned \ doomed,
         Cardinality(Owned \ doomed) <= Limit
  PROVE  Cardinality(Owned' \ doomed') <= Limit
<1>1. IsFiniteSet(Owned \ doomed)
  BY OwnedFinite, FS_Subset
<1>2. /\ IsFiniteSet(Owned' \ doomed')
      /\ Cardinality(Owned' \ doomed') <= Cardinality(Owned \ doomed)
  BY <1>1, FS_Subset
<1>3. /\ Cardinality(Owned \ doomed) \in Nat
      /\ Cardinality(Owned' \ doomed') \in Nat /\ Limit \in Nat
  BY <1>1, <1>2, FS_CardinalityType, ScratchAssumption DEF ScratchAssumption
<1>4. QED
  BY <1>2, <1>3

\* Every step keeps what retention is about to remove.
LEMMA PruningStep == TypeOK /\ Placed /\ Pruning /\ [Next]_vars => Pruning'
<1> SUFFICES ASSUME TypeOK, Placed, Pruning, [Next]_vars PROVE Pruning'
  OBVIOUS
<1> USE DEF files, settings, progress, Enter, Construct, Pruning
<1>1. ASSUME NEW b \in Budgets, StartBound(b) PROVE Pruning'
  BY <1>1 DEF StartBound
<1>2. ASSUME NEW b \in Budgets, StartFresh(b) PROVE Pruning'
  BY <1>2 DEF StartFresh
<1>3. ASSUME NEW b \in Budgets, StartExtension(b) PROVE Pruning'
  BY <1>3 DEF StartExtension
<1>4. CASE InitPublish
  BY <1>4 DEF InitPublish
<1>5. CASE TrainFresh
  BY <1>5 DEF TrainFresh
<1>6. ASSUME NEW s \in Saved, Resume(s) PROVE Pruning'
  BY <1>6 DEF Resume
<1>7. ASSUME NEW s \in Saved, ResumeRefused(s) PROVE Pruning'
  BY <1>7 DEF ResumeRefused
<1>8. CASE LoadedPlain
  BY <1>8 DEF LoadedPlain
<1>9. CASE Activate
  BY <1>9 DEF Activate
<1>10. CASE CatchUpWrite
  BY <1>10 DEF CatchUpWrite
<1>11. CASE CatchUpPublish
  BY <1>11 DEF CatchUpPublish
<1>12. CASE CatchUpError
  BY <1>12 DEF CatchUpError
<1>13. CASE Update
  BY <1>13 DEF Update
<1>14. CASE StageState
  BY <1>14 DEF StageState
<1>15. CASE PublishState
  BY <1>15 DEF PublishState, AfterState
<1>16. CASE ConfigWrite
  BY <1>16 DEF ConfigWrite
<1>17. CASE ConfigError
  BY <1>17 DEF ConfigError
<1>18. CASE ConfigPublish
  BY <1>18 DEF ConfigPublish
<1>19. CASE MarkSkipped
  BY <1>19 DEF MarkSkipped
<1>20. CASE MarkWrite
  BY <1>20 DEF MarkWrite
<1>21. CASE MarkPublish
  <2>1. step \in Steps /\ step' = step
    BY <1>21 DEF MarkPublish, Placed, Saving
  <2>2. step \notin doomed'
    BY <1>21 DEF MarkPublish, Excess
  <2>3. ASSUME Limit > 0
        PROVE  Cardinality(Owned' \ doomed') <= Limit
    <3> DEFINE Left == (Owned \union {step}) \ Excess(Owned \union {step})
    <3>1. Owned' \subseteq Owned \union {step}
      BY <1>21, <2>1 DEF MarkPublish, Owned, Saved, TypeOK
    <3>2. doomed' = Excess(Owned \union {step})
      BY <1>21, <2>3 DEF MarkPublish
    <3>3. Owned' \ doomed' \subseteq Left
      BY <3>1, <3>2
    <3>4. IsFiniteSet(Left) /\ Cardinality(Left) <= Limit
      BY <2>1, <2>3, LeftByRetention
    <3>5. /\ IsFiniteSet(Owned' \ doomed')
          /\ Cardinality(Owned' \ doomed') <= Cardinality(Left)
      BY <3>3, <3>4, FS_Subset
    <3>6. /\ Cardinality(Left) \in Nat /\ Cardinality(Owned' \ doomed') \in Nat
          /\ Limit \in Nat
      BY <3>4, <3>5, FS_CardinalityType, ScratchAssumption
      DEF ScratchAssumption
    <3>7. QED
      BY <3>4, <3>5, <3>6
  <2>4. QED
    BY <2>1, <2>2, <2>3
<1>22. CASE Prune
  <2>1. PICK s \in doomed : Remove(s)
    BY <1>22 DEF Prune
  <2>2. pc = "prune" /\ step' = step /\ leftover' = leftover /\ s \in Steps
    BY <1>22 DEF Prune, TypeOK
  <2>3. doomed' \subseteq doomed
    BY <2>1 DEF Remove
  <2>4. Owned' \subseteq Owned
    BY <2>1, <2>2 DEF Remove, Owned, Saved, TypeOK
  <2>5. \A t \in doomed \ doomed' : t \notin Owned'
    BY <2>1 DEF Remove, Owned, Saved
  <2>6. Owned' \ doomed' \subseteq Owned \ doomed
    BY <2>4, <2>5
  <2>7. QED
    BY <2>2, <2>3, <2>6, FewerOwned
<1>23. CASE PruneEnd
  BY <1>23 DEF PruneEnd
<1>24. CASE Exit
  BY <1>24 DEF Exit
<1>25. CASE UNCHANGED vars
  BY <1>25 DEF vars, Owned, Saved
<1>26. QED
  BY <1>1, <1>2, <1>3, <1>4, <1>5, <1>6, <1>7, <1>8, <1>9, <1>10, <1>11,
     <1>12, <1>13, <1>14, <1>15, <1>16, <1>17, <1>18, <1>19, <1>20, <1>21,
     <1>22, <1>23, <1>24, <1>25
  DEF Next, Start, ResumeCall

\* Every step keeps the invariant.
LEMMA InvStep == IInv /\ [Next]_vars => IInv'
<1> SUFFICES ASSUME IInv, [Next]_vars PROVE IInv'
  OBVIOUS
<1>1. TypeOK' /\ Started' /\ Phased' /\ Placed'
  BY TypeStep, StartedStep, PhasedStep, PlacedStep DEF IInv
<1>2. Kept' /\ Pruning' /\ RunResumable' /\ RetentionAfterCommit'
  BY KeptStep, PruningStep, ResumableStep DEF IInv
<1>3. QED
  BY <1>1, <1>2 DEF IInv

\* The invariant implies the promise of the retention.
LEMMA RetentionFollows == IInv => RetentionSafe
<1> SUFFICES ASSUME IInv PROVE RetentionSafe
  OBVIOUS
<1>1. ASSUME pc = "prune", doomed = {}, Limit > 0
      PROVE  Cardinality(Owned) <= Limit
  <2>1. Owned \ doomed = Owned
    BY <1>1
  <2>2. QED
    BY <1>1, <2>1 DEF IInv, Pruning
<1>2. QED
  BY <1>1 DEF IInv, RetentionSafe, OwnedWithinLimit

-----------------------------------------------------------------------------
(* The theorems about the directory                                         *)

\* The inductive invariant holds in every behaviour of the directory.
THEOREM Inductive == Spec => []IInv
<1>1. QED
  BY InitIInv, InvStep, PTL DEF Spec

\* Every variable of the directory and its process keeps its type.
THEOREM TypeCorrect == Spec => []TypeOK
<1>1. IInv => TypeOK
  BY DEF IInv
<1>2. QED
  BY <1>1, Inductive, PTL

\* From the first save on there is a checkpoint of the configuration in
\* run_config.json, wherever a process dies (_save_training_checkpoint,
\* _activate_scratch_budget_extension).
THEOREM AlwaysResumable == Spec => []RunResumable
<1>1. IInv => RunResumable
  BY DEF IInv
<1>2. QED
  BY <1>1, Inductive, PTL

\* Retention starts after the commit, leaves the new checkpoint alone and keeps
\* no more than save_total_limit (maintain_local_checkpoints).
THEOREM RetentionIsSafe == Spec => []RetentionSafe
<1>1. QED
  BY RetentionFollows, Inductive, PTL


-----------------------------------------------------------------------------
(* A session works on the directory as ScratchRun allows                    *)

\* Every step of a session keeps each schedule as long as its budget.
LEMMA ScheduledStep ==
  IInv /\ Scheduled /\ ~ (pc = "loaded" /\ pc' = "ready") /\ [Next]_vars
    => Scheduled'
<1> SUFFICES ASSUME IInv, Scheduled, ~ (pc = "loaded" /\ pc' = "ready"),
    [Next]_vars PROVE Scheduled'
  OBVIOUS
<1> USE DEF IInv, TypeOK, Started, Phased, Placed, Scheduled, Saved, Budgets,
    none, files, settings, progress, Enter, Construct
<1>1. ASSUME NEW b \in Budgets, StartBound(b) PROVE Scheduled'
  BY <1>1 DEF StartBound
<1>2. ASSUME NEW b \in Budgets, StartFresh(b) PROVE Scheduled'
  BY <1>2 DEF StartFresh
<1>3. ASSUME NEW b \in Budgets, StartExtension(b) PROVE Scheduled'
  BY <1>3 DEF StartExtension
<1>4. CASE InitPublish
  BY <1>4 DEF InitPublish
<1>5. CASE TrainFresh
  BY <1>5 DEF TrainFresh
<1>6. ASSUME NEW s \in Saved, Resume(s) PROVE Scheduled'
  BY <1>6 DEF Resume, Compatible
<1>7. ASSUME NEW s \in Saved, ResumeRefused(s) PROVE Scheduled'
  BY <1>7 DEF ResumeRefused
<1>8. CASE LoadedPlain
  BY <1>8 DEF LoadedPlain, Compatible
<1>9. CASE Activate
  BY <1>9, Horizons DEF Activate
<1>10. CASE CatchUpWrite
  BY <1>10 DEF CatchUpWrite
<1>11. CASE CatchUpPublish
  BY <1>11 DEF CatchUpPublish
<1>12. CASE CatchUpError
  BY <1>12 DEF CatchUpError
<1>13. CASE Update
  BY <1>13 DEF Update
<1>14. CASE StageState
  BY <1>14 DEF StageState
<1>15. CASE PublishState
  <2>1. step \in Steps /\ active = budget /\ schedule = Horizon(budget)
    BY <1>15 DEF PublishState, Saving
  <2>2. /\ state' = [state EXCEPT ![step] = budget]
        /\ horizon' = [horizon EXCEPT ![step] = Horizon(budget)]
        /\ pc' \notin {"ready", "loaded"}
        /\ schedule' = schedule /\ budget' = budget
    BY <1>15, <2>1 DEF PublishState, AfterState
  <2>3. \A s \in Saved' : horizon'[s] = Horizon(state'[s])
    BY <2>1, <2>2
  <2>4. QED
    BY <2>1, <2>2, <2>3
<1>16. CASE ConfigWrite
  BY <1>16 DEF ConfigWrite
<1>17. CASE ConfigError
  BY <1>17 DEF ConfigError
<1>18. CASE ConfigPublish
  BY <1>18 DEF ConfigPublish
<1>19. CASE MarkSkipped
  BY <1>19 DEF MarkSkipped
<1>20. CASE MarkWrite
  BY <1>20 DEF MarkWrite
<1>21. CASE MarkPublish
  BY <1>21 DEF MarkPublish
<1>22. CASE Prune
  BY <1>22, Savable DEF Prune, Remove
<1>23. CASE PruneEnd
  BY <1>23 DEF PruneEnd
<1>24. CASE Exit
  BY <1>24 DEF Exit
<1>25. CASE UNCHANGED vars
  BY <1>25 DEF vars, Saved
<1>26. QED
  BY <1>1, <1>2, <1>3, <1>4, <1>5, <1>6, <1>7, <1>8, <1>9, <1>10, <1>11,
     <1>12, <1>13, <1>14, <1>15, <1>16, <1>17, <1>18, <1>19, <1>20, <1>21,
     <1>22, <1>23, <1>24, <1>25
  DEF Next, Start, ResumeCall

\* Every step keeps what a session asks for.
LEMMA AskingStep == Asking /\ [PrepareNext]_allVars => Asking'
<1> SUFFICES ASSUME Asking, [PrepareNext]_allVars PROVE Asking'
  OBVIOUS
<1> USE DEF Asking, session, data, told, Begin, Go, WriteReport
<1>1. CASE Call
  BY <1>1 DEF Call, Idle
<1>2. CASE RestoreCall
  BY <1>2, Savable DEF RestoreCall, Restorable, none, Steps
<1>3. CASE LoadCache
  BY <1>3 DEF LoadCache
<1>4. CASE SaveTokenizer
  BY <1>4 DEF SaveTokenizer
<1>5. CASE WriteShard
  BY <1>5 DEF WriteShard
<1>6. CASE OpenData
  BY <1>6 DEF OpenData
<1>7. CASE WriteCache
  BY <1>7 DEF WriteCache
<1>8. CASE FromScratch
  BY <1>8 DEF FromScratch
<1>9. CASE TrainCall
  BY <1>9 DEF TrainCall
<1>10. CASE Working
  BY <1>10 DEF Working
<1>11. CASE Raises
  BY <1>11 DEF Raises
<1>12. CASE Passed
  BY <1>12 DEF Passed, Reported
<1>13. CASE Failed
  BY <1>13 DEF Failed, Reported
<1>14. CASE Killed
  BY <1>14 DEF Killed
<1>15. CASE UNCHANGED allVars
  BY <1>15 DEF allVars, session, data, told, vars, files
<1>16. QED
  BY <1>1, <1>2, <1>3, <1>4, <1>5, <1>6, <1>7, <1>8, <1>9, <1>10, <1>11,
     <1>12, <1>13, <1>14, <1>15
  DEF PrepareNext

\* Every step of a session is one of the run directory or leaves it alone,
\* and none calls train() a second time.
LEMMA ScratchStep ==
  Asking /\ [PrepareNext]_allVars
    => [Next]_vars /\ ~ (pc = "loaded" /\ pc' = "ready")
<1> SUFFICES ASSUME Asking, [PrepareNext]_allVars PROVE [Next]_vars /\ ~ (pc =
    "loaded" /\ pc' = "ready")
  OBVIOUS
<1> USE DEF session, data, told, Begin, Go, WriteReport, files, settings,
    progress, Enter, vars
<1>1. CASE Call
  BY <1>1 DEF Call
<1>2. CASE RestoreCall
  BY <1>2 DEF RestoreCall
<1>3. CASE LoadCache
  BY <1>3 DEF LoadCache
<1>4. CASE SaveTokenizer
  BY <1>4 DEF SaveTokenizer
<1>5. CASE WriteShard
  BY <1>5 DEF WriteShard
<1>6. CASE OpenData
  BY <1>6 DEF OpenData
<1>7. CASE WriteCache
  BY <1>7 DEF WriteCache
<1>8. CASE FromScratch
  BY <1>8 DEF FromScratch, Next, Start, StartAsked, StartBound, StartFresh,
     StartExtension, Construct, Asking
<1>9. CASE TrainCall
  BY <1>9 DEF TrainCall, Next, ResumeCall, TrainFresh, Resume, ResumeRefused
<1>10. CASE Working
  BY <1>10 DEF Working, Next, InitPublish, LoadedPlain, Activate, CatchUpWrite,
     CatchUpPublish, Update, StageState, PublishState, ConfigWrite,
     ConfigError, ConfigPublish, MarkSkipped, MarkWrite, MarkPublish, Prune,
     PruneEnd
<1>11. CASE Raises
  BY <1>11 DEF Raises
<1>12. CASE Passed
  BY <1>12 DEF Passed, Next, Exit
<1>13. CASE Failed
  BY <1>13 DEF Failed, Next, Exit
<1>14. CASE Killed
  BY <1>14 DEF Killed, Next, Exit
<1>15. CASE UNCHANGED allVars
  BY <1>15 DEF allVars, session, data, told, vars, files
<1>16. QED
  BY <1>1, <1>2, <1>3, <1>4, <1>5, <1>6, <1>7, <1>8, <1>9, <1>10, <1>11,
     <1>12, <1>13, <1>14, <1>15
  DEF PrepareNext


-----------------------------------------------------------------------------
(* The preparation                                                          *)

\* The six files of the two shards, in the order they are written.
LEMMA OrderFacts ==
  /\ Len(Order) = 6 /\ DOMAIN Order = 1..6
  /\ \A f \in ShardFiles : \E k \in 1..6 : f = Order[k]
  /\ \A k \in 1..6 : Order[k] \in ShardFiles
  BY DEF Order, ShardFiles

\* Those files, each by its split and its kind.
LEMMA FilesOfShards ==
  /\ \A s \in Splits, f \in {"data", "offsets", "manifest"} :
       <<s, f>> \in ShardFiles
  /\ \A g \in ShardFiles :
       \E s \in Splits, f \in {"data", "offsets", "manifest"} : g = <<s, f>>
<1>1. \A s \in Splits, f \in {"data", "offsets", "manifest"} :
        \E k \in 1..6 : <<s, f>> = Order[k]
  BY DEF Splits, Order
<1>2. \A k \in 1..6 :
        \E s \in Splits, f \in {"data", "offsets", "manifest"} :
          Order[k] = <<s, f>>
  BY DEF Splits, Order
<1>3. QED
  BY <1>1, <1>2, OrderFacts

\* What a session trusts because the cache verifies is all there.
LEMMA VerifiedIsWhole ==
  ASSUME Prepared, Cached, cache # NoCache, Intact
  PROVE  Whole(asked.inputs)
<1>1. tokenizer = asked.inputs
  BY DEF Intact, Cached
<1>2. ASSUME NEW s \in Splits
      PROVE  \A f \in {"data", "offsets", "manifest"} :
               shard[<<s, f>>] = asked.inputs
  <2>1. shard[<<s, "manifest">>] = asked.inputs
    BY DEF Intact, Cached
  <2>2. QED
    BY <2>1 DEF Intact, Opens
<1>3. ASSUME NEW g \in ShardFiles PROVE shard[g] = asked.inputs
  <2>1. PICK s \in Splits, f \in {"data", "offsets", "manifest"} : g = <<s, f>>
    BY FilesOfShards
  <2>2. QED
    BY <1>2, <2>1
<1>4. QED
  BY <1>1, <1>3 DEF Whole

\* One more file of Order is that of the settings, and at last all are.
LEMMA OneMoreWritten ==
  ASSUME Asking, Prepared, WriteShard
  PROVE  /\ shard' \in [ShardFiles -> Inputs \union {none}]
         /\ \A k \in 1..written' : shard'[Order[k]] = asked.inputs
         /\ written' \in 1..6
<1>1. written \in 0..5 /\ written' = written + 1
  BY DEF WriteShard, Prepared
<1>2. Order[written + 1] \in ShardFiles /\ asked.inputs \in Inputs
  BY <1>1, OrderFacts DEF WriteShard, Asking
<1>3. shard' = [shard EXCEPT ![Order[written + 1]] = asked.inputs]
  BY DEF WriteShard
<1>4. shard' \in [ShardFiles -> Inputs \union {none}]
  BY <1>2, <1>3 DEF Prepared
<1>5. ASSUME NEW k \in 1..written'
      PROVE  shard'[Order[k]] = asked.inputs
  <2>1. Order[k] \in ShardFiles
    BY <1>1, OrderFacts
  <2>2. CASE k = written + 1
    BY <1>2, <1>3, <2>2 DEF Prepared
  <2>3. CASE k # written + 1
    <3>1. k \in 1..written
      BY <1>1, <2>3
    <3>2. shard[Order[k]] = asked.inputs
      BY <3>1 DEF Prepared, WriteShard
    <3>3. QED
      BY <1>3, <2>1, <3>2 DEF Prepared
  <2>4. QED
    BY <2>2, <2>3
<1>6. QED
  BY <1>1, <1>4, <1>5

\* Every step keeps how far the files of a session are written.
LEMMA PreparedStep ==
  Asking /\ Prepared /\ Cached /\ [PrepareNext]_allVars
    => Prepared'
<1> SUFFICES ASSUME Asking, Prepared, Cached, [PrepareNext]_allVars
             PROVE  Prepared'
  OBVIOUS
<1> USE DEF Prepared, Whole, session, data, told, Begin, Go, WriteReport
<1>1. CASE Call
  BY <1>1 DEF Call
<1>2. CASE RestoreCall
  BY <1>2 DEF RestoreCall
<1>3. CASE LoadCache
  BY <1>3, VerifiedIsWhole DEF LoadCache
<1>4. CASE SaveTokenizer
  BY <1>4 DEF SaveTokenizer
<1>5. CASE WriteShard
  <2>1. /\ shard' \in [ShardFiles -> Inputs \union {none}]
        /\ \A k \in 1..written' : shard'[Order[k]] = asked.inputs
        /\ written' \in 1..6 /\ written' = written + 1 /\ written \in 0..5
    BY <1>5, OneMoreWritten DEF WriteShard
  <2>2. tokenizer' = asked.inputs /\ asked' = asked
    BY <1>5 DEF WriteShard
  <2>3. CASE written' = 6
    <3>1. at' = "open" /\ \A f \in ShardFiles : shard'[f] = asked.inputs
      BY <1>5, <2>1, <2>3, OrderFacts DEF WriteShard
    <3>2. QED
      BY <2>1, <2>2, <3>1
  <2>4. CASE written' # 6
    <3>1. at' = "shards" /\ written' \in 0..5
      BY <1>5, <2>1, <2>4, OrderFacts DEF WriteShard
    <3>2. QED
      BY <2>1, <2>2, <3>1
  <2>5. QED
    BY <2>3, <2>4
<1>6. CASE OpenData
  BY <1>6 DEF OpenData
<1>7. CASE WriteCache
  BY <1>7 DEF WriteCache
<1>8. CASE FromScratch
  BY <1>8 DEF FromScratch
<1>9. CASE TrainCall
  BY <1>9 DEF TrainCall
<1>10. CASE Working
  BY <1>10 DEF Working
<1>11. CASE Raises
  BY <1>11 DEF Raises
<1>12. CASE Passed
  BY <1>12 DEF Passed
<1>13. CASE Failed
  BY <1>13 DEF Failed
<1>14. CASE Killed
  BY <1>14 DEF Killed
<1>15. CASE UNCHANGED allVars
  BY <1>15 DEF allVars, session, data, told, vars, files
<1>16. QED
  BY <1>1, <1>2, <1>3, <1>4, <1>5, <1>6, <1>7, <1>8, <1>9, <1>10, <1>11,
     <1>12, <1>13, <1>14, <1>15
  DEF PrepareNext

\* Every step keeps what the cache file names.
LEMMA CachedStep == Asking /\ Prepared /\ Cached /\ [PrepareNext]_allVars =>
   Cached'
<1> SUFFICES ASSUME Asking, Prepared, Cached, [PrepareNext]_allVars
             PROVE  Cached'
  OBVIOUS
<1> USE DEF Cached, session, data, told, Begin, Go, WriteReport
<1>1. CASE Call
  BY <1>1 DEF Call, vars, files
<1>2. CASE RestoreCall
  BY <1>2 DEF RestoreCall, vars, files
<1>3. CASE LoadCache
  BY <1>3 DEF LoadCache, Intact, vars, files
<1>4. CASE SaveTokenizer
  BY <1>4 DEF SaveTokenizer, vars, files
<1>5. CASE WriteShard
  BY <1>5 DEF WriteShard, vars, files
<1>6. CASE OpenData
  BY <1>6 DEF OpenData, vars, files
<1>7. CASE WriteCache
  <2>1. asked.inputs # none /\ Whole(asked.inputs)
    BY <1>7, PretrainingAssumption
    DEF WriteCache, Asking, Prepared, PretrainingAssumption, none
  <2>2. /\ cache' = [inputs |-> asked.inputs, tokenizer |-> asked.inputs,
                     manifests |-> [s \in Splits |-> asked.inputs]]
        /\ at' = "construct" /\ asked' = asked
    BY <1>7, <2>1, FilesOfShards DEF WriteCache, Whole
  <2>3. cache' # NoCache
    BY <2>1, <2>2 DEF NoCache
  <2>4. QED
    BY <2>2, <2>3
<1>8. CASE FromScratch
  BY <1>8 DEF FromScratch
<1>9. CASE TrainCall
  BY <1>9 DEF TrainCall
<1>10. CASE Working
  BY <1>10 DEF Working
<1>11. CASE Raises
  BY <1>11 DEF Raises, vars, files
<1>12. CASE Passed
  BY <1>12 DEF Passed, files
<1>13. CASE Failed
  BY <1>13 DEF Failed, files
<1>14. CASE Killed
  BY <1>14 DEF Killed, vars, files, Exit
<1>15. CASE UNCHANGED allVars
  BY <1>15 DEF allVars, session, data, told, vars, files
<1>16. QED
  BY <1>1, <1>2, <1>3, <1>4, <1>5, <1>6, <1>7, <1>8, <1>9, <1>10, <1>11,
     <1>12, <1>13, <1>14, <1>15
  DEF PrepareNext


-----------------------------------------------------------------------------
(* The trainer and the report                                               *)

\* What a live process does leaves it alive, and the budget it was built with.
LEMMA WorkingLives ==
  Working \/ TrainCall
    => /\ at = "run" /\ pc # "down" /\ pc' # "down" /\ budget' = budget
       /\ UNCHANGED session
<1>1. Working => pc # "down" /\ pc' # "down" /\ budget' = budget
  BY DEF Working, settings, Enter,
     InitPublish, LoadedPlain, Activate, CatchUpWrite, CatchUpPublish, Update,
        StageState, PublishState, AfterState, ConfigWrite, ConfigError,
        ConfigPublish, MarkSkipped, MarkWrite, MarkPublish, Prune, PruneEnd
<1>2. TrainCall => pc # "down" /\ pc' # "down" /\ budget' = budget
  BY DEF TrainCall, settings, Enter, TrainFresh, Resume, ResumeRefused
<1>3. QED
  BY <1>1, <1>2 DEF Working, TrainCall

\* Every step keeps the trainer the one its session asked for.
LEMMA TrainedStep == Cached /\ Trained /\ [PrepareNext]_allVars => Trained'
<1> SUFFICES ASSUME Cached, Trained, [PrepareNext]_allVars PROVE Trained'
  OBVIOUS
<1> USE DEF Trained, session, data, told, Begin, Go, WriteReport
<1>1. CASE Call
  BY <1>1 DEF Call, vars, settings
<1>2. CASE RestoreCall
  BY <1>2 DEF RestoreCall, vars, settings
<1>3. CASE LoadCache
  BY <1>3 DEF LoadCache, vars, settings
<1>4. CASE SaveTokenizer
  BY <1>4 DEF SaveTokenizer, vars, settings
<1>5. CASE WriteShard
  BY <1>5 DEF WriteShard, vars, settings
<1>6. CASE OpenData
  BY <1>6 DEF OpenData, vars, settings
<1>7. CASE WriteCache
  BY <1>7 DEF WriteCache, vars, settings
<1>8. CASE FromScratch
  BY <1>8 DEF FromScratch, StartAsked, StartBound, StartFresh, StartExtension,
     Construct, Enter, vars, settings, Cached
<1>9. CASE TrainCall
  BY <1>9, WorkingLives DEF session, data, told
<1>10. CASE Working
  BY <1>10, WorkingLives DEF session, data, told
<1>11. CASE Raises
  BY <1>11 DEF Raises, vars, settings
<1>12. CASE Passed
  BY <1>12 DEF Passed
<1>13. CASE Failed
  BY <1>13 DEF Failed
<1>14. CASE Killed
  BY <1>14 DEF Killed, vars, Exit, Enter, settings
<1>15. CASE UNCHANGED allVars
  BY <1>15 DEF allVars, session, data, told, vars, files, settings
<1>16. QED
  BY <1>1, <1>2, <1>3, <1>4, <1>5, <1>6, <1>7, <1>8, <1>9, <1>10, <1>11,
     <1>12, <1>13, <1>14, <1>15
  DEF PrepareNext

\* A set of steps that is not empty has a last one.
LEMMA LastStep ==
  ASSUME NEW S, S \subseteq Steps, S # {}
  PROVE  Newest(S) \in S
<1> DEFINE H == Horizon(MaxBudget)
           R == {H - s : s \in S}
<1>1. H \in Nat /\ \A s \in S : s \in 1..H
  BY Horizons DEF Steps
<1> HIDE DEF H
<1>2. R \subseteq Nat /\ R # {}
  BY <1>1
<1>3. PICK n \in R : \A m \in R : n <= m
  BY <1>2, Least
<1>4. PICK s \in S : n = H - s
  BY <1>3
<1>5. \A t \in S : t <= s
  <2>1. ASSUME NEW t \in S PROVE t <= s
    <3>1. H - t \in R
      OBVIOUS
    <3>2. H - s <= H - t
      BY <1>3, <1>4, <3>1
    <3>3. QED
      BY <1>1, <3>2
  <2>2. QED
    BY <2>1
<1>6. QED
  BY <1>5 DEF Newest

\* What a session reports about its trainer can be built again.
LEMMA ReportedConstructs ==
  ASSUME IInv, Asking, Cached, Trained, at # "off", NEW status,
         WriteReport(status)
  PROVE  ReportConstructs'
<1>1. report' = Reported(status) /\ config' = config /\ cache' = cache
      /\ state' = state /\ configTmp' = configTmp
  BY DEF WriteReport, files, data
<1>2. SUFFICES ASSUME report'.checkpoint # none
               PROVE  /\ Restorable' /\ cache'.inputs = report'.inputs
                      /\ Constructible(report.budget, report.extend)'
  BY DEF ReportConstructs
<1>3. pc # "down" /\ Saved # {} /\ report'.checkpoint = Newest(Saved)
  BY <1>1, <1>2 DEF Reported
<1>4. /\ report'.inputs = asked.inputs /\ report'.budget = asked.budget
      /\ report'.extend = Extending
  BY <1>1, <1>3 DEF Reported
<1>5. Saved' = Saved /\ Newest(Saved) \in Saved
  BY <1>1, <1>3, Savable, LastStep DEF Saved
<1>6. config \in Budgets /\ config # none
  BY <1>3 DEF IInv, Started, Budgets, none
<1>7. cache # NoCache /\ cache.inputs = asked.inputs /\ budget = asked.budget
  BY <1>3 DEF Trained
<1>8. Restorable'
  BY <1>1, <1>3, <1>5, <1>6, <1>7 DEF Restorable, Newest
<1>9. Constructible(asked.budget, Extending)
  <2>1. CASE pending = none
    BY <1>3, <1>6, <1>7, <2>1
    DEF Constructible, IInv, Started, none, Budgets
  <2>2. CASE pending # none
    BY <1>3, <1>6, <1>7, <2>2 DEF Constructible, Extending, IInv, Started
  <2>3. QED
    BY <2>1, <2>2
<1>10. Constructible(report.budget, report.extend)'
  BY <1>1, <1>4, <1>5, <1>9 DEF Constructible
<1>11. QED
  BY <1>1, <1>4, <1>7, <1>8, <1>10

\* Every step keeps what a report says against the directory.
LEMMA ReportingStep ==
  IInv /\ Asking /\ Cached /\ Trained /\ Reporting /\ [PrepareNext]_allVars
    => Reporting'
<1> SUFFICES ASSUME IInv, Asking, Cached, Trained, Reporting,
    [PrepareNext]_allVars PROVE Reporting'
  OBVIOUS
<1> USE DEF Reporting, Begin, Go
<1>1. CASE Call
  BY <1>1 DEF Call, ReportConstructs
<1>2. CASE RestoreCall
  BY <1>2 DEF RestoreCall, ReportConstructs
<1>3. CASE LoadCache
  BY <1>3 DEF LoadCache, ReportConstructs, told, data
<1>4. CASE SaveTokenizer
  BY <1>4 DEF SaveTokenizer, ReportConstructs, told, data
<1>5. CASE WriteShard
  BY <1>5 DEF WriteShard, ReportConstructs, told, data
<1>6. CASE OpenData
  BY <1>6 DEF OpenData, ReportConstructs, told, data
<1>7. CASE WriteCache
  BY <1>7 DEF WriteCache, ReportConstructs, told, data
<1>8. CASE FromScratch
  BY <1>8 DEF FromScratch, ReportConstructs, told, data
<1>9. CASE TrainCall
  BY <1>9 DEF TrainCall, ReportConstructs, session, told
<1>10. CASE Working
  BY <1>10 DEF Working, ReportConstructs, session, told
<1>11. CASE Raises
  BY <1>11 DEF Raises, ReportConstructs, told, data
<1>12. CASE Passed
  BY <1>12, ReportedConstructs DEF Passed, WriteReport
<1>13. CASE Failed
  BY <1>13, ReportedConstructs DEF Failed, WriteReport
<1>14. CASE Killed
  BY <1>14 DEF Killed, ReportConstructs, told
<1>15. CASE UNCHANGED allVars
  BY <1>15 DEF allVars, session, data, told, vars, files, ReportConstructs,
     Restorable, Constructible, Saved
<1>16. QED
  BY <1>1, <1>2, <1>3, <1>4, <1>5, <1>6, <1>7, <1>8, <1>9, <1>10, <1>11,
     <1>12, <1>13, <1>14, <1>15
  DEF PrepareNext

-----------------------------------------------------------------------------
(* The theorems about the sessions                                          *)

\* The invariant of the sessions holds in an empty directory.
LEMMA PrepareInitInv == PrepareInit => SessionInv
<1> SUFFICES ASSUME PrepareInit PROVE SessionInv
  OBVIOUS
<1>1. IInv
  BY InitIInv DEF PrepareInit
<1>2. Scheduled
  BY DEF PrepareInit, Init, Scheduled, Saved, none
<1>3. Asking /\ Prepared
  BY DEF PrepareInit, Asking, Prepared, NoReport, none
<1>4. Cached /\ Trained /\ Reporting
  BY DEF PrepareInit, Init, Cached, Trained, Reporting, ReportConstructs, none
<1>5. QED
  BY <1>1, <1>2, <1>3, <1>4 DEF SessionInv

\* Every step keeps the invariant of the sessions.
LEMMA SessionStep == SessionInv /\ [PrepareNext]_allVars => SessionInv'
<1> SUFFICES ASSUME SessionInv, [PrepareNext]_allVars PROVE SessionInv'
  OBVIOUS
<1>1. [Next]_vars /\ ~ (pc = "loaded" /\ pc' = "ready")
  BY ScratchStep DEF SessionInv
<1>2. IInv' /\ Scheduled'
  BY <1>1, InvStep, ScheduledStep DEF SessionInv
<1>3. Asking' /\ Prepared' /\ Cached' /\ Trained' /\ Reporting'
  BY AskingStep, PreparedStep, CachedStep, TrainedStep, ReportingStep
  DEF SessionInv
<1>4. QED
  BY <1>2, <1>3 DEF SessionInv

\* The inductive invariant holds in every behaviour of the sessions.
THEOREM SessionInductive == PretrainingSpec => []SessionInv
<1>1. QED
  BY PrepareInitInv, SessionStep, PTL DEF PretrainingSpec

\* Whatever the sessions of run_pretraining do to the output directory, calls
\* that raise and kills included, is a behaviour of ScratchRun.
THEOREM SessionsRefine == PretrainingSpec => Spec
<1>1. PrepareInit => Init
  BY DEF PrepareInit
<1>2. SessionInv /\ [PrepareNext]_allVars => [Next]_vars
  BY ScratchStep DEF SessionInv
<1>3. QED
  BY <1>1, <1>2, SessionInductive, PTL DEF PretrainingSpec, Spec

\* Hence a bound directory can be resumed after any sessions.
THEOREM SessionsResumable == PretrainingSpec => []RunResumable
<1>1. QED
  BY SessionsRefine, AlwaysResumable, PTL

\* The same of retention.
THEOREM SessionsRetainSafely == PretrainingSpec => []RetentionSafe
<1>1. QED
  BY SessionsRefine, RetentionIsSafe, PTL

\* No session trains, or saves, a schedule that ends elsewhere than at the
\* horizon of its budget (_activate_scratch_budget_extension).  It is not so in
\* ScratchRun, where train() may be called again after a failure.
THEOREM SchedulesAlwaysFit == PretrainingSpec => []SchedulesFit
<1>1. SessionInv => SchedulesFit
  BY DEF SessionInv, Scheduled, SchedulesFit
<1>2. QED
  BY <1>1, SessionInductive, PTL

\* A trainer is built on all of the tokenizer and the shards, made from the
\* settings it was asked for (_load_scratch_preparation_cache).
THEOREM TrainsOnWholeData == PretrainingSpec => []PreparedIsWhole
<1>1. SessionInv => PreparedIsWhole
  BY DEF SessionInv, Prepared, Whole, PreparedIsWhole
<1>2. QED
  BY <1>1, SessionInductive, PTL

\* A report that offers a checkpoint can be restored (build_resume_report,
\* restore_pretraining_report).
THEOREM ReportsRestore == PretrainingSpec => []ReportConstructs
<1>1. SessionInv => ReportConstructs
  BY DEF SessionInv, Reporting
<1>2. QED
  BY <1>1, SessionInductive, PTL

\* The data of a bound directory is never touched.
LEMMA BoundStep ==
  SessionInv /\ [PrepareNext]_allVars
    => [config # none => UNCHANGED <<tokenizer, shard, cache>>]_allVars
<1> SUFFICES ASSUME SessionInv, [PrepareNext]_allVars, config # none
             PROVE  UNCHANGED <<tokenizer, shard, cache>>
  OBVIOUS
<1>1. at \notin {"tokenizer", "shards", "open", "write_cache"}
  BY DEF SessionInv, Cached
<1>2. CASE PrepareNext
  BY <1>1, <1>2 DEF PrepareNext, Call, RestoreCall, Begin, LoadCache, data,
     SaveTokenizer, WriteShard, OpenData, WriteCache, FromScratch, TrainCall,
     Working, session, Raises, Passed, Failed, WriteReport, Killed
<1>3. CASE UNCHANGED allVars
  BY <1>3 DEF allVars, session, data
<1>4. QED
  BY <1>2, <1>3

\* No session replaces files that checkpoints were trained on.
THEOREM BoundDataStays == PretrainingSpec => BoundDataKept
<1>1. QED
  BY BoundStep, SessionInductive, PTL DEF PretrainingSpec, BoundDataKept

=============================================================================
