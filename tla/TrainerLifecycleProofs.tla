----------------------- MODULE TrainerLifecycleProofs -----------------------
(***************************************************************************)
(* Proofs about TrainerLifecycle for every step budget, cadence, number of *)
(* restarts and wiring (with or without eval loader and saver).            *)
(***************************************************************************)
EXTENDS TrainerLifecycle, TLAPS

-----------------------------------------------------------------------------
(* The inductive invariant                                                  *)

InLoop == {"begin", "loop", "step", "scheduled", "then_save", "then_loop"}

\* Outside a nested call the phase follows from where train() stands, and
\* FAILED is the only phase in which train() carries an exception out.
ShapeNoOp ==
  opKind = "none" =>
    /\ pc \in InLoop => phase = "training" /\ failure = "none"
    /\ pc = "idle" =>
         /\ phase \in {"created", "prepared", "failed", "finalized"}
         /\ failure = "error" => phase \in {"failed", "finalized"}
    /\ pc \in {"finish", "stopping"} =>
         /\ phase \in {"training", "failed"}
         /\ failure = "error" => phase = "failed"
    /\ pc \in {"rt_end", "rt_final", "finalizing"} =>
         phase \in {"stopping", "failed"}

\* An evaluation runs in EVALUATING; one after a failure started in FINALIZED.
ShapeEvaluate ==
  opKind = "evaluate" =>
    /\ phase = "evaluating"
    /\ pc \in {"idle", "then_save", "then_loop"}
    /\ pc = "idle" => opPrev \in {"created", "prepared", "finalized"}
    /\ pc # "idle" => opPrev = "training"
    /\ failure = "error" => opPrev = "finalized"

\* A save or load is in its own phase until it fails, and then in FAILED.
ShapeSave ==
  opKind = "save" =>
    /\ pc \in {"idle", "loop", "stopping"}
    /\ pc = "idle" => opPrev \in {"created", "prepared"}
    /\ pc # "idle" => opPrev = "training"
    /\ phase \in {"saving", "failed"}
    /\ phase = "saving" => failure = "none"
    /\ opAt = "body" => phase = "saving"

ShapeLoad ==
  opKind = "load" =>
    /\ pc = "idle"
    /\ opPrev = "prepared"
    /\ phase \in {"resuming", "failed"}
    /\ phase = "resuming" => failure = "none"
    /\ opAt = "body" => phase = "resuming"

Shape == ShapeNoOp /\ ShapeEvaluate /\ ShapeSave /\ ShapeLoad

\* A noted stop request is still raised, and the update that is under way when
\* it arrives has not been counted yet.
StopInv ==
  /\ reqStep # never => StopAsked
  /\ reqStep # never => step <= reqStep + 1
  /\ (reqStep # never /\ pc = "step") => step <= reqStep

\* Every checkpoint was saved within the budget, and an update starts only
\* below it.
BudgetInv ==
  /\ disk \subseteq 0..MaxSteps
  /\ step \in 0..MaxSteps
  /\ pc = "step" => step < MaxSteps

\* Where train() stands tells how much of the last update is saved: all of it
\* before the first update of this process, after a due periodic save, and
\* after the final save.
SavesHere == SaveEvery > 0 /\ HasSaver /\ step >= 1

Saved == step \in disk /\ lastCkpt = step

SavedIdle ==
  (failure = "none" /\ pc \in {"idle", "begin", "finalizing"} /\ ends = 0) =>
    step = 0 \/ Saved

SavedPeriodic ==
  /\ (pc = "then_loop" /\ HasSaver /\ step >= 1) => ~Due(SaveEvery)
  /\ (/\ pc = "loop" /\ opKind # "save"
      /\ HasSaver /\ step >= 1 /\ Due(SaveEvery)) => Saved
  /\ (opKind = "save" /\ opAt = "after" /\ phase = "saving") => Saved

SavedFinal ==
  /\ (/\ pc = "stopping" /\ opKind = "none"
      /\ failure = "none" /\ SavesHere) => Saved
  /\ (pc \in {"rt_end", "rt_final"} /\ failure = "none" /\ SavesHere) => Saved
  /\ (pc = "idle" /\ failure = "none" /\ ends > 0 /\ SavesHere) => Saved

SavedOrder ==
  /\ phase = "failed" => failure = "error"
  /\ ends > 0 =>
       /\ pc \in {"rt_final", "idle", "finalizing"}
       /\ opKind \in {"none", "evaluate"}
       /\ opKind = "evaluate" => opPrev = "finalized"
       /\ (pc = "idle" /\ opKind = "none") => phase \in {"failed", "finalized"}
  /\ (pc = "finalizing" /\ ends > 0) => failure = "error"
  /\ pc = "rt_final" => ends > 0
  /\ lastCkpt # never => lastCkpt \in disk

SavedInv == SavedIdle /\ SavedPeriodic /\ SavedFinal /\ SavedOrder

\* The end hook runs once, after is_training was switched off.
LeaveInv ==
  /\ pc \in InLoop \union {"finish", "stopping", "rt_end"} => ends = 0
  /\ pc = "rt_final" => ends = 1
  /\ pc \in {"stopping", "rt_end", "rt_final"} => "is_training" \notin flags

IInv == TypeOK /\ Shape /\ StopInv /\ BudgetInv

-----------------------------------------------------------------------------
\* The invariant holds in a new trainer.
LEMMA InitIInv == Init => IInv
  BY ConfigAssumption
  DEF Init, IInv, TypeOK, TypeData, TypeSets, Shape, ShapeNoOp, ShapeEvaluate,
      ShapeSave, ShapeLoad,
      StopInv, BudgetInv, NoOp, Flags, Phases, Locations, never, InLoop

\* mark_failed keeps the types of phase and failure.
LEMMA MarkFailedType ==
  ASSUME TypeOK, MarkFailed
  PROVE  /\ phase' \in Phases
         /\ failure' \in {"none", "error"}
  BY DEF TypeOK, TypeData, MarkFailed, Phases

\* Noting a stop request keeps its type.
LEMMA NoteRequestType ==
  ASSUME TypeOK, NoteRequest
  PROVE  reqStep' \in Nat \union {never}
  BY DEF TypeOK, TypeData, NoteRequest

\* Every step keeps the types of the counters and records.
LEMMA TypeDataStep == TypeOK /\ [Next]_vars => TypeData'
<1> SUFFICES ASSUME TypeOK, [Next]_vars PROVE TypeData'
  OBVIOUS
<1> USE DEF TypeOK, TypeData, TypeSets, Phases, Locations, never, Count, op
<1>1. CASE TrainBegin
  BY <1>1, MarkFailedType, NoteRequestType DEF TrainBegin, At, Raise
<1>2. CASE LoopEnter
  BY <1>2 DEF LoopEnter, At
<1>3. CASE LoopExit
  BY <1>3 DEF LoopExit, At
<1>4. CASE TrainStep
  BY <1>4, MarkFailedType, NoteRequestType DEF TrainStep, At, Raise
<1>5. CASE Scheduled
  BY <1>5, MarkFailedType, NoteRequestType
  DEF Scheduled, At, AfterEval, Begin, Raise
<1>6. CASE ScheduledSave
  BY <1>6, MarkFailedType, NoteRequestType DEF ScheduledSave, At, Begin, Raise
<1>7. CASE NothingToSave
  BY <1>7 DEF NothingToSave, At
<1>8. CASE EvaluateBody
  BY <1>8, MarkFailedType, NoteRequestType
  DEF EvaluateBody, EndOp, Restore, AfterRaise
<1>9. CASE SaveBody
  BY <1>9, MarkFailedType, NoteRequestType DEF SaveBody
<1>10. CASE LoadBody
  <2>1. /\ step' \in Nat
        /\ lastCkpt' \in Nat \union {never}
    BY <1>10 DEF LoadBody
  <2>2. reqStep' \in Nat \union {never}
    BY <1>10, <2>1 DEF LoadBody
  <2>3. /\ phase' \in Phases
        /\ failure' \in {"none", "error"}
    BY <1>10, MarkFailedType DEF LoadBody
  <2>4. UNCHANGED <<ends, finals, restarts, runtime, pc, opKind, opPrev>>
        /\ opAt' = "after"
    BY <1>10 DEF LoadBody
  <2>5. QED
    BY <2>1, <2>2, <2>3, <2>4
<1>11. CASE AfterCheckpoint
  BY <1>11, MarkFailedType, NoteRequestType
  DEF AfterCheckpoint, EndOp, Restore, AfterRaise
<1>12. CASE Finish
  BY <1>12 DEF Finish, At, Begin
<1>13. CASE Stopping
  BY <1>13, NoteRequestType DEF Stopping, At
<1>14. CASE RuntimeTrainEnd
  BY <1>14, MarkFailedType, NoteRequestType DEF RuntimeTrainEnd, At
<1>15. CASE RuntimeFinalize
  BY <1>15, NoteRequestType DEF RuntimeFinalize, At, Terminal
<1>16. CASE FinalizeReturn
  BY <1>16 DEF FinalizeReturn, At, Terminal
<1>17. CASE PrepareCall
  BY <1>17, MarkFailedType, NoteRequestType DEF PrepareCall, Idle
<1>18. CASE TrainCall
  BY <1>18 DEF TrainCall, Idle
<1>19. CASE EvaluateCall
  BY <1>19 DEF EvaluateCall, Idle, Begin
<1>20. CASE SaveCall
  BY <1>20 DEF SaveCall, Idle, Begin
<1>21. CASE LoadCall
  BY <1>21 DEF LoadCall, Idle, Begin
<1>22. CASE FinalizeCall
  BY <1>22 DEF FinalizeCall, Idle
<1>23. CASE RequestStop
  BY <1>23, NoteRequestType DEF RequestStop
<1>24. CASE NewProcess
  BY <1>24 DEF NewProcess, EndOp
<1>25. CASE UNCHANGED vars
  BY <1>25 DEF vars
<1>26. QED
  BY <1>1, <1>2, <1>3, <1>4, <1>5, <1>6, <1>7, <1>8, <1>9, <1>10, <1>11,
     <1>12, <1>13, <1>14, <1>15, <1>16, <1>17, <1>18, <1>19, <1>20, <1>21,
     <1>22, <1>23, <1>24, <1>25
  DEF Next, Running, UserCall, FinalizeRefused

\* Every step keeps the types of the sets.
LEMMA TypeSetsStep == TypeOK /\ [Next]_vars => TypeSets'
<1> SUFFICES ASSUME TypeOK, [Next]_vars PROVE TypeSets'
  OBVIOUS
<1> USE DEF TypeOK, TypeData, TypeSets, Flags
<1>1. CASE TrainBegin
  BY <1>1 DEF TrainBegin, Asked, Raise, MarkFailed
<1>2. CASE LoopEnter
  BY <1>2 DEF LoopEnter, ResetControl
<1>3. CASE LoopExit
  BY <1>3 DEF LoopExit
<1>4. CASE TrainStep
  BY <1>4 DEF TrainStep, Asked, Raise, MarkFailed
<1>5. CASE Scheduled
  BY <1>5 DEF Scheduled, Raise, MarkFailed
<1>6. CASE ScheduledSave
  BY <1>6 DEF ScheduledSave, Raise, MarkFailed
<1>7. CASE NothingToSave
  BY <1>7 DEF NothingToSave
<1>8. CASE EvaluateBody
  BY <1>8 DEF EvaluateBody, Asked, MarkFailed
<1>9. CASE SaveBody
  BY <1>9 DEF SaveBody, Asked, MarkFailed
<1>10. CASE LoadBody
  BY <1>10 DEF LoadBody, Asked, MarkFailed
<1>11. CASE AfterCheckpoint
  BY <1>11 DEF AfterCheckpoint, MarkFailed
<1>12. CASE Finish
  BY <1>12 DEF Finish
<1>13. CASE Stopping
  BY <1>13 DEF Stopping, Asked
<1>14. CASE RuntimeTrainEnd
  BY <1>14 DEF RuntimeTrainEnd, MarkFailed
<1>15. CASE RuntimeFinalize
  BY <1>15 DEF RuntimeFinalize
<1>16. CASE FinalizeReturn
  BY <1>16 DEF FinalizeReturn
<1>17. CASE PrepareCall
  BY <1>17 DEF PrepareCall, MarkFailed
<1>18. CASE TrainCall
  BY <1>18 DEF TrainCall
<1>19. CASE EvaluateCall
  BY <1>19 DEF EvaluateCall
<1>20. CASE SaveCall
  BY <1>20 DEF SaveCall
<1>21. CASE LoadCall
  BY <1>21 DEF LoadCall
<1>22. CASE FinalizeCall
  BY <1>22 DEF FinalizeCall
<1>23. CASE RequestStop
  BY <1>23 DEF RequestStop
<1>24. CASE NewProcess
  BY <1>24 DEF NewProcess
<1>25. CASE UNCHANGED vars
  BY <1>25 DEF vars
<1>26. QED
  BY <1>1, <1>2, <1>3, <1>4, <1>5, <1>6, <1>7, <1>8, <1>9, <1>10, <1>11,
     <1>12, <1>13, <1>14, <1>15, <1>16, <1>17, <1>18, <1>19, <1>20, <1>21,
     <1>22, <1>23, <1>24, <1>25
  DEF Next, Running, UserCall, FinalizeRefused

\* Every step keeps the types.
LEMMA TypeStep == TypeOK /\ [Next]_vars => TypeOK'
  BY TypeDataStep, TypeSetsStep DEF TypeOK

\* Every step keeps the phases each place allows.
LEMMA ShapeStep == IInv /\ [Next]_vars => Shape'
<1> SUFFICES ASSUME IInv, [Next]_vars PROVE Shape'
  OBVIOUS
<1> USE DEF IInv, TypeOK, TypeData, Shape, ShapeNoOp, ShapeEvaluate, ShapeSave,
            ShapeLoad, InLoop, op, Locations
<1>1. CASE TrainBegin
  BY <1>1 DEF TrainBegin, At, Raise, MarkFailed
<1>2. CASE LoopEnter
  BY <1>2 DEF LoopEnter, At
<1>3. CASE LoopExit
  BY <1>3 DEF LoopExit, At
<1>4. CASE TrainStep
  BY <1>4 DEF TrainStep, At, Raise, MarkFailed
<1>5. CASE Scheduled
  BY <1>5 DEF Scheduled, At, AfterEval, Begin, Raise, MarkFailed
<1>6. CASE ScheduledSave
  BY <1>6 DEF ScheduledSave, At, Begin, Raise, MarkFailed
<1>7. CASE NothingToSave
  BY <1>7 DEF NothingToSave, At
<1>8. CASE EvaluateBody
  BY <1>8 DEF EvaluateBody, EndOp, Restore, AfterRaise, MarkFailed
<1>9. CASE SaveBody
  BY <1>9 DEF SaveBody, MarkFailed
<1>10. CASE LoadBody
  BY <1>10 DEF LoadBody, MarkFailed
<1>11. CASE AfterCheckpoint
  BY <1>11 DEF AfterCheckpoint, EndOp, Restore, AfterRaise, MarkFailed
<1>12. CASE Finish
  BY <1>12 DEF Finish, At, Begin, FinalSaveDue
<1>13. CASE Stopping
  BY <1>13 DEF Stopping, At
<1>14. CASE RuntimeTrainEnd
  BY <1>14 DEF RuntimeTrainEnd, At, MarkFailed
<1>15. CASE RuntimeFinalize
  BY <1>15 DEF RuntimeFinalize, At, Terminal
<1>16. CASE FinalizeReturn
  BY <1>16 DEF FinalizeReturn, At, Terminal
<1>17. CASE PrepareCall
  BY <1>17 DEF PrepareCall, Idle, MarkFailed
<1>18. CASE TrainCall
  BY <1>18 DEF TrainCall, Idle
<1>19. CASE EvaluateCall
  BY <1>19 DEF EvaluateCall, Idle, Begin
<1>20. CASE SaveCall
  BY <1>20 DEF SaveCall, Idle, Begin
<1>21. CASE LoadCall
  BY <1>21 DEF LoadCall, Idle, Begin
<1>22. CASE FinalizeCall
  BY <1>22 DEF FinalizeCall, Idle
<1>23. CASE RequestStop
  BY <1>23 DEF RequestStop
<1>24. CASE NewProcess
  BY <1>24 DEF NewProcess, EndOp
<1>25. CASE UNCHANGED vars
  BY <1>25 DEF vars
<1>26. QED
  BY <1>1, <1>2, <1>3, <1>4, <1>5, <1>6, <1>7, <1>8, <1>9, <1>10, <1>11,
     <1>12, <1>13, <1>14, <1>15, <1>16, <1>17, <1>18, <1>19, <1>20, <1>21,
     <1>22, <1>23, <1>24, <1>25
  DEF Next, Running, UserCall, FinalizeRefused

-----------------------------------------------------------------------------
(* A stop request is never lost before the boundary                         *)

\* What every step but TrainStep and LoadBody does to the update counter.
Steady == step' = step /\ (pc' = "step" => pc = "step")

\* A step within an update that keeps a stop request keeps its bound,
LEMMA StopKept ==
  ASSUME TypeOK, StopInv, Steady, StopAsked => StopAsked', reqStep' = reqStep
  PROVE  StopInv'
  BY DEF TypeOK, TypeData, StopInv, Steady

\* and so does one that notes the request,
LEMMA StopNoted ==
  ASSUME TypeOK, StopInv, Steady, StopAsked => StopAsked', NoteRequest
  PROVE  StopInv'
  <1> USE DEF TypeOK, TypeData, StopInv, Steady, NoteRequest
  <1>1. CASE reqStep = never /\ StopAsked'
    BY <1>1
  <1>2. CASE ~(reqStep = never /\ StopAsked')
    BY <1>2
  <1>3. QED
    BY <1>1, <1>2

\* or that loads a checkpoint and counts from there.
LEMMA StopAtLoad ==
  ASSUME step' \in Nat, reqStep' = step', StopAsked', pc' # "step"
  PROVE  StopInv'
  <1>1. \A n \in Nat : n <= n + 1
    OBVIOUS
  <1>2. QED
    BY <1>1 DEF StopInv

\* Every step keeps the bound on what follows a stop request.
LEMMA StopStep == IInv /\ [Next]_vars => StopInv'
<1> SUFFICES ASSUME IInv, [Next]_vars PROVE StopInv'
  OBVIOUS
<1> USE DEF IInv, op
<1>1. CASE TrainBegin
  <2>1. StopAsked => StopAsked'
    BY <1>1 DEF TrainBegin, Asked, Raise, MarkFailed, StopAsked
  <2>2. Steady /\ NoteRequest
    BY <1>1 DEF TrainBegin, At, Raise, Steady
  <2>3. QED
    BY <2>1, <2>2, StopNoted
<1>2. CASE LoopEnter
  <2>1. reqStep = never
    BY <1>2 DEF LoopEnter, ShouldStop, StopInv
  <2>2. reqStep' = reqStep
    BY <1>2 DEF LoopEnter
  <2>3. QED
    BY <2>1, <2>2 DEF StopInv
<1>3. CASE LoopExit
  <2>1. StopAsked => StopAsked'
    BY <1>3 DEF LoopExit, StopAsked
  <2>2. Steady /\ reqStep' = reqStep
    BY <1>3 DEF LoopExit, Steady
  <2>3. QED
    BY <2>1, <2>2, StopKept
<1>4. CASE TrainStep
  <2>1. StopAsked => StopAsked'
    BY <1>4 DEF TrainStep, Asked, Raise, MarkFailed, StopAsked
  <2>2. step' \in {step, step + 1} /\ pc = "step" /\ pc' # "step" /\ NoteRequest
    BY <1>4 DEF TrainStep, At, Raise
  <2>3. CASE reqStep = never /\ StopAsked'
    BY <2>2, <2>3 DEF NoteRequest, StopInv, TypeOK, TypeData
  <2>4. CASE ~(reqStep = never /\ StopAsked')
    BY <2>1, <2>2, <2>4 DEF NoteRequest, StopInv, TypeOK, TypeData
  <2>5. QED
    BY <2>3, <2>4
<1>5. CASE Scheduled
  <2>1. StopAsked => StopAsked'
    BY <1>5 DEF Scheduled, Raise, MarkFailed, StopAsked
  <2>2. Steady /\ NoteRequest
    BY <1>5 DEF Scheduled, At, AfterEval, Raise, Steady
  <2>3. QED
    BY <2>1, <2>2, StopNoted
<1>6. CASE ScheduledSave
  <2>1. StopAsked => StopAsked'
    BY <1>6 DEF ScheduledSave, Raise, MarkFailed, StopAsked
  <2>2. Steady /\ NoteRequest
    BY <1>6 DEF ScheduledSave, At, Raise, Steady
  <2>3. QED
    BY <2>1, <2>2, StopNoted
<1>7. CASE NothingToSave
  <2>1. StopAsked => StopAsked'
    BY <1>7 DEF NothingToSave, StopAsked
  <2>2. Steady /\ reqStep' = reqStep
    BY <1>7 DEF NothingToSave, Steady
  <2>3. QED
    BY <2>1, <2>2, StopKept
<1>8. CASE EvaluateBody
  <2>1. StopAsked => StopAsked'
    BY <1>8 DEF EvaluateBody, Asked, MarkFailed, StopAsked
  <2>2. Steady /\ NoteRequest
    BY <1>8 DEF EvaluateBody, AfterRaise, Steady
  <2>3. QED
    BY <2>1, <2>2, StopNoted
<1>9. CASE SaveBody
  <2>1. StopAsked => StopAsked'
    BY <1>9 DEF SaveBody, Asked, MarkFailed, StopAsked
  <2>2. Steady /\ NoteRequest
    BY <1>9 DEF SaveBody, Steady
  <2>3. QED
    BY <2>1, <2>2, StopNoted
<1>10. CASE LoadBody
  <2>1. StopAsked => StopAsked'
    BY <1>10 DEF LoadBody, Asked, MarkFailed, StopAsked
  <2>2. pc' # "step"
    BY <1>10 DEF LoadBody, Shape, ShapeLoad
  <2>3. step' \in Nat
    BY <1>10 DEF LoadBody, TypeOK, TypeData, TypeSets
  <2>4. CASE reqStep # never \/ StopAsked'
    <3>1. StopAsked'
      BY <2>1, <2>4 DEF StopInv
    <3>2. reqStep' = step'
      BY <1>10, <2>4 DEF LoadBody, StopAsked
    <3>3. QED
      BY <2>2, <2>3, <3>1, <3>2, StopAtLoad
  <2>5. CASE ~(reqStep # never \/ StopAsked')
    BY <1>10, <2>5 DEF LoadBody, StopInv
  <2>6. QED
    BY <2>4, <2>5
<1>11. CASE AfterCheckpoint
  <2>1. StopAsked => StopAsked'
    BY <1>11 DEF AfterCheckpoint, MarkFailed, StopAsked
  <2>2. Steady /\ NoteRequest
    BY <1>11 DEF AfterCheckpoint, AfterRaise, Steady
  <2>3. QED
    BY <2>1, <2>2, StopNoted
<1>12. CASE Finish
  <2>1. StopAsked => StopAsked'
    BY <1>12 DEF Finish, StopAsked
  <2>2. Steady /\ reqStep' = reqStep
    BY <1>12 DEF Finish, Steady
  <2>3. QED
    BY <2>1, <2>2, StopKept
<1>13. CASE Stopping
  <2>1. StopAsked => StopAsked'
    BY <1>13 DEF Stopping, Asked, StopAsked
  <2>2. Steady /\ NoteRequest
    BY <1>13 DEF Stopping, Steady
  <2>3. QED
    BY <2>1, <2>2, StopNoted
<1>14. CASE RuntimeTrainEnd
  <2>1. StopAsked => StopAsked'
    BY <1>14 DEF RuntimeTrainEnd, MarkFailed, StopAsked
  <2>2. Steady /\ NoteRequest
    BY <1>14 DEF RuntimeTrainEnd, Steady
  <2>3. QED
    BY <2>1, <2>2, StopNoted
<1>15. CASE RuntimeFinalize
  <2>1. StopAsked => StopAsked'
    BY <1>15 DEF RuntimeFinalize, StopAsked
  <2>2. Steady /\ NoteRequest
    BY <1>15 DEF RuntimeFinalize, Steady
  <2>3. QED
    BY <2>1, <2>2, StopNoted
<1>16. CASE FinalizeReturn
  <2>1. StopAsked => StopAsked'
    BY <1>16 DEF FinalizeReturn, StopAsked
  <2>2. Steady /\ reqStep' = reqStep
    BY <1>16 DEF FinalizeReturn, Steady
  <2>3. QED
    BY <2>1, <2>2, StopKept
<1>17. CASE PrepareCall
  <2>1. StopAsked => StopAsked'
    BY <1>17 DEF PrepareCall, MarkFailed, StopAsked
  <2>2. Steady /\ NoteRequest
    BY <1>17 DEF PrepareCall, Steady
  <2>3. QED
    BY <2>1, <2>2, StopNoted
<1>18. CASE TrainCall
  <2>1. StopAsked => StopAsked'
    BY <1>18 DEF TrainCall, StopAsked
  <2>2. Steady /\ reqStep' = reqStep
    BY <1>18 DEF TrainCall, Steady
  <2>3. QED
    BY <2>1, <2>2, StopKept
<1>19. CASE EvaluateCall
  <2>1. StopAsked => StopAsked'
    BY <1>19 DEF EvaluateCall, StopAsked
  <2>2. Steady /\ reqStep' = reqStep
    BY <1>19 DEF EvaluateCall, Steady
  <2>3. QED
    BY <2>1, <2>2, StopKept
<1>20. CASE SaveCall
  <2>1. StopAsked => StopAsked'
    BY <1>20 DEF SaveCall, StopAsked
  <2>2. Steady /\ reqStep' = reqStep
    BY <1>20 DEF SaveCall, Steady
  <2>3. QED
    BY <2>1, <2>2, StopKept
<1>21. CASE LoadCall
  <2>1. StopAsked => StopAsked'
    BY <1>21 DEF LoadCall, StopAsked
  <2>2. Steady /\ reqStep' = reqStep
    BY <1>21 DEF LoadCall, Steady
  <2>3. QED
    BY <2>1, <2>2, StopKept
<1>22. CASE FinalizeCall
  <2>1. StopAsked => StopAsked'
    BY <1>22 DEF FinalizeCall, StopAsked
  <2>2. Steady /\ reqStep' = reqStep
    BY <1>22 DEF FinalizeCall, Steady
  <2>3. QED
    BY <2>1, <2>2, StopKept
<1>23. CASE RequestStop
  <2>1. StopAsked => StopAsked'
    BY <1>23 DEF RequestStop, StopAsked
  <2>2. Steady /\ NoteRequest
    BY <1>23 DEF RequestStop, Steady
  <2>3. QED
    BY <2>1, <2>2, StopNoted
<1>24. CASE NewProcess
  BY <1>24 DEF NewProcess, StopInv
<1>25. CASE UNCHANGED vars
  BY <1>25 DEF vars, op, StopInv, StopAsked
<1>26. QED
  BY <1>1, <1>2, <1>3, <1>4, <1>5, <1>6, <1>7, <1>8, <1>9, <1>10, <1>11,
     <1>12, <1>13, <1>14, <1>15, <1>16, <1>17, <1>18, <1>19, <1>20, <1>21,
     <1>22, <1>23, <1>24, <1>25
  DEF Next, Running, UserCall, FinalizeRefused

-----------------------------------------------------------------------------
(* The step budget                                                          *)

\* Every step keeps the step within its budget.
LEMMA BudgetStep == IInv /\ [Next]_vars => BudgetInv'
<1> SUFFICES ASSUME IInv, [Next]_vars PROVE BudgetInv'
  OBVIOUS
<1> USE ConfigAssumption DEF ConfigAssumption, IInv, TypeOK, TypeData,
            BudgetInv, op
<1>1. CASE TrainBegin
  <2>1. Steady /\ disk' = disk
    BY <1>1 DEF TrainBegin, At, Raise, Steady
  <2>2. QED
    BY <2>1 DEF Steady
<1>2. CASE LoopEnter
  BY <1>2 DEF LoopEnter, ShouldStop
<1>3. CASE LoopExit
  <2>1. Steady /\ disk' = disk
    BY <1>3 DEF LoopExit, Steady
  <2>2. QED
    BY <2>1 DEF Steady
<1>4. CASE TrainStep
  <2>1. /\ step' \in {step, step + 1} /\ disk' = disk
        /\ pc = "step" /\ pc' # "step"
    BY <1>4 DEF TrainStep, At, Raise
  <2>2. step + 1 \in 0..MaxSteps
    BY <2>1
  <2>3. QED
    BY <2>1, <2>2
<1>5. CASE Scheduled
  <2>1. Steady /\ disk' = disk
    BY <1>5 DEF Scheduled, At, AfterEval, Raise, Steady
  <2>2. QED
    BY <2>1 DEF Steady
<1>6. CASE ScheduledSave
  <2>1. Steady /\ disk' = disk
    BY <1>6 DEF ScheduledSave, At, Raise, Steady
  <2>2. QED
    BY <2>1 DEF Steady
<1>7. CASE NothingToSave
  <2>1. Steady /\ disk' = disk
    BY <1>7 DEF NothingToSave, Steady
  <2>2. QED
    BY <2>1 DEF Steady
<1>8. CASE EvaluateBody
  <2>1. Steady /\ disk' = disk
    BY <1>8 DEF EvaluateBody, AfterRaise, Steady
  <2>2. QED
    BY <2>1 DEF Steady
<1>9. CASE SaveBody
  <2>1. Steady /\ disk' \in {disk, disk \union {step}}
    BY <1>9 DEF SaveBody, Steady
  <2>2. disk' \subseteq 0..MaxSteps
    BY <2>1
  <2>3. QED
    BY <2>1, <2>2 DEF Steady
<1>10. CASE LoadBody
  <2>1. disk' = disk /\ pc' # "step"
    BY <1>10 DEF LoadBody, Shape, ShapeLoad
  <2>2. step' \in 0..MaxSteps
    BY <1>10 DEF LoadBody
  <2>3. QED
    BY <2>1, <2>2
<1>11. CASE AfterCheckpoint
  <2>1. Steady /\ disk' = disk
    BY <1>11 DEF AfterCheckpoint, AfterRaise, Steady
  <2>2. QED
    BY <2>1 DEF Steady
<1>12. CASE Finish
  <2>1. Steady /\ disk' = disk
    BY <1>12 DEF Finish, Steady
  <2>2. QED
    BY <2>1 DEF Steady
<1>13. CASE Stopping
  <2>1. Steady /\ disk' = disk
    BY <1>13 DEF Stopping, Steady
  <2>2. QED
    BY <2>1 DEF Steady
<1>14. CASE RuntimeTrainEnd
  <2>1. Steady /\ disk' = disk
    BY <1>14 DEF RuntimeTrainEnd, Steady
  <2>2. QED
    BY <2>1 DEF Steady
<1>15. CASE RuntimeFinalize
  <2>1. Steady /\ disk' = disk
    BY <1>15 DEF RuntimeFinalize, Steady
  <2>2. QED
    BY <2>1 DEF Steady
<1>16. CASE FinalizeReturn
  <2>1. Steady /\ disk' = disk
    BY <1>16 DEF FinalizeReturn, Steady
  <2>2. QED
    BY <2>1 DEF Steady
<1>17. CASE PrepareCall
  <2>1. Steady /\ disk' = disk
    BY <1>17 DEF PrepareCall, Steady
  <2>2. QED
    BY <2>1 DEF Steady
<1>18. CASE TrainCall
  <2>1. Steady /\ disk' = disk
    BY <1>18 DEF TrainCall, Steady
  <2>2. QED
    BY <2>1 DEF Steady
<1>19. CASE EvaluateCall
  <2>1. Steady /\ disk' = disk
    BY <1>19 DEF EvaluateCall, Steady
  <2>2. QED
    BY <2>1 DEF Steady
<1>20. CASE SaveCall
  <2>1. Steady /\ disk' = disk
    BY <1>20 DEF SaveCall, Steady
  <2>2. QED
    BY <2>1 DEF Steady
<1>21. CASE LoadCall
  <2>1. Steady /\ disk' = disk
    BY <1>21 DEF LoadCall, Steady
  <2>2. QED
    BY <2>1 DEF Steady
<1>22. CASE FinalizeCall
  <2>1. Steady /\ disk' = disk
    BY <1>22 DEF FinalizeCall, Steady
  <2>2. QED
    BY <2>1 DEF Steady
<1>23. CASE RequestStop
  <2>1. Steady /\ disk' = disk
    BY <1>23 DEF RequestStop, Steady
  <2>2. QED
    BY <2>1 DEF Steady
<1>24. CASE NewProcess
  BY <1>24 DEF NewProcess
<1>25. CASE UNCHANGED vars
  BY <1>25 DEF vars
<1>26. QED
  BY <1>1, <1>2, <1>3, <1>4, <1>5, <1>6, <1>7, <1>8, <1>9, <1>10, <1>11,
     <1>12, <1>13, <1>14, <1>15, <1>16, <1>17, <1>18, <1>19, <1>20, <1>21,
     <1>22, <1>23, <1>24, <1>25
  DEF Next, Running, UserCall, FinalizeRefused

-----------------------------------------------------------------------------
(* What is saved                                                            *)

\* Every step keeps what each place says about the saves.
LEMMA SavedStep == IInv /\ SavedInv /\ [Next]_vars => SavedInv'
<1> SUFFICES ASSUME IInv, SavedInv, [Next]_vars PROVE SavedInv'
  OBVIOUS
<1> USE ConfigAssumption
    DEF ConfigAssumption, IInv, TypeOK, TypeData, TypeSets, Shape, ShapeNoOp,
        ShapeEvaluate, ShapeSave, ShapeLoad, InLoop, SavedInv, SavedIdle,
        SavedPeriodic, SavedFinal, SavedOrder, Saved, SavesHere, Due, op, never
<1>1. CASE TrainBegin
  BY <1>1 DEF TrainBegin, At, Raise, MarkFailed
<1>2. CASE LoopEnter
  BY <1>2 DEF LoopEnter, At
<1>3. CASE LoopExit
  BY <1>3 DEF LoopExit, At
<1>4. CASE TrainStep
  BY <1>4 DEF TrainStep, At, Raise, MarkFailed
<1>5. CASE Scheduled
  BY <1>5 DEF Scheduled, At, AfterEval, Begin, Raise, MarkFailed, SaveDue
<1>6. CASE ScheduledSave
  BY <1>6 DEF ScheduledSave, At, Begin, Raise, MarkFailed
<1>7. CASE NothingToSave
  BY <1>7 DEF NothingToSave, At
<1>8. CASE EvaluateBody
  BY <1>8 DEF EvaluateBody, EndOp, Restore, AfterRaise, MarkFailed
<1>9. CASE SaveBody
  BY <1>9 DEF SaveBody, MarkFailed
<1>10. CASE LoadBody
  BY <1>10 DEF LoadBody, MarkFailed
<1>11. CASE AfterCheckpoint
  BY <1>11 DEF AfterCheckpoint, EndOp, Restore, AfterRaise, MarkFailed
<1>12. CASE Finish
  BY <1>12 DEF Finish, At, Begin, FinalSaveDue
<1>13. CASE Stopping
  BY <1>13 DEF Stopping, At
<1>14. CASE RuntimeTrainEnd
  BY <1>14 DEF RuntimeTrainEnd, At, MarkFailed, Count
<1>15. CASE RuntimeFinalize
  BY <1>15 DEF RuntimeFinalize, At, Terminal
<1>16. CASE FinalizeReturn
  BY <1>16 DEF FinalizeReturn, At, Terminal
<1>17. CASE PrepareCall
  BY <1>17 DEF PrepareCall, Idle, MarkFailed
<1>18. CASE TrainCall
  BY <1>18 DEF TrainCall, Idle
<1>19. CASE EvaluateCall
  BY <1>19 DEF EvaluateCall, Idle, Begin
<1>20. CASE SaveCall
  BY <1>20 DEF SaveCall, Idle, Begin
<1>21. CASE LoadCall
  BY <1>21 DEF LoadCall, Idle, Begin
<1>22. CASE FinalizeCall
  BY <1>22 DEF FinalizeCall, Idle
<1>23. CASE RequestStop
  BY <1>23 DEF RequestStop
<1>24. CASE NewProcess
  BY <1>24 DEF NewProcess, EndOp
<1>25. CASE UNCHANGED vars
  BY <1>25 DEF vars
<1>26. QED
  BY <1>1, <1>2, <1>3, <1>4, <1>5, <1>6, <1>7, <1>8, <1>9, <1>10, <1>11,
     <1>12, <1>13, <1>14, <1>15, <1>16, <1>17, <1>18, <1>19, <1>20, <1>21,
     <1>22, <1>23, <1>24, <1>25
  DEF Next, Running, UserCall, FinalizeRefused

-----------------------------------------------------------------------------
(* How train() is left                                                      *)

\* Every step keeps how far the finally chain has come.
LEMMA LeaveStep == IInv /\ SavedInv /\ LeaveInv /\ [Next]_vars => LeaveInv'
<1> SUFFICES ASSUME IInv, SavedInv, LeaveInv, [Next]_vars PROVE LeaveInv'
  OBVIOUS
<1> USE DEF IInv, TypeOK, TypeData, Shape, ShapeNoOp, ShapeEvaluate,
            ShapeSave, ShapeLoad, InLoop, SavedInv, SavedOrder, LeaveInv, op
<1>1. CASE TrainBegin
  BY <1>1 DEF TrainBegin, At, Raise, MarkFailed
<1>2. CASE LoopEnter
  BY <1>2 DEF LoopEnter, At
<1>3. CASE LoopExit
  BY <1>3 DEF LoopExit, At
<1>4. CASE TrainStep
  BY <1>4 DEF TrainStep, At, Raise, MarkFailed
<1>5. CASE Scheduled
  BY <1>5 DEF Scheduled, At, AfterEval, Begin, Raise, MarkFailed
<1>6. CASE ScheduledSave
  BY <1>6 DEF ScheduledSave, At, Begin, Raise, MarkFailed
<1>7. CASE NothingToSave
  BY <1>7 DEF NothingToSave, At
<1>8. CASE EvaluateBody
  BY <1>8 DEF EvaluateBody, EndOp, Restore, AfterRaise, MarkFailed
<1>9. CASE SaveBody
  BY <1>9 DEF SaveBody, MarkFailed
<1>10. CASE LoadBody
  BY <1>10 DEF LoadBody, MarkFailed
<1>11. CASE AfterCheckpoint
  BY <1>11 DEF AfterCheckpoint, EndOp, Restore, AfterRaise, MarkFailed
<1>12. CASE Finish
  BY <1>12 DEF Finish, At, Begin, FinalSaveDue
<1>13. CASE Stopping
  BY <1>13 DEF Stopping, At
<1>14. CASE RuntimeTrainEnd
  BY <1>14 DEF RuntimeTrainEnd, At, MarkFailed, Count
<1>15. CASE RuntimeFinalize
  BY <1>15 DEF RuntimeFinalize, At, Terminal
<1>16. CASE FinalizeReturn
  BY <1>16 DEF FinalizeReturn, At, Terminal
<1>17. CASE PrepareCall
  BY <1>17 DEF PrepareCall, Idle, MarkFailed
<1>18. CASE TrainCall
  BY <1>18 DEF TrainCall, Idle
<1>19. CASE EvaluateCall
  BY <1>19 DEF EvaluateCall, Idle, Begin
<1>20. CASE SaveCall
  BY <1>20 DEF SaveCall, Idle, Begin
<1>21. CASE LoadCall
  BY <1>21 DEF LoadCall, Idle, Begin
<1>22. CASE FinalizeCall
  BY <1>22 DEF FinalizeCall, Idle
<1>23. CASE RequestStop
  BY <1>23 DEF RequestStop
<1>24. CASE NewProcess
  BY <1>24 DEF NewProcess, EndOp
<1>25. CASE UNCHANGED vars
  BY <1>25 DEF vars
<1>26. QED
  BY <1>1, <1>2, <1>3, <1>4, <1>5, <1>6, <1>7, <1>8, <1>9, <1>10, <1>11,
     <1>12, <1>13, <1>14, <1>15, <1>16, <1>17, <1>18, <1>19, <1>20, <1>21,
     <1>22, <1>23, <1>24, <1>25
  DEF Next, Running, UserCall, FinalizeRefused

-----------------------------------------------------------------------------
(* The theorems                                                             *)

\* Nothing is saved and nothing left in a new trainer.
LEMMA InitSaved == Init => SavedInv /\ LeaveInv
  BY DEF Init, NoOp, SavedInv, SavedIdle, SavedPeriodic, SavedFinal, SavedOrder,
         LeaveInv, InLoop, never

\* The inductive invariant holds in every behaviour of the trainer.
THEOREM Inductive == Spec => [](IInv /\ SavedInv /\ LeaveInv)
<1>1. Init => IInv /\ SavedInv /\ LeaveInv
  BY InitIInv, InitSaved
<1>2. IInv /\ SavedInv /\ LeaveInv /\ [Next]_vars
        => (IInv /\ SavedInv /\ LeaveInv)'
  <2>1. IInv /\ [Next]_vars => IInv'
    BY TypeStep, ShapeStep, StopStep, BudgetStep DEF IInv
  <2>2. QED
    BY <2>1, SavedStep, LeaveStep
<1>3. QED
  BY <1>1, <1>2, PTL DEF Spec

\* Every variable of the trainer keeps its type, for every configuration.
THEOREM TypeCorrect == Spec => []TypeOK
<1>1. IInv => TypeOK
  BY DEF IInv
<1>2. QED
  BY <1>1, Inductive, PTL

\* mark_failed wins over every `finally` that restores a phase.
THEOREM FailureStays == Spec => []FailureIsTerminal
<1>1. IInv => FailureIsTerminal
  BY DEF IInv, TypeOK, TypeData, Shape, ShapeNoOp, ShapeEvaluate, ShapeSave,
         ShapeLoad, FailureIsTerminal, Phases, Locations, InLoop
<1>2. QED
  BY <1>1, Inductive, PTL

\* A stop request lets at most the update under way complete.
THEOREM StopsAtBoundary == Spec => []StopAtBoundary
<1>1. IInv => StopAtBoundary
  BY DEF IInv, StopInv, StopAtBoundary
<1>2. QED
  BY <1>1, Inductive, PTL

\* The budget is never overrun, in this process or over several resumed ones.
THEOREM StaysInBudget == Spec => []StepBudget
<1>1. IInv => StepBudget
  BY ConfigAssumption DEF IInv, BudgetInv, StepBudget, ConfigAssumption
<1>2. QED
  BY <1>1, Inductive, PTL

\* A run that ends without failure has a durable checkpoint of its last update.
THEOREM FinalUpdateSaved == Spec => []CompletedRunIsSaved
<1>1. IInv /\ SavedInv => CompletedRunIsSaved
  BY DEF IInv, TypeOK, TypeData, Locations, Shape, ShapeNoOp, ShapeEvaluate,
         ShapeSave, ShapeLoad, InLoop, SavedInv, SavedFinal, SavesHere, Saved,
         CompletedRunIsSaved
<1>2. QED
  BY <1>1, Inductive, PTL

\* A periodic save that fell due is durable when the loop goes on.
THEOREM DueUpdateSaved == Spec => []PeriodicSaveDone
<1>1. IInv /\ SavedInv => PeriodicSaveDone
  BY DEF IInv, TypeOK, TypeData, SavedInv, SavedPeriodic, Saved,
         PeriodicSaveDone, At
<1>2. QED
  BY <1>1, Inductive, PTL

\* A trainer that has failed publishes nothing.
LEMMA FailedSavesNothing ==
  IInv /\ [Next]_vars => (disk' # disk => failure = "none")
<1> SUFFICES ASSUME IInv, [Next]_vars PROVE (disk' # disk => failure = "none")
  OBVIOUS
<1> USE DEF IInv, Shape, ShapeSave, op
<1>1. CASE TrainBegin
  BY <1>1 DEF TrainBegin, At, Raise, MarkFailed
<1>2. CASE LoopEnter
  BY <1>2 DEF LoopEnter, At
<1>3. CASE LoopExit
  BY <1>3 DEF LoopExit, At
<1>4. CASE TrainStep
  BY <1>4 DEF TrainStep, At, Raise, MarkFailed
<1>5. CASE Scheduled
  BY <1>5 DEF Scheduled, At, AfterEval, Begin, Raise, MarkFailed
<1>6. CASE ScheduledSave
  BY <1>6 DEF ScheduledSave, At, Begin, Raise, MarkFailed
<1>7. CASE NothingToSave
  BY <1>7 DEF NothingToSave, At
<1>8. CASE EvaluateBody
  BY <1>8 DEF EvaluateBody, EndOp, Restore, AfterRaise, MarkFailed
<1>9. CASE SaveBody
  BY <1>9 DEF SaveBody, MarkFailed
<1>10. CASE LoadBody
  BY <1>10 DEF LoadBody, MarkFailed
<1>11. CASE AfterCheckpoint
  BY <1>11 DEF AfterCheckpoint, EndOp, Restore, AfterRaise, MarkFailed
<1>12. CASE Finish
  BY <1>12 DEF Finish, At, Begin, FinalSaveDue
<1>13. CASE Stopping
  BY <1>13 DEF Stopping, At
<1>14. CASE RuntimeTrainEnd
  BY <1>14 DEF RuntimeTrainEnd, At, MarkFailed
<1>15. CASE RuntimeFinalize
  BY <1>15 DEF RuntimeFinalize, At, Terminal
<1>16. CASE FinalizeReturn
  BY <1>16 DEF FinalizeReturn, At, Terminal
<1>17. CASE PrepareCall
  BY <1>17 DEF PrepareCall, Idle, MarkFailed
<1>18. CASE TrainCall
  BY <1>18 DEF TrainCall, Idle
<1>19. CASE EvaluateCall
  BY <1>19 DEF EvaluateCall, Idle, Begin
<1>20. CASE SaveCall
  BY <1>20 DEF SaveCall, Idle, Begin
<1>21. CASE LoadCall
  BY <1>21 DEF LoadCall, Idle, Begin
<1>22. CASE FinalizeCall
  BY <1>22 DEF FinalizeCall, Idle
<1>23. CASE RequestStop
  BY <1>23 DEF RequestStop
<1>24. CASE NewProcess
  BY <1>24 DEF NewProcess, EndOp
<1>25. CASE UNCHANGED vars
  BY <1>25 DEF vars
<1>26. QED
  BY <1>1, <1>2, <1>3, <1>4, <1>5, <1>6, <1>7, <1>8, <1>9, <1>10, <1>11,
     <1>12, <1>13, <1>14, <1>15, <1>16, <1>17, <1>18, <1>19, <1>20, <1>21,
     <1>22, <1>23, <1>24, <1>25
  DEF Next, Running, UserCall, FinalizeRefused

\* No step publishes a checkpoint once a failure is recorded.
THEOREM NothingSavedAfterFailure == Spec => NoSaveAfterFailure
<1>1. IInv /\ [Next]_vars => [disk' # disk => failure = "none"]_vars
  BY FailedSavesNothing
<1>2. QED
  BY <1>1, Inductive, PTL DEF Spec, NoSaveAfterFailure

\* The step in which train() returns or raises.
Leaves ==
  (pc \notin {"idle", "finalizing"} /\ pc' = "idle" /\ restarts' = restarts) =>
    /\ ends' = 1 /\ finals' >= 1 /\ runtime' = "released"
    /\ "is_training" \notin flags' /\ phase' = "finalized"

\* A step out of train() leaves it as promised.
LEMMA LeavesClean == IInv /\ LeaveInv /\ [Next]_vars => Leaves
<1> SUFFICES ASSUME IInv, LeaveInv, [Next]_vars PROVE Leaves
  OBVIOUS
<1> USE DEF IInv, TypeOK, TypeData, Shape, ShapeNoOp, ShapeEvaluate,
            ShapeSave, ShapeLoad, InLoop, LeaveInv, Leaves, op
<1>1. CASE TrainBegin
  BY <1>1 DEF TrainBegin, At, Raise, MarkFailed
<1>2. CASE LoopEnter
  BY <1>2 DEF LoopEnter, At
<1>3. CASE LoopExit
  BY <1>3 DEF LoopExit, At
<1>4. CASE TrainStep
  BY <1>4 DEF TrainStep, At, Raise, MarkFailed
<1>5. CASE Scheduled
  BY <1>5 DEF Scheduled, At, AfterEval, Begin, Raise, MarkFailed
<1>6. CASE ScheduledSave
  BY <1>6 DEF ScheduledSave, At, Begin, Raise, MarkFailed
<1>7. CASE NothingToSave
  BY <1>7 DEF NothingToSave, At
<1>8. CASE EvaluateBody
  BY <1>8 DEF EvaluateBody, EndOp, Restore, AfterRaise, MarkFailed
<1>9. CASE SaveBody
  BY <1>9 DEF SaveBody, MarkFailed
<1>10. CASE LoadBody
  BY <1>10 DEF LoadBody, MarkFailed
<1>11. CASE AfterCheckpoint
  BY <1>11 DEF AfterCheckpoint, EndOp, Restore, AfterRaise, MarkFailed
<1>12. CASE Finish
  BY <1>12 DEF Finish, At, Begin, FinalSaveDue
<1>13. CASE Stopping
  BY <1>13 DEF Stopping, At
<1>14. CASE RuntimeTrainEnd
  BY <1>14 DEF RuntimeTrainEnd, At, MarkFailed, Count
<1>15. CASE RuntimeFinalize
  BY <1>15 DEF RuntimeFinalize, At, Terminal, Count
<1>16. CASE FinalizeReturn
  BY <1>16 DEF FinalizeReturn, At
<1>17. CASE PrepareCall
  BY <1>17 DEF PrepareCall, Idle, MarkFailed
<1>18. CASE TrainCall
  BY <1>18 DEF TrainCall, Idle
<1>19. CASE EvaluateCall
  BY <1>19 DEF EvaluateCall, Idle, Begin
<1>20. CASE SaveCall
  BY <1>20 DEF SaveCall, Idle, Begin
<1>21. CASE LoadCall
  BY <1>21 DEF LoadCall, Idle, Begin
<1>22. CASE FinalizeCall
  BY <1>22 DEF FinalizeCall, Idle
<1>23. CASE RequestStop
  BY <1>23 DEF RequestStop
<1>24. CASE NewProcess
  BY <1>24 DEF NewProcess, EndOp
<1>25. CASE UNCHANGED vars
  BY <1>25 DEF vars
<1>26. QED
  BY <1>1, <1>2, <1>3, <1>4, <1>5, <1>6, <1>7, <1>8, <1>9, <1>10, <1>11,
     <1>12, <1>13, <1>14, <1>15, <1>16, <1>17, <1>18, <1>19, <1>20, <1>21,
     <1>22, <1>23, <1>24, <1>25
  DEF Next, Running, UserCall, FinalizeRefused

\* Whichever way train() is left, the backend is ended once and released.
THEOREM TrainEndsClean == Spec => TrainLeavesCleanly
<1>1. IInv /\ LeaveInv /\ [Next]_vars => [Leaves]_vars
  BY LeavesClean
<1>2. QED
  BY <1>1, Inductive, PTL DEF Spec, TrainLeavesCleanly, Leaves

\* A move of the phase that the table of TrainerState.transition has, unless it
\* is a new process that starts anew.
Legal == restarts' = restarts => phase' \in Allowed[phase]

\* mark_failed is legal from every phase but those it leaves alone.
LEMMA MarkFailedLegal ==
  ASSUME TypeOK, MarkFailed PROVE Legal \/ phase' = phase
BY DEF TypeOK, TypeData, Phases, MarkFailed, Legal, Allowed

\* A step keeps the phase or makes a move that the table has.
LEMMA LegalStep == IInv /\ [Next]_vars => Legal \/ phase' = phase
<1> SUFFICES ASSUME IInv, [Next]_vars PROVE Legal \/ phase' = phase
  OBVIOUS
<1>1. TypeOK /\ phase \in Phases
  BY DEF IInv, TypeOK, TypeData
<1> USE DEF IInv, Shape, ShapeNoOp, ShapeEvaluate, ShapeSave, ShapeLoad, InLoop
<1>2. CASE TrainBegin \/ TrainStep \/ SaveBody \/ LoadBody \/ RuntimeTrainEnd
           \/ PrepareCall
  <2>1. phase' = phase \/ MarkFailed \/ (phase = "created" /\ phase' = "prepared")
    BY <1>2 DEF TrainBegin, TrainStep, Raise, SaveBody, LoadBody,
                RuntimeTrainEnd, PrepareCall
  <2>2. QED
    BY <1>1, <2>1, MarkFailedLegal DEF Legal, Allowed
<1>3. CASE Scheduled \/ ScheduledSave
  <2>1. \/ phase' = phase \/ MarkFailed
        \/ phase = "training" /\ phase' \in {"evaluating", "saving"}
    BY <1>3 DEF Scheduled, ScheduledSave, Raise, At
  <2>2. QED
    BY <1>1, <2>1, MarkFailedLegal DEF Legal, Allowed
<1>4. CASE EvaluateBody \/ AfterCheckpoint
  <2>1. \/ phase' = phase \/ MarkFailed
        \/ phase = "evaluating"
             /\ phase' \in {"created", "prepared", "finalized", "training"}
        \/ phase = "saving" /\ phase' \in {"created", "prepared", "training"}
        \/ phase = "resuming" /\ phase' = "prepared"
    BY <1>4 DEF EvaluateBody, AfterCheckpoint, Restore
  <2>2. QED
    BY <1>1, <2>1, MarkFailedLegal DEF Legal, Allowed
<1>5. CASE Finish \/ Stopping
  <2>1. \/ phase' = phase
        \/ phase = "training" /\ phase' \in {"saving", "stopping", "failed"}
        \/ phase = "failed" /\ phase' = "stopping"
    BY <1>5 DEF Finish, Stopping, FinalSaveDue, At
  <2>2. QED
    BY <2>1 DEF Legal, Allowed
<1>6. CASE RuntimeFinalize \/ FinalizeReturn \/ FinalizeCall
  BY <1>6 DEF RuntimeFinalize, FinalizeReturn, FinalizeCall, Terminal, Legal,
              Allowed
<1>7. CASE TrainCall \/ EvaluateCall \/ SaveCall \/ LoadCall
  BY <1>7 DEF TrainCall, EvaluateCall, SaveCall, LoadCall, Idle, Legal, Allowed
<1>8. CASE LoopEnter \/ LoopExit \/ NothingToSave \/ RequestStop
           \/ UNCHANGED vars
  BY <1>8 DEF LoopEnter, LoopExit, NothingToSave, RequestStop, vars
<1>9. CASE NewProcess
  BY <1>1, <1>9 DEF NewProcess, Legal, TypeOK, TypeData
<1>10. QED
  BY <1>2, <1>3, <1>4, <1>5, <1>6, <1>7, <1>8, <1>9
  DEF Next, Running, UserCall, FinalizeRefused

\* Wherever hooks, callbacks, savers and the backend fail and whenever a stop is
\* requested, a trainer moves only as the table of TrainerState.transition has
\* it: the `finally` clauses ask for nothing that it refuses
\* (Trainer.evaluate, save_checkpoint, load_checkpoint, _finish_training).
THEOREM PhasesMoveLegally == Spec => LegalTransitions
<1>1. IInv /\ [Next]_vars => [Legal]_phase
  BY LegalStep
<1>2. QED
  BY <1>1, Inductive, PTL DEF Spec, LegalTransitions, Legal

=============================================================================
