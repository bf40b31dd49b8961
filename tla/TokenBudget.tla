----------------------------- MODULE TokenBudget ----------------------------
(***************************************************************************)
(* The training loop of every rank of a distributed trainer as the         *)
(* collectives see it (training/trainer.py): the reductions that restore   *)
(* the token budget, count the tokens of a micro-batch, sum the statistics *)
(* of an update, average gradients, place a token schedule and log.  A     *)
(* rank runs on its own until it needs a reduction; a reduction happens    *)
(* when every rank waits for it.                                           *)
(*                                                                         *)
(* A configuration is [max_steps, max_tokens (0 for none), accumulation,   *)
(* means (gradients are averaged before clipping), guarded (the runtime    *)
(* has a static-shape guard), exact (the task counts tokens), token_lr     *)
(* (the schedule is indexed by tokens), log (interval, 0 for none), seen   *)
(* (tokens of each rank in the checkpoint it starts from), stop_at (the    *)
(* step after which the callbacks of a rank ask that rank to stop)].       *)
(***************************************************************************)
EXTENDS Naturals, FiniteSets, Functions

CONSTANTS Ranks, Configurations, Counts

VARIABLES
  config,
  rank     \* Ranks -> [pc, count, micro, total, seen, global, stop, step,
           \*           place, last]

budgetVars == <<config, rank>>

\* What TrainingArguments, RuntimeConfig and a checkpoint can hold.
ConfigurationType ==
  [max_steps : Nat, max_tokens : Nat, accumulation : Nat \ {0},
   means : BOOLEAN, guarded : BOOLEAN, exact : BOOLEAN, token_lr : BOOLEAN,
   log : Nat, seen : [Ranks -> Nat], stop_at : [Ranks -> Nat]]

ASSUME LoopAssumption ==
  /\ IsFiniteSet(Ranks)
  /\ Configurations \subseteq ConfigurationType
  /\ Counts \subseteq Nat

----------------------------------------------------------------------------
World == Cardinality(Ranks)
Budget == config.max_tokens > 0

\* Where a rank waits for the others.
Collectives == {"restore", "tokens", "stats", "gradients", "average",
                "schedule", "log"}
Waits(r) == rank[r].pc \in Collectives
Finished(r) == rank[r].pc \in {"done", "failed", "raised"}

\* What a sum-reduction of one field of every rank gives.
SumOf(field) == SumFunction([r \in Ranks |-> rank[r][field]])

(* A rank before its training.                                             *)
Started(c, r) ==
  [pc |-> "begin", count |-> 0, micro |-> 0, total |-> 0, seen |-> c.seen[r],
   global |-> 0, stop |-> FALSE, step |-> 0, place |-> 0, last |-> 0]

Init ==
  /\ config \in Configurations
  /\ rank = [r \in Ranks |-> Started(config, r)]

Become(r, new) == rank' = [rank EXCEPT ![r] = new] /\ UNCHANGED config
Goto(r, to) == Become(r, [rank[r] EXCEPT !.pc = to])

(* _initialize_global_token_budget                                         *)
BeginTraining(r) ==
  /\ rank[r].pc = "begin"
  /\ Goto(r, IF Budget THEN "restore" ELSE "loop")

(* _should_stop: the step and the global counter are the same on all       *)
(* ranks, the flags that a callback raises are this rank's own.            *)
Spent(me) ==
  \/ me.step >= config.max_steps
  \/ Budget /\ me.global >= config.max_tokens
ShouldStop(r) == rank[r].step >= config.stop_at[r] \/ Spent(rank[r])

(* An update starts with nothing accumulated.                              *)
Loop(r) ==
  /\ rank[r].pc = "loop"
  /\ IF ShouldStop(r) THEN Goto(r, "done")
     ELSE Become(r, [rank[r] EXCEPT !.pc = "forward", !.micro = 0,
                                    !.total = 0, !.stop = FALSE])

(* A micro-batch: the task's forward pass and token count.  A task that    *)
(* counts tokens raises on a batch without any, on its rank alone and      *)
(* before any reduction.                                                   *)
BatchRaises(r) ==
  /\ rank[r].pc = "forward"
  /\ config.exact /\ 0 \in Counts
  /\ Goto(r, "raised")

Forward(r) ==
  /\ rank[r].pc = "forward"
  /\ \E n \in Counts :
       /\ config.exact => n > 0
       /\ Become(r, [rank[r] EXCEPT
         !.pc = IF Budget THEN "tokens" ELSE "backward",
         !.count = IF config.exact THEN n ELSE 0,
         !.micro = @ + 1])

(* Backward of the weighted loss; a task that counts no tokens is accepted *)
(* for a single micro-batch only.  A runtime that averages gradients       *)
(* before clipping does so in the backward pass.                           *)
Backward(r) ==
  /\ rank[r].pc = "backward"
  /\ IF ~config.exact /\ config.accumulation # 1 THEN Goto(r, "failed")
     ELSE Become(r, [rank[r] EXCEPT
            !.pc = IF config.means THEN "average" ELSE "next",
            !.total = @ + rank[r].count])

(* The loop over micro-batches ends early when the budget is met.  The     *)
(* statistics are reduced where gradients were averaged; then the shape    *)
(* guard compares the micro-batches with the accumulation configured.      *)
Guard(me) ==
  IF config.guarded /\ me.micro # config.accumulation THEN "failed"
  ELSE IF config.means THEN "commit" ELSE "gradients"

NextMicrobatch(r) ==
  LET me == rank[r]
  IN /\ me.pc = "next"
     /\ Goto(r, IF ~me.stop /\ config.exact /\ me.micro < config.accumulation
                THEN "forward"
                ELSE IF config.exact /\ config.means THEN "stats"
                ELSE Guard(me))

(* _update_accumulated_state, and _advance_scheduler where it needs no     *)
(* reduction.                                                              *)
Commit(r) ==
  LET me == rank[r]
      seen == me.seen + me.total
  IN /\ me.pc = "commit"
     /\ Become(r, [me EXCEPT
          !.pc = IF config.token_lr /\ ~Budget /\ config.means
                 THEN "schedule" ELSE "report",
          !.step = @ + 1,
          !.seen = seen,
          !.place = IF ~config.token_lr THEN me.step + 1
                    ELSE IF Budget THEN me.global ELSE seen * World])

(* _emit_step_metrics                                                      *)
Report(r) ==
  /\ rank[r].pc = "report"
  /\ Goto(r, IF config.log > 0 /\ rank[r].step % config.log = 0
             THEN "log" ELSE "loop")

(* Mutant of Restored: each rank goes on from its own tokens.              *)
Restored_Own(me) == me.seen

(* What the budget counter starts from.                                    *)
Restored(me) == SumOf("seen")

(* Mutant of Met: each rank looks at the tokens it has seen itself.        *)
Met_Own(me, n) == me.seen + me.total + me.count >= config.max_tokens

(* Whether a micro-batch of n tokens over all ranks ends the run.          *)
Met(me, n) == me.global + n >= config.max_tokens

(* What a reduction gives a rank.                                          *)
Reduced(kind, me) ==
  CASE kind = "restore" ->
         [me EXCEPT !.pc = "loop", !.global = Restored(me)]
    [] kind = "tokens" ->
         LET n == SumOf("count")
         IN IF ~config.exact \/ n = 0 THEN [me EXCEPT !.pc = "failed"]
            ELSE [me EXCEPT !.pc = "backward", !.global = @ + n, !.last = n,
                            !.stop = Met(me, n)]
    [] kind = "average"   -> [me EXCEPT !.pc = "next"]
    [] kind = "stats"     -> [me EXCEPT !.pc = Guard(me)]
    [] kind = "gradients" -> [me EXCEPT !.pc = "commit"]
    [] kind = "schedule"  ->
         [me EXCEPT !.pc = "report", !.place = SumOf("seen")]
    [] kind = "log"       -> [me EXCEPT !.pc = "loop"]

(* A reduction happens when every rank waits for the same one.             *)
Reduce ==
  \E kind \in Collectives :
    /\ \A r \in Ranks : rank[r].pc = kind
    /\ rank' = [r \in Ranks |-> Reduced(kind, rank[r])]
    /\ UNCHANGED config

Step(r) ==
  \/ BeginTraining(r) \/ Loop(r) \/ BatchRaises(r) \/ Forward(r)
  \/ Backward(r) \/ NextMicrobatch(r) \/ Commit(r) \/ Report(r)

Next == Reduce \/ \E r \in Ranks : Step(r)

Spec == Init /\ [][Next]_budgetVars

----------------------------------------------------------------------------
(* A rank has left the others behind: its own batch raised, or it alone    *)
(* was asked to stop, while the training of another goes on.               *)
Parted(r) ==
  \/ rank[r].pc = "raised"
  \/ /\ rank[r].pc = "done" /\ ~Spent(rank[r])
     /\ \E q \in Ranks : config.stop_at[q] > rank[r].step

(* Ranks that wait do so for the same reduction of the same micro-batch,   *)
(* and nobody makes an update without a rank that has left.  A rank can    *)
(* wait for one that will not come only if that one's batch raised or it   *)
(* was asked to stop by itself; the others leave after the same update,    *)
(* in the same way and with the same count of tokens, whatever each of     *)
(* them counted.                                                           *)
RanksStayTogether ==
  \A r, q \in Ranks :
    /\ Waits(r) /\ Waits(q) =>
         /\ rank[r].pc = rank[q].pc
         /\ rank[r].step = rank[q].step /\ rank[r].micro = rank[q].micro
    /\ Finished(r) => rank[q].step <= rank[r].step
    /\ Finished(r) /\ Waits(q) => Parted(r)
    /\ Finished(r) /\ Finished(q) /\ ~Parted(r) /\ ~Parted(q) =>
         /\ rank[r].pc = rank[q].pc
         /\ rank[r].step = rank[q].step /\ rank[r].global = rank[q].global

(* Between updates the global counter is the sum of what the ranks have    *)
(* seen, also after a resume; a run ends within one micro-batch of its     *)
(* budget; and the ranks place a token schedule alike (a runtime without   *)
(* gradient averaging and without a budget only estimates the place).      *)
BudgetIsGlobal ==
  (\A r \in Ranks : rank[r].pc \in {"loop", "done"}) =>
    \A r \in Ranks :
      /\ Budget => rank[r].global = SumOf("seen")
      /\ Budget /\ rank[r].last > 0 =>
           rank[r].global - rank[r].last < config.max_tokens
      /\ Budget \/ config.means \/ ~config.token_lr =>
           \A q \in Ranks : rank[r].place = rank[q].place

(* A budget that is met in the middle of an update ends the run with that  *)
(* update (docs/training/ACCUMULATION.md: "the final microbatch may cross  *)
(* the requested threshold").                                              *)
CrossingCompletes ==
  \A r \in Ranks : rank[r].stop => rank[r].pc # "failed"
=============================================================================
