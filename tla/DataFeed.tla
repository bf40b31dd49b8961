------------------------------ MODULE DataFeed ------------------------------
(***************************************************************************)
(* Where a training run stands in its data, over restarts: the packed      *)
(* dataset and its cursor (data/public.py, data/cursor.py), the loader,    *)
(* the trainer's iterator (training/trainer.py) and what a checkpoint      *)
(* keeps of them (api.py, scripts/trainlm_tpu_training.py).                *)
(*                                                                         *)
(* One rank of a fixed world is followed.  Loaders:                        *)
(*   cursor    PackedBinDataset, no loader workers; saved as a cursor      *)
(*   striped   PackedBinDataset with loader workers; replayed              *)
(*   shuffled  a map-style dataset and TrainLM's generator; replayed       *)
(*   worker    the stream of a TPU worker; replayed, never rewound         *)
(* A batch is the sequence of samples in it.  Read-ahead behind the        *)
(* iterator is Prefetcher's matter: positions here are the consumer's.     *)
(***************************************************************************)
EXTENDS PackedSchedule

CONSTANTS
  Datasets,       \* names of the packed datasets that may be opened
  Tokens,         \* per dataset: the token count of each shard
  ShardOrder,     \* per dataset: the shards in the order of the seed's digest
  BatchTokens,    \* tokens of one reader batch
  World,          \* data-parallel ranks
  Rank,           \* the one that is followed
  BatchSize,      \* samples per loader batch
  LoaderWorkers,  \* dataloader_num_workers of the striped loader
  Accumulation,   \* gradient_accumulation_steps
  Budgets,        \* values of max_steps
  Loaders,        \* the loaders that are looked at
  Swappable,      \* loaders whose dataset may differ from one run to the next
  MaxTrainers     \* bound of the model: how many trainers are constructed

none == -1

ASSUME FeedAssumption ==
  /\ BatchTokens \in Nat \ {0} /\ World \in Nat \ {0}
  /\ Rank \in 0..(World - 1)
  /\ BatchSize \in Nat \ {0} /\ LoaderWorkers \in Nat \ {0}
  /\ Accumulation \in Nat \ {0} /\ Budgets \subseteq Nat \ {0}
  /\ Swappable \subseteq Loaders
  /\ Loaders \subseteq {"cursor", "striped", "shuffled", "worker"}
  /\ MaxTrainers \in Nat

VARIABLES
  loader,    \* the loader of this behaviour
  pc,        \* "off", "idle" (no trainer), "replay", "run" or "refused"
  data,      \* the dataset this process opened
  plan,      \* what the passes over it yield, fixed when it is opened
  cursor,    \* position of PackedBinDataset._cursor, or none
  budget,    \* max_steps
  draw,      \* iterators made since the generator was last seeded or set
  taken,     \* batches taken from the trainer's iterator, none without one
  replaying, \* batches still to be skipped
  micro,     \* TrainerState.micro_step
  store,     \* the checkpoints
  trainers,  \* how many trainers were constructed
  seen,      \* history: the batches this run was trained on
  used,      \* history: the datasets they came from
  origin     \* history: batches of the first pass consumed before this run

position == <<cursor, draw, taken, replaying>>
history == <<seen, used, origin>>
vars == <<loader, pc, data, plan, position, budget, micro, store, trainers,
          history>>

Order(d) ==
  GlobalOrder(ShardBatches(Tokens[d], BatchTokens), ShardOrder[d])
Ranks == 0..(World - 1)

\* The shards are ordered by sorting their indices; a partition that leaves no
\* batch for a rank is refused (plan_packed_batch_partition).
ASSUME DataAssumption ==
  \A d \in Datasets :
    LET shards == 1..Len(Tokens[d])
    IN /\ Tokens[d] \in Seq(Nat)
       /\ ShardOrder[d] \in [shards -> shards]
       /\ \A s, t \in shards : s # t => ShardOrder[d][s] # ShardOrder[d][t]
       /\ Retained(Order(d), World) > 0

\* The share of every rank, worked out once.
Shares == [d \in Datasets |-> [r \in Ranks |-> RankBatches(Order(d), World, r)]]
Slice == Shares[data][Rank]
Min2(a, b) == IF a < b THEN a ELSE b

-----------------------------------------------------------------------------
\* What one iterator of a loader yields.

Chunks_DropLast(samples, size) ==
  [k \in 1..(Len(samples) \div size) |->
     SubSeq(samples, (k - 1) * size + 1, k * size)]

\* Batches of `size`, the last one smaller if need be (drop_last is off).
Chunks(samples, size) ==
  [k \in 1..((Len(samples) + size - 1) \div size) |->
     SubSeq(samples, (k - 1) * size + 1, Min2(k * size, Len(samples)))]

\* range(worker.id, len, num_workers)
Stripe(samples, id) ==
  [j \in 1..((Len(samples) - id + LoaderWorkers - 1) \div LoaderWorkers) |->
     samples[id + 1 + (j - 1) * LoaderWorkers]]

\* The loader asks its workers in turn; one that has ended is passed over.
\* Worker 0 has as many batches as any other.
Interleaved(samples) ==
  LET of == [id \in 0..(LoaderWorkers - 1) |->
               Chunks(Stripe(samples, id), BatchSize)]
      asked(turn, id) == IF turn <= Len(of[id]) THEN <<of[id][turn]>> ELSE <<>>
  IN FlattenSeq([turn \in 1..Len(of[0]) |->
       FlattenSeq([w \in 1..LoaderWorkers |-> asked(turn, w - 1)])])

\* A sampler's permutation depends on how often its generator was used.
Shuffled(samples, times) ==
  [i \in 1..Len(samples) |-> samples[1 + ((i + times) % Len(samples))]]

PassOf(kind, samples, times) ==
  CASE kind = "cursor"   -> Chunks(samples, BatchSize)
    [] kind = "striped"  -> Interleaved(samples)
    [] kind = "shuffled" -> Chunks(Shuffled(samples, times), BatchSize)
    [] kind = "worker"   -> Chunks(samples, 1)

\* The passes of a loader, which repeat after as many as there are samples.
Passes(d) ==
  [times \in 0..(Len(Shares[d][Rank]) - 1) |->
     PassOf(loader, Shares[d][Rank], times)]
Pass(times) == plan[times % Len(Slice)]

-----------------------------------------------------------------------------
\* PackedBinDataset.__iter__: an iterator that starts goes on from the
\* cursor, or from the beginning when there is none or it is at its end.
From(t) ==
  IF t = 0 /\ (cursor = none \/ cursor >= Len(Slice)) THEN 0 ELSE cursor

\* Where the cursor stands after a batch: one step per sample of it.
Advanced(t) ==
  IF loader = "cursor" THEN Min2(From(t) + BatchSize, Len(Slice)) ELSE cursor

\* Has an iterator that yielded t batches another one, and which?
More(t) ==
  IF loader = "cursor" THEN From(t) < Len(Slice) ELSE t < Len(Pass(draw))

Batch(times, t) ==
  IF loader = "cursor" THEN SubSeq(Slice, From(t) + 1, Advanced(t))
                       ELSE Pass(times)[t + 1]

EnoughBatches_PerStep(steps) == loader = "worker" => Len(Slice) >= steps

\* len(partitioned) < max_steps * gradient_accumulation_steps is refused.
EnoughBatches(steps) ==
  loader = "worker" => Len(Slice) >= steps * Accumulation

\* state_dict() of the dataset; only asked for without loader workers.
SavedCursor ==
  IF loader # "cursor" THEN none ELSE IF cursor = none THEN 0 ELSE cursor

-----------------------------------------------------------------------------
Init ==
  /\ loader \in Loaders
  /\ data \in Datasets /\ plan = Passes(data) /\ budget \in Budgets
  /\ pc = "off" /\ store = {} /\ trainers = 0 /\ micro = 0
  /\ cursor = none /\ draw = 0 /\ taken = none /\ replaying = 0
  /\ seen = <<>> /\ used = {} /\ origin = 0

\* A process opens its dataset.
Open ==
  /\ pc = "off" /\ trainers < MaxTrainers
  /\ data' \in IF loader \in Swappable THEN Datasets ELSE {data}
  /\ plan' = Passes(data')
  /\ pc' = "idle" /\ cursor' = none
  /\ UNCHANGED <<loader, draw, taken, replaying, budget, micro, store,
                 trainers, history>>

Construct(steps) ==
  /\ pc = "idle" /\ trainers < MaxTrainers
  /\ budget' = steps /\ trainers' = trainers + 1
  /\ UNCHANGED <<loader, data, plan, store>>

\* train(): the iterator is made when the first batch is asked for.
TrainFresh ==
  \E steps \in Budgets :
    /\ Construct(steps) /\ EnoughBatches(steps)
    /\ pc' = "run" /\ micro' = 0
    /\ draw' = 0 /\ taken' = none /\ replaying' = 0
    /\ seen' = <<>> /\ used' = {}
    /\ origin' = IF cursor \in 0..(Len(Slice) - 1)
                 THEN cursor \div BatchSize ELSE 0
    /\ UNCHANGED cursor

SameData_Unchecked(ckpt) == TRUE

\* Is the saved cursor one of this dataset?  A replayed position has no name.
SameData(ckpt) == ckpt.cursor = none \/ ckpt.data = data

Refuse ==
  \E steps \in Budgets :
    /\ Construct(steps)
    /\ \/ ~EnoughBatches(steps)
       \/ \E ckpt \in store : ~SameData(ckpt)
    /\ pc' = "refused"
    /\ UNCHANGED <<position, micro, history>>

\* load_checkpoint(): progress is restored, the generator set back and an
\* iterator made; without a saved cursor its position is replayed.
Resume ==
  \E steps \in Budgets, ckpt \in store :
    /\ Construct(steps) /\ EnoughBatches(steps) /\ SameData(ckpt)
    /\ micro' = ckpt.micro
    /\ draw' = 1 /\ taken' = 0
    /\ IF ckpt.cursor = none
       THEN pc' = "replay" /\ replaying' = ckpt.micro /\ UNCHANGED cursor
       ELSE pc' = "run" /\ replaying' = 0 /\ cursor' = ckpt.cursor
    /\ seen' = ckpt.seen /\ used' = ckpt.used /\ origin' = ckpt.origin

\* One batch is skipped, or the loader is iterated once more.
Skip ==
  /\ pc = "replay" /\ More(taken)
  /\ taken' = taken + 1 /\ replaying' = replaying - 1
  /\ pc' = IF replaying = 1 THEN "run" ELSE "replay"
  /\ UNCHANGED <<loader, data, plan, cursor, draw, budget, micro, store,
                 trainers, history>>

\* The StopIteration counts as a batch.
Rewind_Counted ==
  /\ pc = "replay" /\ ~More(taken)
  /\ draw' = draw + 1 /\ taken' = 0
  /\ replaying' = replaying - 1
  /\ pc' = IF replaying = 1 THEN "run" ELSE "replay"
  /\ UNCHANGED <<loader, data, plan, cursor, budget, micro, store, trainers,
                 history>>

Rewind ==
  /\ pc = "replay" /\ ~More(taken)
  /\ IF loader = "worker"
     THEN pc' = "refused" /\ UNCHANGED <<draw, taken, replaying>>
     ELSE /\ draw' = draw + 1 /\ taken' = 0
          /\ UNCHANGED <<pc, replaying>>
  /\ UNCHANGED <<loader, data, plan, cursor, budget, micro, store, trainers,
                 history>>

\* _next_batch() and the update of micro_step.
MicroStep ==
  LET anew    == taken = none \/ ~More(taken)
      times   == IF anew THEN draw + 1 ELSE draw
      t       == IF anew THEN 0 ELSE taken
  IN /\ pc = "run" /\ micro < budget * Accumulation
     /\ seen' = Append(seen, Batch(times, t))
     /\ used' = used \union {data}
     /\ cursor' = Advanced(t)
     /\ draw' = times /\ taken' = t + 1
     /\ micro' = micro + 1
     /\ UNCHANGED <<loader, pc, data, plan, replaying, budget, store,
                    trainers, origin>>

Checkpoint ==
  [micro |-> micro, cursor |-> SavedCursor, data |-> data,
   seen |-> seen, used |-> used, origin |-> origin]

\* A checkpoint after a completed update replaces the one of the same step.
Save ==
  /\ pc = "run" /\ micro > 0 /\ micro % Accumulation = 0
  /\ store' = {c \in store : c.micro # micro} \union {Checkpoint}
  /\ UNCHANGED <<loader, pc, data, plan, position, budget, micro, trainers,
                 history>>

\* The caller builds another trainer on the dataset object it has.
Again ==
  /\ pc \in {"run", "refused"} /\ loader # "worker"
  /\ pc' = "idle"
  /\ UNCHANGED <<loader, data, plan, position, budget, micro, store,
                 trainers, history>>

Exit ==
  /\ pc # "off" /\ pc' = "off"
  /\ UNCHANGED <<loader, data, plan, position, budget, micro, store,
                 trainers, history>>

Next ==
  \/ Open \/ TrainFresh \/ Resume \/ Refuse \/ Skip \/ Rewind
  \/ MicroStep \/ Save \/ Again \/ Exit

\* A replay runs on; nobody has to train, save or restart.
Spec == Init /\ [][Next]_vars /\ WF_vars(Skip \/ Rewind)

-----------------------------------------------------------------------------
\* Type invariant: the shape of data.BatchPartitionPlan, the cursor and the
\* saved trainer progress.
TypeOK ==
  /\ loader \in Loaders
  /\ pc \in {"off", "idle", "replay", "run", "refused"}
  /\ data \in Datasets /\ budget \in Budgets
  /\ cursor \in {none} \union 0..Len(Slice)
  /\ draw \in Nat /\ taken \in Nat \union {none}
  /\ replaying \in Nat /\ micro \in Nat
  /\ trainers \in 0..MaxTrainers /\ used \subseteq Datasets
  /\ origin \in Nat
  /\ \A c \in store : c.micro % Accumulation = 0 /\ c.data \in Datasets

\* The i-th batch of a run that was never interrupted.
Uninterrupted(i) ==
  LET n == Len(Pass(1))
  IN Pass(1 + (i - 1) \div n)[1 + ((i - 1) % n)]

\* However often a run is killed and resumed, from whichever checkpoint, it is
\* trained on the batches of the uninterrupted run: none twice, none skipped
\* (cursor.py, _load_training_checkpoint, the replay of the TPU worker).
ExactResume ==
  pc = "run" =>
    /\ Len(seen) = micro
    /\ \A k \in 1..micro : seen[k] = Uninterrupted(origin + k)

\* Every pass over the data trains on each sample of the rank once, over
\* partial batches, loader workers, shuffling and restarts within the pass.
EachPassOnce ==
  LET n == Len(Pass(1))
      wholePasses == {k \in 0..(Len(seen) - n) : (origin + k) % n = 0}
      samples(k) == {p \in ((k + 1)..(k + n)) \X (1..Len(Slice)) :
                       p[2] <= Len(seen[p[1]])}
  IN pc = "run" => \A k \in wholePasses :
       /\ Cardinality(samples(k)) = Len(Slice)
       /\ {seen[p[1]][p[2]] : p \in samples(k)} =
            {Slice[i] : i \in 1..Len(Slice)}

\* The ranks own disjoint shares of one size; with what is dropped they make
\* up all batches; and every batch is found inside one shard, where the
\* global order put it (plan_packed_batch_partition, locate).
Partitioned(d) ==
  LET counts == ShardBatches(Tokens[d], BatchTokens)
      items(s) == {s[i] : i \in 1..Len(s)}
      share == Shares[d]
  IN /\ \A r, q \in Ranks :
          /\ Len(share[r]) = Len(share[q])
          /\ r # q => items(share[r]) \intersect items(share[q]) = {}
     /\ (UNION {items(share[r]) : r \in Ranks})
          \union items(Dropped(Order(d), World)) = 0..(Total(counts) - 1)
     /\ \A s \in 1..Len(counts) : \A j \in 0..(counts[s] - 1) :
          LET at == Locate(counts, BatchTokens, Cumulative(counts)[s - 1] + j)
          IN /\ at.shard = s /\ at.local = j
             /\ at.offset + BatchTokens <= Tokens[d][s]

Partitions == [d \in Datasets |-> Partitioned(d)]
RanksPartition == Partitions[data]

\* No sample of a pass is lost or read twice, on one rank or between them.
PassesAreWhole == EachPassOnce /\ RanksPartition

\* A run is trained on one dataset: a resume with a changed shard set or
\* partition is refused (the fingerprints in PackedDataCursor._restore_state).
ChangedDataRejected == Cardinality(used) <= 1

\* A replayed position is reached: the loop over the batches to skip ends, and
\* the schedule of a TPU worker is never too short for it.
ReplayReaches == pc = "replay" ~> pc \in {"run", "off"}

=============================================================================
