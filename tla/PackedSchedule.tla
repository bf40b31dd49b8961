--------------------------- MODULE PackedSchedule ---------------------------
(***************************************************************************)
(* The deterministic order in which packed shards are read: the layout of  *)
(* the contiguous reader (data/reader.py) and the partition of its global  *)
(* batch order over the ranks (data/partition.py).                         *)
(*                                                                         *)
(* Batches and ranks count from 0 as in the code; shards and positions in  *)
(* a sequence count from 1.  `counts` is batches_per_shard.                *)
(***************************************************************************)
EXTENDS Integers, SequencesExt

\* What a shard holds in whole batches; the rest of its tokens is dropped.
ShardBatches(tokens, size) == [s \in 1..Len(tokens) |-> tokens[s] \div size]

\* _cumulative_batches, with the empty sum in front.
Cumulative(counts) ==
  LET upTo[s \in 0..Len(counts)] ==
        IF s = 0 THEN 0 ELSE upTo[s - 1] + counts[s]
  IN upTo

Total(counts) == Cumulative(counts)[Len(counts)]

\* locate(): bisect_right skips the shards that hold no batch at all.
Locate(counts, size, batch) ==
  LET ends  == Cumulative(counts)
      shard == CHOOSE s \in 1..Len(counts) :
                 ends[s] > batch /\ \A t \in 1..(s - 1) : ends[t] <= batch
      local == batch - ends[shard - 1]
  IN [shard |-> shard, local |-> local, offset |-> local * size]

\* _global_batch_order: shard after shard, each in its own order.
GlobalOrder(counts, shards) ==
  LET first(s) == Cumulative(counts)[s - 1]
  IN FlattenSeq([k \in 1..Len(shards) |->
       [j \in 1..counts[shards[k]] |-> first(shards[k]) + j - 1]])

\* What remains when host_remainder is "drop", and one rank's share of it.
Retained(order, world) == Len(order) - (Len(order) % world)
PerRank(order, world) == Retained(order, world) \div world

RankBatches(order, world, rank) ==
  LET n == PerRank(order, world)
  IN SubSeq(order, rank * n + 1, rank * n + n)

Dropped(order, world) ==
  SubSeq(order, Retained(order, world) + 1, Len(order))

=============================================================================
