--------------------------- MODULE DataFeedProofs ---------------------------
(***************************************************************************)
(* Proofs about DataFeed for every dataset, partition, batch size, number  *)
(* of loader workers and budget, and however often a run is restarted.     *)
(*                                                                         *)
(* Trail is the sequence of batches of a run that is never interrupted.    *)
(* The invariant says how many batches along it a trainer stands, from     *)
(* what the program has: the cursor for a dataset that keeps one, the      *)
(* iterators made and the batches taken from the last one for the loaders  *)
(* that are replayed; and that what was trained on is the trail up to      *)
(* there, in the running trainer and in every checkpoint.                  *)
(*                                                                         *)
(* Deals says that batches hold every item of a sequence in one place. It  *)
(* holds of the passes of every loader, and so of every whole pass of the  *)
(* trail.                                                                  *)
(***************************************************************************)
EXTENDS DataFeed, PackedScheduleProofs, FunctionTheorems,
        FiniteSetTheorems

\* The loaders whose position is replayed have no name for their data in a
\* checkpoint: they are given the same dataset in every run.
Named == Swappable \subseteq {"cursor"}

-----------------------------------------------------------------------------
(* The uninterrupted run                                                    *)

Share(d) == Shares[d][Rank]

\* Batches in one pass over dataset d.
PassLength(kind, d) == Len(PassOf(kind, Share(d), 0))

\* The (c+1)-th batch of the uninterrupted run.
Trail(kind, d, c) ==
  PassOf(kind, Share(d), (1 + (c \div PassLength(kind, d))) % Len(Share(d)))
    [1 + (c % PassLength(kind, d))]

AllBatches == {Trail(kind, d, c) : kind \in Loaders, d \in Datasets, c \in Nat}

-----------------------------------------------------------------------------
(* The inductive invariant                                                  *)

\* s is what lies between the batches o and o + m of the trail.
Follows(d, m, s, o) ==
  /\ s \in Seq(AllBatches) /\ Len(s) = m
  /\ \A k \in 1..m : s[k] = Trail(loader, d, o + k - 1)

\* c batches were consumed since the first pass began, and the cursor is cur.
CursorAt(d, cur, c) ==
  LET n == PassLength(loader, d)
  IN IF cur = none \/ cur >= Len(Share(d)) THEN c % n = 0
     ELSE cur = (c % n) * BatchSize

\* c batches were consumed: all of `draw` - 1 passes and `taken` of the last.
TakenAt(c) ==
  /\ draw \in Nat \ {0} /\ taken \in 0..PassLength(loader, data)
  /\ c = (draw - 1) * PassLength(loader, data) + taken

Typed ==
  /\ loader \in Loaders
  /\ pc \in {"off", "idle", "replay", "run", "refused"}
  /\ data \in Datasets /\ plan = Passes(data) /\ budget \in Budgets
  /\ cursor \in {none} \union 0..Len(Share(data))
  /\ draw \in Nat /\ taken \in Nat \union {none}
  /\ replaying \in Nat /\ micro \in Nat /\ origin \in Nat
  /\ trainers \in 0..MaxTrainers /\ used \subseteq Datasets

\* A dataset object's cursor is at the start of a batch, also when the object
\* is given to another trainer.
Whole ==
  cursor \in 0..(Len(Share(data)) - 1) =>
    cursor = (cursor \div BatchSize) * BatchSize

\* Only the dataset that keeps its position has a cursor.
Kept == loader # "cursor" => cursor = none /\ origin = 0

\* Where a trainer stands.
Stands ==
  /\ pc = "run" /\ loader = "cursor" =>
       /\ CursorAt(data, cursor, origin + micro)
       /\ taken \in Nat \ {0} => cursor # none
  /\ pc = "run" /\ loader # "cursor" =>
       IF taken = none THEN micro = 0 /\ draw = 0 ELSE TakenAt(micro)
  /\ pc = "replay" =>
       /\ loader # "cursor" /\ replaying \in 1..micro
       /\ TakenAt(micro - replaying)

Trained ==
  pc \in {"run", "replay"} =>
    Follows(data, micro, seen, origin) /\ used \subseteq {data}

OneDataset == \E d \in Datasets : used \subseteq {d}

\* What a checkpoint holds was true when it was written, and still is of the
\* dataset it names, or of the only one there is.
Sound(c) ==
  /\ c.micro \in Nat \ {0} /\ c.micro % Accumulation = 0
  /\ c.data \in Datasets /\ c.origin \in Nat
  /\ Follows(c.data, c.micro, c.seen, c.origin)
  /\ c.used \subseteq {c.data}
  /\ loader = "cursor" => /\ c.cursor \in 0..Len(Share(c.data))
                          /\ CursorAt(c.data, c.cursor, c.origin + c.micro)
  /\ loader # "cursor" => c.cursor = none /\ c.data = data /\ c.origin = 0

Stored == \A c \in store : Sound(c)

IInv ==
  /\ Typed /\ Whole /\ Kept /\ Stands /\ Trained /\ OneDataset /\ Stored

-----------------------------------------------------------------------------
(* Numbers                                                                  *)

\* A number of the form p * n + j is taken apart into p and j.
LEMMA QuotientIs ==
  ASSUME NEW n \in Nat \ {0}, NEW p \in Nat, NEW j \in 0..(n - 1),
         NEW a \in Nat, a = p * n + j
  PROVE  a \div n = p /\ a % n = j
<1>1. PICK q \in Nat, r \in 0..(n - 1) :
        a \div n = q /\ a % n = r /\ a = q * n + r
  BY Division
<1>2. p * n \in Nat /\ q * n \in Nat
  OBVIOUS
<1>3. ASSUME NEW x \in Nat, NEW y \in Nat, x < y
      PROVE  x * n + n <= y * n
  <2>1. (x + 1) * n <= y * n
    BY <1>3, Monotone
  <2>2. (x + 1) * n = x * n + n
    OBVIOUS
  <2> QED
    BY <2>1, <2>2
<1>4. ~ p < q
  <2> SUFFICES ASSUME p < q PROVE FALSE
    OBVIOUS
  <2>1. p * n + n <= q * n
    BY <1>3
  <2> QED
    BY <1>1, <1>2, <2>1
<1>5. ~ q < p
  <2> SUFFICES ASSUME q < p PROVE FALSE
    OBVIOUS
  <2>1. q * n + n <= p * n
    BY <1>3
  <2> QED
    BY <1>1, <1>2, <2>1
<1>6. p = q
  BY <1>4, <1>5
<1>7. j = r
  BY <1>1, <1>2, <1>6
<1> QED
  BY <1>1, <1>6, <1>7

\* Counting on by one counts the place within a period on by one, or back
\* to zero at its end.
LEMMA NextPlace ==
  ASSUME NEW n \in Nat \ {0}, NEW c \in Nat
  PROVE  (c + 1) % n = IF (c % n) + 1 = n THEN 0 ELSE (c % n) + 1
<1>1. PICK p \in Nat, j \in 0..(n - 1) :
        c \div n = p /\ c % n = j /\ c = p * n + j
  BY Division
<1>2. p * n \in Nat /\ (p + 1) * n = p * n + n
  OBVIOUS
<1>3. CASE j + 1 = n
  <2>1. PICK a \in Nat, b \in Nat : a = c + 1 /\ b = p + 1
    OBVIOUS
  <2>2. a = b * n + 0 /\ 0 \in 0..(n - 1)
    BY <1>1, <1>2, <1>3, <2>1
  <2>3. a % n = 0
    BY <2>2, QuotientIs
  <2> QED
    BY <1>1, <1>3, <2>1, <2>3
<1>4. CASE j + 1 # n
  <2>1. PICK a \in Nat, b \in Nat : a = c + 1 /\ b = j + 1
    BY <1>1
  <2>2. a = p * n + b /\ b \in 0..(n - 1)
    BY <1>1, <1>2, <1>4, <2>1
  <2>3. a % n = b
    BY <1>1, <2>2, QuotientIs
  <2> QED
    BY <1>1, <1>4, <2>1, <2>3
<1> QED
  BY <1>3, <1>4

\* There are as many batches of b in l samples as start below l.
LEMMA Ceiling ==
  ASSUME NEW l \in Nat \ {0}, NEW b \in Nat \ {0}
  PROVE  /\ (l + b - 1) \div b \in Nat \ {0}
         /\ \A q \in Nat : q < (l + b - 1) \div b <=> q * b < l
<1>1. l + b - 1 \in Nat
  OBVIOUS
<1>2. PICK n \in Nat, r \in 0..(b - 1) :
        (l + b - 1) \div b = n /\ l + b - 1 = n * b + r
  BY <1>1, Division
<1>3. n * b \in Nat
  OBVIOUS
<1>4. ASSUME NEW q \in Nat PROVE q < n <=> q * b < l
  <2>1. q * b \in Nat /\ (q + 1) * b = q * b + b
    OBVIOUS
  <2>2. ASSUME q < n PROVE q * b < l
    <3>1. (q + 1) * b <= n * b
      BY <2>2, Monotone
    <3> QED
      BY <1>2, <1>3, <2>1, <3>1
  <2>3. ASSUME n <= q PROVE ~ q * b < l
    <3>1. n * b <= q * b
      BY <2>3, Monotone
    <3> QED
      BY <1>2, <1>3, <2>1, <3>1
  <2> QED
    BY <2>2, <2>3
<1>5. n # 0
  <2>1. 0 * b < l
    OBVIOUS
  <2> QED
    BY <1>4, <2>1
<1> QED
  BY <1>2, <1>4, <1>5

-----------------------------------------------------------------------------
(* Shares and passes                                                        *)

\* The assumption about the constants, as a fact to cite.
LEMMA Setting ==
  /\ BatchTokens \in Nat \ {0} /\ World \in Nat \ {0}
  /\ Rank \in 0..(World - 1)
  /\ BatchSize \in Nat \ {0} /\ LoaderWorkers \in Nat \ {0}
  /\ Accumulation \in Nat \ {0} /\ Budgets \subseteq Nat \ {0}
  /\ Loaders \subseteq {"cursor", "striped", "shuffled", "worker"}
  BY FeedAssumption

\* The shards hold so many batches, and are listed once each.
LEMMA CountsType ==
  ASSUME NEW d \in Datasets
  PROVE  LET counts == ShardBatches(Tokens[d], BatchTokens)
         IN /\ counts \in Seq(Nat) /\ Len(counts) = Len(Tokens[d])
            /\ \A s \in 1..Len(counts) :
                 Tokens[d][s] \in Nat
                 /\ counts[s] * BatchTokens <= Tokens[d][s]
            /\ ShardOrder[d] \in [1..Len(counts) -> 1..Len(counts)]
            /\ \A s, t \in 1..Len(counts) :
                 s # t => ShardOrder[d][s] # ShardOrder[d][t]
<1> DEFINE counts == ShardBatches(Tokens[d], BatchTokens)
           n == Len(Tokens[d])
<1>1. /\ Tokens[d] \in Seq(Nat) /\ ShardOrder[d] \in [1..n -> 1..n]
      /\ \A s, t \in 1..n : s # t => ShardOrder[d][s] # ShardOrder[d][t]
  BY DataAssumption
<1>2. n \in Nat /\ \A s \in 1..n : Tokens[d][s] \in Nat
  BY <1>1, LenProperties, ElementOfSeq
<1>3. ASSUME NEW s \in 1..n
      PROVE  /\ Tokens[d][s] \div BatchTokens \in Nat
             /\ (Tokens[d][s] \div BatchTokens) * BatchTokens <= Tokens[d][s]
  <2>1. PICK a \in Nat, w \in Nat \ {0} : a = Tokens[d][s] /\ w = BatchTokens
    BY <1>2, Setting
  <2>2. PICK q \in Nat, r \in 0..(w - 1) :
        a \div w = q /\ a = q * w + r
    BY Division
  <2>3. q * w \in Nat
    OBVIOUS
  <2>4. q * w <= a
    BY <2>2, <2>3
  <2> QED
    BY <2>1, <2>2, <2>4
<1>4. counts \in Seq(Nat) /\ Len(counts) = n
      /\ \A s \in 1..n : counts[s] = Tokens[d][s] \div BatchTokens
  BY <1>2, <1>3 DEF ShardBatches
<1> HIDE DEF counts
<1>5. \A s \in 1..n : counts[s] * BatchTokens <= Tokens[d][s]
  BY <1>3, <1>4
<1> QED
  BY <1>1, <1>2, <1>4, <1>5 DEF counts

\* The global order of a dataset is a sequence.
LEMMA OrderType ==
  ASSUME NEW d \in Datasets
  PROVE  Order(d) \in Seq(Nat)
BY CountsType, GlobalOrderIs DEF Order

\* No rank is left without batches.
LEMMA ShareType ==
  ASSUME NEW d \in Datasets
  PROVE  Len(Share(d)) \in Nat \ {0} /\ Share(d) \in Seq(Nat)
<1>1. Order(d) \in Seq(Nat)
  BY OrderType
<1>2. Retained(Order(d), World) > 0
  BY DataAssumption
<1>3. Share(d) = RankBatches(Order(d), World, Rank)
  BY Setting DEF Share, Shares, Ranks
<1>4. Len(Share(d)) = PerRank(Order(d), World)
  BY <1>1, <1>3, ShareItems, Setting
<1>5. /\ PerRank(Order(d), World) \in Nat
      /\ Retained(Order(d), World) = World * PerRank(Order(d), World)
  BY <1>1, WholeShares, Setting
<1>6. PerRank(Order(d), World) # 0
  BY <1>2, <1>5, Setting
<1>7. Share(d) \in Seq(Nat)
  BY <1>1, <1>3, ShareSeq, Setting
<1> QED
  BY <1>4, <1>5, <1>6, <1>7

\* A share of n samples is read in n / b batches, rounded up.
LEMMA ChunksLength ==
  ASSUME NEW s, Len(s) \in Nat \ {0}, NEW b \in Nat \ {0}
  PROVE  /\ Len(Chunks(s, b)) = (Len(s) + b - 1) \div b
         /\ Len(Chunks(s, b)) \in Nat \ {0}
<1>1. (Len(s) + b - 1) \div b \in Nat \ {0}
  BY Ceiling
<1> QED
  BY <1>1 DEF Chunks

\* What worker id gives in a turn, and what all of them give.
Asked(of, turn, id) == IF turn <= Len(of[id]) THEN <<of[id][turn]>> ELSE <<>>
Row(of, w, turn) == FlattenSeq([i \in 1..w |-> Asked(of, turn, i - 1)])
Given(of, w) == {of[i][t] : i \in 0..(w - 1), t \in Nat}

\* A turn of the loader workers gives batches of those workers only.
LEMMA RowType ==
  ASSUME NEW of, NEW w \in Nat \ {0}, NEW turn \in Nat
  PROVE  /\ Row(of, w, turn) \in Seq(Given(of, w))
         /\ Len(Asked(of, turn, 0)) <= Len(Row(of, w, turn))
<1> DEFINE G == Given(of, w)
           parts == [i \in 1..w |-> Asked(of, turn, i - 1)]
<1>1. ASSUME NEW id \in 0..(w - 1) PROVE Asked(of, turn, id) \in Seq(G)
  <2>1. of[id][turn] \in G
    BY DEF Given
  <2> HIDE DEF G
  <2>2. <<of[id][turn]>> \in Seq(G) /\ <<>> \in Seq(G)
    BY <2>1
  <2> QED
    BY <2>2 DEF Asked
<1>2. \A i \in 1..w : i - 1 \in 0..(w - 1)
  OBVIOUS
<1>3. parts[1] = Asked(of, turn, 0) /\ parts # <<>>
  <2>1. 1 \in 1..w /\ 1 - 1 = 0
    OBVIOUS
  <2>2. parts[1] = Asked(of, turn, 1 - 1) /\ Len(parts) = w
    BY <2>1
  <2> HIDE DEF parts
  <2> QED
    BY <2>1, <2>2
<1>4. parts \in Seq(Seq(G))
  <2> HIDE DEF G
  <2>1. \A i \in 1..w : Asked(of, turn, i - 1) \in Seq(G)
    BY <1>1, <1>2
  <2> QED
    BY <2>1
<1>5. Row(of, w, turn) = FlattenSeq(parts)
  BY DEF Row
<1> HIDE DEF parts, G
<1>6. /\ FlattenSeq(parts) \in Seq(G)
      /\ Len(parts[1]) <= Len(FlattenSeq(parts))
  BY <1>3, <1>4, FlattenType
<1> QED
  BY <1>3, <1>5, <1>6 DEF G

\* The first worker has a batch to give.
LEMMA InterleavedLength ==
  ASSUME NEW s, Len(s) \in Nat \ {0}
  PROVE  Len(Interleaved(s)) \in Nat \ {0}
<1> DEFINE W == LoaderWorkers
           of == [id \in 0..(W - 1) |-> Chunks(Stripe(s, id), BatchSize)]
           n == Len(of[0])
           rows == [turn \in 1..n |-> Row(of, W, turn)]
<1>1. W \in Nat \ {0} /\ 0 \in 0..(W - 1)
  BY Setting
<1>2. of[0] = Chunks(Stripe(s, 0), BatchSize)
  BY <1>1
<1>3. n \in Nat \ {0}
  <2>1. PICK m \in Nat \ {0} : m = (Len(s) + W - 1) \div W
    BY <1>1, Ceiling
  <2>2. Len(s) - 0 + W - 1 = Len(s) + W - 1
    BY <1>1
  <2>3. Len(Stripe(s, 0)) = m
    BY <2>1, <2>2 DEF Stripe
  <2> QED
    BY <1>2, <2>3, ChunksLength, Setting
<1>4. Interleaved(s) = FlattenSeq(rows)
  BY DEF Interleaved, Row, Asked
<1> HIDE DEF of, n, W
<1>5. \A turn \in 1..n : Row(of, W, turn) \in Seq(Given(of, W))
  BY <1>1, <1>3, RowType
<1>6. rows \in Seq(Seq(Given(of, W))) /\ rows[1] = Row(of, W, 1)
      /\ rows # <<>>
  <2>1. rows[1] = Row(of, W, 1) /\ Len(rows) = n
    BY <1>3
  <2>2. rows \in Seq(Seq(Given(of, W)))
    BY <1>3, <1>5
  <2> HIDE DEF rows
  <2> QED
    BY <1>3, <2>1, <2>2
<1>7. 1 <= Len(Row(of, W, 1)) /\ Len(Row(of, W, 1)) \in Nat
  <2>1. Asked(of, 1, 0) = <<of[0][1]>>
    BY <1>3 DEF Asked, n
  <2>2. Len(Asked(of, 1, 0)) = 1
    BY <2>1
  <2>3. /\ Row(of, W, 1) \in Seq(Given(of, W))
        /\ Len(Asked(of, 1, 0)) <= Len(Row(of, W, 1))
    BY <1>1, RowType
  <2>4. Len(Row(of, W, 1)) \in Nat
    BY <2>3
  <2> QED
    BY <2>2, <2>3, <2>4
<1> HIDE DEF rows
<1>8. /\ FlattenSeq(rows) \in Seq(Given(of, W))
      /\ Len(rows[1]) <= Len(FlattenSeq(rows))
  BY <1>6, FlattenType
<1>9. Len(FlattenSeq(rows)) \in Nat
  BY <1>8
<1> QED
  BY <1>4, <1>6, <1>7, <1>8, <1>9

\* Every pass over a dataset has the same number of batches, and has some.
LEMMA PassLengths ==
  ASSUME NEW kind \in Loaders, NEW d \in Datasets
  PROVE  /\ PassLength(kind, d) \in Nat \ {0}
         /\ \A t \in Nat :
              Len(PassOf(kind, Share(d), t)) = PassLength(kind, d)
<1> DEFINE s == Share(d)
<1>1. Len(s) \in Nat \ {0}
  BY ShareType
<1>2. \A t : Len(Shuffled(s, t)) = Len(s)
  BY <1>1 DEF Shuffled
<1> HIDE DEF s
<1>3. ASSUME NEW t \in Nat
      PROVE  /\ Len(PassOf(kind, s, t)) = Len(PassOf(kind, s, 0))
             /\ Len(PassOf(kind, s, 0)) \in Nat \ {0}
  <2>1. CASE kind = "cursor"
    BY <1>1, <2>1, ChunksLength, Setting DEF PassOf
  <2>2. CASE kind = "striped"
    BY <1>1, <2>2, InterleavedLength DEF PassOf
  <2>3. CASE kind = "shuffled"
    <3>1. /\ PassOf(kind, s, t) = Chunks(Shuffled(s, t), BatchSize)
          /\ PassOf(kind, s, 0) = Chunks(Shuffled(s, 0), BatchSize)
      BY <2>3 DEF PassOf
    <3> QED
      BY <1>1, <1>2, <3>1, ChunksLength, Setting
  <2>4. CASE kind = "worker"
    BY <1>1, <2>4, ChunksLength DEF PassOf
  <2> QED
    BY <2>1, <2>2, <2>3, <2>4, Setting
<1> QED
  BY <1>3 DEF PassLength, s

-----------------------------------------------------------------------------
(* The steps                                                                *)

\* A pass depends on the dataset and the draw only, and has the same length
\* every time.
LEMMA PassIs ==
  ASSUME Typed, NEW t \in Nat
  PROVE  /\ Pass(t) = PassOf(loader, Share(data), t % Len(Share(data)))
         /\ Len(Pass(t)) = PassLength(loader, data)
<1> DEFINE L == Len(Share(data))
<1>1. L \in Nat \ {0} /\ loader \in Loaders /\ data \in Datasets
  BY ShareType DEF Typed
<1>2. t % L \in 0..(L - 1) /\ t % L \in Nat
  <2> HIDE DEF L
  <2> QED
    BY <1>1, Division
<1>3. plan = [times \in 0..(L - 1) |-> PassOf(loader, Share(data), times)]
  BY DEF Typed, Passes, Share
<1>4. Pass(t) = plan[t % L]
  BY DEF Pass, Slice, Share
<1> HIDE DEF L
<1>5. Pass(t) = PassOf(loader, Share(data), t % L)
  BY <1>2, <1>3, <1>4
<1> QED
  BY <1>1, <1>2, <1>5, PassLengths DEF L

\* The next batch of the uninterrupted run is the next one of the pass.
LEMMA TrailIs ==
  ASSUME Typed, NEW c \in Nat
  PROVE  LET n == PassLength(loader, data)
         IN /\ Trail(loader, data, c) = Pass(1 + (c \div n))[1 + (c % n)]
            /\ Trail(loader, data, c) \in AllBatches
<1>1. PassLength(loader, data) \in Nat \ {0}
  BY PassLengths DEF Typed
<1>2. 1 + (c \div PassLength(loader, data)) \in Nat
  BY <1>1, Division
<1>3. Trail(loader, data, c) \in AllBatches
  BY DEF AllBatches, Typed
<1> QED
  BY <1>2, <1>3, PassIs DEF Trail

\* The invariant holds before the first process.
LEMMA InitIInv == Init => IInv
<1> SUFFICES ASSUME Init PROVE IInv
  OBVIOUS
<1>1. Typed
  BY FeedAssumption DEF Init, Typed
<1>2. Whole /\ Kept /\ Stands /\ Trained /\ OneDataset /\ Stored
  BY DEF Init, Whole, Kept, Stands, Trained, OneDataset, Stored, none
<1> QED
  BY <1>1, <1>2 DEF IInv

\* A checkpoint stays what it is while the run goes on.
LEMMA StoredStays ==
  ASSUME Stored, loader' = loader, store' = store,
         loader # "cursor" => data' = data
  PROVE  Stored'
<1> SUFFICES ASSUME NEW c \in store PROVE Sound(c)'
  BY DEF Stored
<1>1. Sound(c)
  BY DEF Stored
<1> QED
  BY <1>1 DEF Sound, Follows, CursorAt

\* A new process begins with the cursor, the draw and the count at zero.
LEMMA OpenKeeps ==
  ASSUME Named, IInv, Open PROVE IInv'
<1>1. loader' = loader /\ store' = store /\ data' \in Datasets
      /\ (loader # "cursor" => data' = data)
  BY DEF Open, IInv, Typed, Named
<1>2. Stored'
  BY <1>1, StoredStays DEF IInv
<1>3. Typed'
  BY <1>1 DEF Open, IInv, Typed, history, Passes
<1>4. /\ Whole' /\ Kept' /\ Stands' /\ Trained' /\ OneDataset'
  BY <1>1
  DEF Open, IInv, Whole, Kept, Stands, Trained, OneDataset, history, none
<1> QED
  BY <1>2, <1>3, <1>4 DEF IInv

\* A resume that is refused leaves the invariant as it was.
LEMMA RefuseKeeps ==
  ASSUME IInv, Refuse PROVE IInv'
<1>1. /\ loader' = loader /\ store' = store /\ data' = data /\ plan' = plan
      /\ position' = position /\ micro' = micro /\ history' = history
      /\ pc' = "refused"
      /\ budget' \in Budgets /\ trainers' = trainers + 1
      /\ trainers < MaxTrainers
  BY DEF Refuse, Construct
<1>2. Stored'
  BY <1>1, StoredStays DEF IInv
<1>3. Typed'
  BY <1>1, FeedAssumption DEF IInv, Typed, history, position, Passes
<1>4. /\ Whole' /\ Kept' /\ Stands' /\ Trained' /\ OneDataset'
  BY <1>1
  DEF IInv, Whole, Kept, Stands, Trained, OneDataset, history, position
<1> QED
  BY <1>2, <1>3, <1>4 DEF IInv

\* A trainer that leaves its loop leaves everything else as it is.
LEMMA LeaveKeeps ==
  ASSUME IInv, pc' \in {"off", "idle"},
         UNCHANGED <<loader, data, plan, position, budget, micro, store,
                     trainers, history>>
  PROVE  IInv'
<1>1. Stored'
  BY StoredStays DEF IInv
<1>2. Typed'
  BY DEF IInv, Typed, history, position, Passes
<1>3. /\ Whole' /\ Kept' /\ Stands' /\ Trained' /\ OneDataset'
  BY DEF IInv, Whole, Kept, Stands, Trained, OneDataset, history, position
<1> QED
  BY <1>1, <1>2, <1>3 DEF IInv

\* A new trainer on a dataset object takes its cursor as the beginning.
LEMMA CursorStart ==
  ASSUME Typed, Whole,
         NEW o, o = IF cursor \in 0..(Len(Share(data)) - 1)
                    THEN cursor \div BatchSize ELSE 0,
         loader = "cursor"
  PROVE  o \in Nat /\ CursorAt(data, cursor, o + 0)
<1> DEFINE L == Len(Share(data))
           n == PassLength(loader, data)
<1>1. L \in Nat \ {0} /\ n \in Nat \ {0} /\ BatchSize \in Nat \ {0}
  BY ShareType, PassLengths, Setting DEF Typed
<1>2. CASE cursor \in 0..(L - 1)
  <2>1. o \in Nat /\ cursor = o * BatchSize
    <3>1. cursor \in Nat /\ o = cursor \div BatchSize
      BY <1>1, <1>2
    <3>2. cursor \div BatchSize \in Nat
      BY <1>1, <3>1, Division
    <3> QED
      BY <1>2, <3>1, <3>2 DEF Whole
  <2>2. n = (L + BatchSize - 1) \div BatchSize
    BY <1>1, ChunksLength DEF PassLength, PassOf
  <2>3. o < n
    <3> HIDE DEF L, n
    <3>1. o * BatchSize < L
      BY <1>1, <1>2, <2>1
    <3> QED
      BY <1>1, <2>1, <2>2, <3>1, Ceiling
  <2>4. o = 0 * n + o /\ o \in 0..(n - 1)
    BY <1>1, <2>1, <2>3
  <2>5. o % n = o
    <3>1. PICK m \in Nat \ {0}, a \in Nat : m = n /\ a = o
      BY <1>1, <2>1
    <3>2. a \in 0..(m - 1) /\ a = 0 * m + a
      BY <2>4, <3>1
    <3>3. a % m = a
      BY <3>2, QuotientIs
    <3> QED
      BY <3>1, <3>3
  <2>6. cursor # none /\ ~ cursor >= L /\ o + 0 = o
    BY <1>1, <1>2, <2>1 DEF none
  <2> QED
    BY <2>1, <2>5, <2>6 DEF CursorAt
<1>3. CASE cursor \notin 0..(L - 1)
  <2>1. o = 0 /\ (cursor = none \/ cursor >= L)
    BY <1>1, <1>3 DEF Typed
  <2>2. 0 % n = 0
    BY <1>1
  <2> QED
    BY <2>1, <2>2 DEF CursorAt
<1> QED
  BY <1>2, <1>3

\* A training without a checkpoint starts where its dataset object stands.
LEMMA TrainFreshKeeps ==
  ASSUME IInv, TrainFresh PROVE IInv'
<1>1. /\ loader' = loader /\ store' = store /\ data' = data /\ plan' = plan
      /\ cursor' = cursor
      /\ pc' = "run" /\ micro' = 0 /\ draw' = 0 /\ taken' = none
      /\ replaying' = 0 /\ seen' = <<>> /\ used' = {}
      /\ origin' = IF cursor \in 0..(Len(Share(data)) - 1)
                   THEN cursor \div BatchSize ELSE 0
      /\ budget' \in Budgets /\ trainers' = trainers + 1
      /\ trainers < MaxTrainers
  BY DEF TrainFresh, Construct, Slice, Share
<1>2. Stored'
  BY <1>1, StoredStays DEF IInv
<1>3. loader = "cursor" =>
        origin' \in Nat /\ CursorAt(data, cursor, origin' + 0)
  BY <1>1, CursorStart DEF IInv
<1>4. loader # "cursor" => cursor = none /\ origin' = 0
  BY <1>1 DEF IInv, Kept, none
<1>5. Typed'
  BY <1>1, <1>3, <1>4, FeedAssumption DEF IInv, Typed, Passes
<1>6. Whole' /\ Kept' /\ OneDataset'
  BY <1>1, <1>4 DEF IInv, Whole, Kept, OneDataset, Typed
<1>7. Stands'
  BY <1>1, <1>3 DEF Stands, CursorAt, none
<1>8. Trained'
  <2>1. Follows(data, 0, <<>>, origin')
    BY DEF Follows
  <2> QED
    BY <1>1, <2>1 DEF Trained, Follows
<1> QED
  BY <1>2, <1>5, <1>6, <1>7, <1>8 DEF IInv

\* A cursor behind whole batches points to the start of a batch.
LEMMA CursorWhole ==
  ASSUME NEW d \in Datasets, loader \in Loaders, NEW c \in Nat,
         NEW cur \in 0..(Len(Share(d)) - 1), CursorAt(d, cur, c)
  PROVE  cur = (cur \div BatchSize) * BatchSize
<1> DEFINE n == PassLength(loader, d)
<1>1. n \in Nat \ {0} /\ Len(Share(d)) \in Nat /\ BatchSize \in Nat \ {0}
  BY ShareType, PassLengths, Setting
<1>2. PICK q \in Nat : q = c % n
  <2>1. PICK m \in Nat \ {0} : m = n
    BY <1>1
  <2>2. c % m \in Nat
    BY Division
  <2> QED
    BY <2>1, <2>2
<1>3. cur = q * BatchSize + 0 /\ cur \in Nat /\ 0 \in 0..(BatchSize - 1)
  BY <1>1, <1>2 DEF CursorAt, none
<1>4. cur \div BatchSize = q
  BY <1>1, <1>3, QuotientIs
<1> QED
  BY <1>1, <1>3, <1>4

\* A resume puts the cursor or the count of batches to skip where the
\* checkpoint says.
LEMMA ResumeKeeps ==
  ASSUME IInv, Resume PROVE IInv'
<1>1. PICK ckpt \in store :
        /\ SameData(ckpt)
        /\ loader' = loader /\ store' = store /\ data' = data
        /\ plan' = plan
        /\ micro' = ckpt.micro /\ draw' = 1 /\ taken' = 0
        /\ IF ckpt.cursor = none
           THEN pc' = "replay" /\ replaying' = ckpt.micro /\ cursor' = cursor
           ELSE pc' = "run" /\ replaying' = 0 /\ cursor' = ckpt.cursor
        /\ seen' = ckpt.seen /\ used' = ckpt.used /\ origin' = ckpt.origin
        /\ budget' \in Budgets /\ trainers' = trainers + 1
        /\ trainers < MaxTrainers
  BY DEF Resume, Construct
<1>2. Sound(ckpt) /\ Typed
  BY DEF IInv, Stored
<1>3. ckpt.cursor = none <=> loader # "cursor"
  BY <1>2, ShareType DEF Sound, none
<1>4. ckpt.data = data
  BY <1>1, <1>2, <1>3 DEF Sound, SameData
<1>5. Stored'
  BY <1>1, StoredStays DEF IInv
<1>6. Typed'
  BY <1>1, <1>2, <1>3, <1>4, FeedAssumption DEF IInv, Typed, Sound, Passes
<1>7. Whole' /\ Kept'
  <2>1. CASE loader = "cursor"
    <3>1. cursor' = ckpt.cursor /\ CursorAt(data, ckpt.cursor,
                                            ckpt.origin + ckpt.micro)
          /\ ckpt.origin + ckpt.micro \in Nat
      BY <1>1, <1>2, <1>3, <1>4, <2>1 DEF Sound
    <3>2. ckpt.cursor \in 0..(Len(Share(data)) - 1) =>
            ckpt.cursor = (ckpt.cursor \div BatchSize) * BatchSize
      BY <1>2, <3>1, CursorWhole DEF Typed
    <3> QED
      BY <1>1, <2>1, <3>1, <3>2 DEF Whole, Kept
  <2>2. CASE loader # "cursor"
    <3>1. cursor' = none /\ origin' = 0
      BY <1>1, <1>2, <1>3, <2>2 DEF IInv, Kept, Sound
    <3> QED
      BY <1>1, <2>2, <3>1 DEF Whole, Kept, none
  <2> QED
    BY <2>1, <2>2
<1>8. Stands'
  <2>1. CASE loader = "cursor"
    BY <1>1, <1>2, <1>3, <1>4, <2>1 DEF Stands, Sound, CursorAt
  <2>2. CASE loader # "cursor"
    <3>1. PassLength(loader, data) \in Nat \ {0} /\ ckpt.micro \in Nat \ {0}
      BY <1>2, PassLengths DEF Typed, Sound
    <3>2. micro' - replaying' = 0 /\ pc' = "replay" /\ replaying' \in 1..micro'
      BY <1>1, <1>3, <2>2, <3>1
    <3>3. 0 = (1 - 1) * PassLength(loader, data) + 0
          /\ 0 \in 0..PassLength(loader, data)
      BY <3>1
    <3>4. TakenAt(0)'
      BY <1>1, <3>3 DEF TakenAt
    <3> QED
      BY <1>1, <2>2, <3>2, <3>4 DEF Stands
  <2> QED
    BY <2>1, <2>2
<1>9. Trained' /\ OneDataset'
  BY <1>1, <1>2, <1>4 DEF Trained, OneDataset, Follows, Sound, Typed
<1> QED
  BY <1>5, <1>6, <1>7, <1>8, <1>9 DEF IInv

\* A replayed loader has another batch until its pass is over.
LEMMA MoreIs ==
  ASSUME Typed, NEW t
  PROVE  loader # "cursor" => (More(t) <=> t < PassLength(loader, data))
  BY PassIs DEF More, Typed

\* One batch of the replay is one batch of the uninterrupted run.
LEMMA SkipKeeps ==
  ASSUME IInv, Skip PROVE IInv'
<1> DEFINE n == PassLength(loader, data)
<1>1. /\ loader' = loader /\ store' = store /\ data' = data /\ plan' = plan
      /\ cursor' = cursor /\ draw' = draw /\ budget' = budget
      /\ micro' = micro /\ trainers' = trainers /\ history' = history
      /\ pc = "replay" /\ More(taken) /\ taken' = taken + 1
      /\ replaying' = replaying - 1
      /\ pc' = IF replaying = 1 THEN "run" ELSE "replay"
  BY DEF Skip
<1>2. Typed /\ loader # "cursor" /\ replaying \in 1..micro
      /\ TakenAt(micro - replaying) /\ micro \in Nat
  BY <1>1 DEF IInv, Stands, Typed
<1>3. n \in Nat \ {0}
  BY <1>2, PassLengths DEF Typed
<1>4. taken \in 0..n /\ draw \in Nat \ {0}
      /\ micro - replaying = (draw - 1) * n + taken
  BY <1>2 DEF TakenAt
<1>5. taken < n
  BY <1>1, <1>2, MoreIs
<1>6. PICK done \in Nat : done = (draw - 1) * n
  BY <1>3, <1>4
<1> HIDE DEF n
<1>7. taken' \in 1..n /\ replaying' \in Nat /\ replaying' <= micro
      /\ micro - replaying' = done + taken'
  BY <1>1, <1>2, <1>3, <1>4, <1>5, <1>6
<1>8. /\ draw' \in Nat \ {0} /\ taken' \in 0..n
      /\ micro' - replaying' = (draw' - 1) * n + taken'
  BY <1>1, <1>3, <1>4, <1>6, <1>7
<1>9. Stored'
  BY <1>1, StoredStays DEF IInv
<1>10. Typed'
  BY <1>1, <1>2, <1>7, <1>3 DEF Typed, history, Passes
<1>11. Whole' /\ Kept' /\ OneDataset'
  BY <1>1 DEF IInv, Whole, Kept, OneDataset, history
<1>12. Stands'
  <2>1. CASE replaying = 1
    <3>1. pc' = "run" /\ replaying' = 0 /\ micro' - replaying' = micro'
      BY <1>1, <1>2, <2>1
    <3>2. taken' # none
      BY <1>3, <1>7 DEF none
    <3>3. micro' = (draw' - 1) * n + taken'
      BY <1>8, <3>1
    <3> QED
      BY <1>1, <1>2, <1>8, <3>1, <3>2, <3>3 DEF Stands, TakenAt, n
  <2>2. CASE replaying # 1
    <3>1. pc' = "replay" /\ replaying' \in 1..micro'
      BY <1>1, <1>2, <1>7, <2>2
    <3> QED
      BY <1>1, <1>2, <1>8, <3>1 DEF Stands, TakenAt, n
  <2> QED
    BY <2>1, <2>2
<1>13. Trained'
  BY <1>1 DEF IInv, Trained, Follows, history
<1> QED
  BY <1>9, <1>10, <1>11, <1>12, <1>13 DEF IInv

\* A replay that reaches the end of a pass goes on in the next one.
LEMMA RewindKeeps ==
  ASSUME IInv, Rewind PROVE IInv'
<1> DEFINE n == PassLength(loader, data)
<1>1. /\ loader' = loader /\ store' = store /\ data' = data /\ plan' = plan
      /\ cursor' = cursor /\ budget' = budget
      /\ micro' = micro /\ trainers' = trainers /\ history' = history
      /\ pc = "replay" /\ ~More(taken) /\ replaying' = replaying
      /\ \/ pc' = "refused" /\ draw' = draw /\ taken' = taken
         \/ pc' = pc /\ draw' = draw + 1 /\ taken' = 0
  BY DEF Rewind
<1>2. Typed /\ loader # "cursor" /\ replaying \in 1..micro
      /\ TakenAt(micro - replaying) /\ micro \in Nat
  BY <1>1 DEF IInv, Stands, Typed
<1>3. n \in Nat \ {0}
  BY <1>2, PassLengths DEF Typed
<1>4. taken \in 0..n /\ draw \in Nat \ {0}
      /\ micro - replaying = (draw - 1) * n + taken
  BY <1>2 DEF TakenAt
<1>5. taken = n
  BY <1>1, <1>2, <1>3, <1>4, MoreIs
<1>6. (draw - 1) * n + n = draw * n + 0 /\ (draw + 1) - 1 = draw
  BY <1>3, <1>4
<1>7. pc' = "replay" => TakenAt(micro - replaying)'
  <2> SUFFICES ASSUME pc' = "replay" PROVE TakenAt(micro - replaying)'
    OBVIOUS
  <2>1. draw' = draw + 1 /\ taken' = 0
    BY <1>1
  <2>2. micro - replaying = ((draw + 1) - 1) * n + 0
    BY <1>4, <1>5, <1>6
  <2>3. draw + 1 \in Nat \ {0} /\ 0 \in 0..n
    BY <1>3, <1>4
  <2> QED
    BY <1>1, <2>1, <2>2, <2>3 DEF TakenAt
<1>8. Stored'
  BY <1>1, StoredStays DEF IInv
<1>9. Typed'
  BY <1>1, <1>2 DEF Typed, history, Passes
<1>10. Whole' /\ Kept' /\ OneDataset'
  BY <1>1 DEF IInv, Whole, Kept, OneDataset, history
<1>11. Stands'
  BY <1>1, <1>2, <1>7 DEF Stands
<1>12. Trained'
  BY <1>1 DEF IInv, Trained, Follows, history
<1> QED
  BY <1>8, <1>9, <1>10, <1>11, <1>12 DEF IInv

\* The batch a replayed loader gives is the next of the trail.
LEMMA TakesReplayed ==
  ASSUME IInv, pc = "run", loader # "cursor",
         NEW times, NEW t,
         LET anew == taken = none \/ ~More(taken)
         IN /\ times = IF anew THEN draw + 1 ELSE draw
            /\ t = IF anew THEN 0 ELSE taken
  PROVE  LET n == PassLength(loader, data)
         IN /\ times = 1 + (micro \div n) /\ t = micro % n
            /\ times \in Nat \ {0} /\ t \in 0..(n - 1)
            /\ micro = (times - 1) * n + t
<1> DEFINE n == PassLength(loader, data)
<1>1. n \in Nat \ {0} /\ Typed /\ micro \in Nat
  BY PassLengths DEF IInv, Typed
<1>2. taken # none => (More(taken) <=> taken < n)
  BY <1>1, MoreIs
<1>3. \E p \in Nat, j \in 0..(n - 1) :
        times = 1 + p /\ t = j /\ micro = p * n + j
  <2>1. CASE taken = none
    <3>1. micro = 0 /\ draw = 0 /\ times = draw + 1 /\ t = 0
      BY <2>1 DEF IInv, Stands
    <3>2. times = 1 + 0 /\ micro = 0 * n + 0 /\ 0 \in 0..(n - 1) /\ 0 \in Nat
      BY <1>1, <3>1
    <3> HIDE DEF n
    <3> QED
      BY <3>1, <3>2
  <2>2. CASE taken # none /\ ~ taken < n
    <3>1. TakenAt(micro) /\ times = draw + 1 /\ t = 0
      BY <1>2, <2>2 DEF IInv, Stands
    <3>2. taken \in 0..n /\ draw \in Nat \ {0}
          /\ micro = (draw - 1) * n + taken
      BY <3>1 DEF TakenAt
    <3> HIDE DEF n
    <3>3. micro = (draw - 1) * n + n
      BY <1>1, <2>2, <3>2
    <3>4. (draw - 1) * n + n = draw * n + 0
      BY <1>1, <3>2
    <3>5. micro = draw * n + 0 /\ times = 1 + draw /\ 0 \in 0..(n - 1)
      BY <1>1, <3>1, <3>2, <3>3, <3>4
    <3> QED
      BY <3>1, <3>2, <3>5
  <2>3. CASE taken # none /\ taken < n
    <3>1. TakenAt(micro) /\ times = draw /\ t = taken
      BY <1>2, <2>3 DEF IInv, Stands
    <3>2. taken \in 0..n /\ draw \in Nat \ {0}
          /\ micro = (draw - 1) * n + taken
      BY <3>1 DEF TakenAt
    <3> HIDE DEF n
    <3>3. draw - 1 \in Nat /\ times = 1 + (draw - 1) /\ taken \in 0..(n - 1)
      BY <1>1, <2>3, <3>1, <3>2
    <3> QED
      BY <3>1, <3>2, <3>3
  <2> QED
    BY <2>1, <2>2, <2>3
<1> HIDE DEF n
<1>4. PICK p \in Nat, j \in 0..(n - 1) :
        times = 1 + p /\ t = j /\ micro = p * n + j
  BY <1>3
<1>5. micro \div n = p /\ micro % n = j
  BY <1>1, <1>4, QuotientIs
<1>6. times - 1 = p /\ times \in Nat \ {0}
  BY <1>4
<1> QED
  BY <1>4, <1>5, <1>6 DEF n

\* The cursor's loader goes on where the trail does.
LEMMA TakesCursor ==
  ASSUME IInv, pc = "run", loader = "cursor", NEW t,
         t = IF taken = none \/ ~More(taken) THEN 0 ELSE taken
  PROVE  LET q == (origin + micro) % PassLength(loader, data)
         IN From(t) = q * BatchSize /\ From(t) < Len(Share(data))
<1> DEFINE L == Len(Share(data))
           q == (origin + micro) % PassLength(loader, data)
<1>1. L \in Nat \ {0} /\ Typed /\ BatchSize \in Nat \ {0}
  BY ShareType, Setting DEF IInv, Typed
<1>2. cursor \in {none} \union 0..L /\ taken \in Nat \union {none}
      /\ (taken \in Nat \ {0} => cursor # none)
      /\ CursorAt(data, cursor, origin + micro)
  BY DEF IInv, Typed, Stands
<1>3. /\ \A x : More(x) <=> From(x) < L
      /\ \A x : From(x) = IF x = 0 /\ (cursor = none \/ cursor >= L)
                          THEN 0 ELSE cursor
  BY DEF More, From, Slice, Share
<1>4. IF cursor = none \/ cursor >= L THEN q = 0 ELSE cursor = q * BatchSize
  BY <1>2 DEF CursorAt
<1> HIDE DEF L, q
<1>5. CASE cursor = none \/ cursor >= L
  <2>1. From(0) = 0 /\ q = 0
    BY <1>3, <1>4, <1>5
  <2>2. t = 0
    <3> SUFFICES ASSUME taken # none, taken # 0 PROVE ~More(taken)
      BY <1>1
    <3>1. cursor >= L /\ cursor \in Nat /\ From(taken) = cursor
      BY <1>1, <1>2, <1>3, <1>5
    <3> QED
      BY <1>1, <1>3, <3>1
  <2>3. q * BatchSize = 0
    BY <1>1, <2>1
  <2> QED
    BY <1>1, <2>1, <2>2, <2>3 DEF L, q
<1>6. CASE ~(cursor = none \/ cursor >= L)
  <2>1. \A x : From(x) = cursor
    BY <1>3, <1>6
  <2>2. cursor < L
    BY <1>1, <1>2, <1>6
  <2> QED
    BY <1>4, <1>6, <2>1, <2>2 DEF L, q
<1> QED
  BY <1>5, <1>6

\* One more batch of the cursor's loader: it is the trail's, and the cursor
\* moves on with it.
LEMMA StepsCursor ==
  ASSUME IInv, pc = "run", loader = "cursor", NEW times, NEW t,
         t = IF taken = none \/ ~More(taken) THEN 0 ELSE taken
  PROVE  /\ Batch(times, t) = Trail(loader, data, origin + micro)
         /\ Advanced(t) \in 1..Len(Share(data))
         /\ CursorAt(data, Advanced(t), origin + micro + 1)
<1> DEFINE L == Len(Share(data))
           n == PassLength(loader, data)
           c == origin + micro
           q == c % n
<1>1. L \in Nat \ {0} /\ n \in Nat \ {0} /\ BatchSize \in Nat \ {0}
      /\ c \in Nat /\ Typed
  BY ShareType, PassLengths, Setting DEF IInv, Typed
<1>2. q \in 0..(n - 1)
  <2>1. PICK m \in Nat \ {0}, a \in Nat : m = n /\ a = c
    BY <1>1
  <2>2. a % m \in 0..(m - 1)
    BY Division
  <2> QED
    BY <2>1, <2>2
<1>3. From(t) = q * BatchSize /\ From(t) < L
  BY TakesCursor
<1>4. n = (L + BatchSize - 1) \div BatchSize
  BY <1>1, ChunksLength DEF PassLength, PassOf
<1>5. Advanced(t) = Min2(From(t) + BatchSize, L)
  BY DEF Advanced, Slice, Share
<1>6. Batch(times, t) = SubSeq(Share(data), From(t) + 1, Advanced(t))
  BY DEF Batch, Slice, Share
<1>7. (c + 1) % n = IF q + 1 = n THEN 0 ELSE q + 1
  <2>1. PICK m \in Nat \ {0}, a \in Nat : m = n /\ a = c
    BY <1>1
  <2>2. (a + 1) % m = IF (a % m) + 1 = m THEN 0 ELSE (a % m) + 1
    BY NextPlace
  <2> QED
    BY <2>1, <2>2
<1>8. Trail(loader, data, c)
        = SubSeq(Share(data), ((1 + q) - 1) * BatchSize + 1,
                 Min2((1 + q) * BatchSize, L))
  <2>1. Trail(loader, data, c) = Chunks(Share(data), BatchSize)[1 + q]
    BY DEF Trail, PassOf
  <2>2. 1 + q \in 1..((L + BatchSize - 1) \div BatchSize)
    <3> HIDE DEF q, n
    <3> QED
      BY <1>1, <1>2, <1>4
  <2> HIDE DEF q
  <2> QED
    BY <2>1, <2>2 DEF Chunks
<1> HIDE DEF L, n, c, q
<1>9. PICK x \in Nat : x = q * BatchSize
  BY <1>1, <1>2
<1>10. ((1 + q) - 1) * BatchSize = x /\ (1 + q) * BatchSize = x + BatchSize
       /\ (q + 1) * BatchSize = x + BatchSize
  BY <1>1, <1>2, <1>9
<1>11. Batch(times, t) = Trail(loader, data, c)
  BY <1>3, <1>5, <1>6, <1>8, <1>9, <1>10
<1>12. Advanced(t) = IF x + BatchSize < L THEN x + BatchSize ELSE L
  BY <1>3, <1>5, <1>9 DEF Min2
<1>13. Advanced(t) \in 1..L
  BY <1>1, <1>12
<1>14. q + 1 \in Nat /\ (q + 1 < n <=> (q + 1) * BatchSize < L)
  BY <1>1, <1>2, <1>4, Ceiling
<1>15. CursorAt(data, Advanced(t), c + 1)
  <2>1. Advanced(t) # none
    BY <1>1, <1>13 DEF none
  <2>2. CASE x + BatchSize < L
    <3>1. (c + 1) % n = q + 1 /\ Advanced(t) = (q + 1) * BatchSize
          /\ ~ Advanced(t) >= L
      BY <1>1, <1>2, <1>7, <1>10, <1>12, <1>14, <2>2
    <3> QED
      BY <2>1, <3>1 DEF CursorAt, n, L
  <2>3. CASE ~ x + BatchSize < L
    <3>1. (c + 1) % n = 0 /\ Advanced(t) >= L
      BY <1>1, <1>2, <1>7, <1>10, <1>12, <1>14, <2>3
    <3> QED
      BY <3>1 DEF CursorAt, n, L
  <2> QED
    BY <2>2, <2>3
<1> QED
  BY <1>11, <1>13, <1>15 DEF c, L

\* A micro-step appends the next batch of the trail.
LEMMA FollowsOn ==
  ASSUME Typed, NEW o \in Nat, NEW m \in Nat, NEW s, Follows(data, m, s, o),
         NEW b, b = Trail(loader, data, o + m)
  PROVE  Follows(data, m + 1, Append(s, b), o)
<1>1. b \in AllBatches
  BY TrailIs
<1>2. s \in Seq(AllBatches) /\ Len(s) = m
      /\ \A k \in 1..m : s[k] = Trail(loader, data, o + k - 1)
  BY DEF Follows
<1>3. /\ Append(s, b) \in Seq(AllBatches) /\ Len(Append(s, b)) = m + 1
      /\ \A k \in 1..m : Append(s, b)[k] = s[k]
      /\ Append(s, b)[m + 1] = b
  BY <1>1, <1>2
<1>4. ASSUME NEW k \in 1..(m + 1)
      PROVE  Append(s, b)[k] = Trail(loader, data, o + k - 1)
  <2>1. CASE k = m + 1
    <3>1. o + k - 1 = o + m
      BY <2>1
    <3> QED
      BY <1>3, <2>1, <3>1
  <2>2. CASE k # m + 1
    <3>1. k \in 1..m
      BY <2>2
    <3> QED
      BY <1>2, <1>3, <3>1
  <2> QED
    BY <2>1, <2>2
<1> QED
  BY <1>3, <1>4 DEF Follows

\* A batch that is trained on is the next one of the uninterrupted run.
LEMMA MicroStepKeeps ==
  ASSUME IInv, MicroStep PROVE IInv'
<1> DEFINE anew == taken = none \/ ~More(taken)
           times == IF anew THEN draw + 1 ELSE draw
           t == IF anew THEN 0 ELSE taken
           n == PassLength(loader, data)
<1>1. /\ pc = "run" /\ pc' = "run"
      /\ loader' = loader /\ store' = store /\ data' = data /\ plan' = plan
      /\ seen' = Append(seen, Batch(times, t))
      /\ used' = used \union {data} /\ cursor' = Advanced(t)
      /\ draw' = times /\ taken' = t + 1 /\ micro' = micro + 1
      /\ replaying' = replaying /\ budget' = budget /\ trainers' = trainers
      /\ origin' = origin
  BY DEF MicroStep
<1>2. Typed /\ n \in Nat \ {0} /\ micro \in Nat /\ origin \in Nat
  BY PassLengths DEF IInv, Typed
<1>3. times \in Nat /\ t \in Nat
  BY <1>2 DEF Typed, none
<1>4. loader = "cursor" =>
        /\ Batch(times, t) = Trail(loader, data, origin + micro)
        /\ cursor' \in 1..Len(Share(data))
        /\ CursorAt(data, cursor', origin + micro + 1)
  BY <1>1, StepsCursor
<1>5. loader # "cursor" =>
        /\ times = 1 + (micro \div n) /\ t = micro % n
        /\ times \in Nat \ {0} /\ t \in 0..(n - 1)
        /\ micro = (times - 1) * n + t
        /\ cursor' = none /\ origin = 0
  <2> SUFFICES ASSUME loader # "cursor"
               PROVE /\ times = 1 + (micro \div n) /\ t = micro % n
                     /\ times \in Nat \ {0} /\ t \in 0..(n - 1)
                     /\ micro = (times - 1) * n + t
                     /\ cursor' = none /\ origin = 0
    OBVIOUS
  <2>1. cursor' = none /\ origin = 0
    BY <1>1 DEF IInv, Kept, Advanced
  <2> QED
    BY <1>1, <2>1, TakesReplayed
<1> HIDE DEF times, t, n
<1>6. Batch(times, t) = Trail(loader, data, origin + micro)
  <2>1. CASE loader = "cursor"
    BY <1>4, <2>1
  <2>2. CASE loader # "cursor"
    <3>1. Batch(times, t) = Pass(times)[t + 1]
      BY <2>2 DEF Batch
    <3>2. Trail(loader, data, micro)
            = Pass(1 + (micro \div n))[1 + (micro % n)]
      BY <1>2, TrailIs DEF n
    <3>3. times = 1 + (micro \div n) /\ t = micro % n /\ origin = 0
      BY <1>5, <2>2
    <3>4. origin + micro = micro /\ t + 1 = 1 + t
      BY <1>2, <1>3, <3>3
    <3> QED
      BY <3>1, <3>2, <3>3, <3>4
  <2> QED
    BY <2>1, <2>2
<1>7. Stored'
  BY <1>1, StoredStays DEF IInv
<1>8. Typed'
  <2>1. cursor' \in {none} \union 0..Len(Share(data))
    <3>1. Len(Share(data)) \in Nat
      BY <1>2, ShareType DEF Typed
    <3> QED
      BY <1>4, <1>5, <3>1
  <2>2. t + 1 \in Nat /\ micro + 1 \in Nat
    BY <1>2, <1>3
  <2> QED
    BY <1>1, <1>2, <1>3, <2>1, <2>2 DEF Typed, Passes
<1>9. Whole' /\ Kept'
  <2>1. CASE loader = "cursor"
    <3>1. cursor' \in 0..(Len(Share(data)) - 1) =>
            cursor' = (cursor' \div BatchSize) * BatchSize
      <4>1. PICK cur \in Nat, c \in Nat :
              cur = cursor' /\ c = origin + micro + 1
        BY <1>2, <1>4, <2>1, ShareType DEF Typed
      <4>2. CursorAt(data, cur, c)
        BY <1>4, <2>1, <4>1
      <4>3. cur \in 0..(Len(Share(data)) - 1) =>
              cur = (cur \div BatchSize) * BatchSize
        BY <1>2, <4>2, CursorWhole DEF Typed
      <4> QED
        BY <4>1, <4>3
    <3> QED
      BY <1>1, <2>1, <3>1 DEF Whole, Kept
  <2>2. CASE loader # "cursor"
    BY <1>1, <1>5, <2>2 DEF Whole, Kept, none
  <2> QED
    BY <2>1, <2>2
<1>10. Stands'
  <2>1. t + 1 # none
    BY <1>3 DEF none
  <2>2. CASE loader = "cursor"
    <3>1. cursor' # none /\ origin + (micro + 1) = origin + micro + 1
      BY <1>2, <1>4, <2>2, ShareType DEF none, Typed
    <3>2. CursorAt(data, cursor', origin' + micro')
      BY <1>1, <1>4, <2>2, <3>1
    <3> QED
      BY <1>1, <2>2, <3>1, <3>2 DEF Stands, CursorAt
  <2>3. CASE loader # "cursor"
    <3>1. micro + 1 = (times - 1) * n + (t + 1)
      <4>1. PICK x \in Nat : x = (times - 1) * n
        BY <1>2, <1>5, <2>3
      <4> QED
        BY <1>2, <1>3, <1>5, <2>3, <4>1
    <3>2. t \in 0..(n - 1) /\ times \in Nat \ {0}
      BY <1>5, <2>3
    <3>3. t + 1 \in 0..n
      BY <1>2, <3>2
    <3> QED
      BY <1>1, <2>1, <2>3, <3>1, <3>2, <3>3 DEF Stands, TakenAt, n
  <2> QED
    BY <2>2, <2>3
<1>11. Trained' /\ OneDataset'
  <2>1. Follows(data, micro, seen, origin) /\ used \subseteq {data}
    BY <1>1 DEF IInv, Trained
  <2>2. PICK b : b = Batch(times, t)
    OBVIOUS
  <2>3. Follows(data, micro + 1, Append(seen, b), origin)
    BY <1>2, <1>6, <2>1, <2>2, FollowsOn
  <2> QED
    BY <1>1, <1>2, <2>1, <2>2, <2>3
    DEF Trained, OneDataset, Follows, Typed
<1> QED
  BY <1>7, <1>8, <1>9, <1>10, <1>11 DEF IInv

\* What is stored agrees with what was trained on.
LEMMA SaveKeeps ==
  ASSUME IInv, Save PROVE IInv'
<1>1. /\ pc = "run" /\ micro > 0 /\ micro % Accumulation = 0
      /\ \A c \in store' : c \in store \/ c = Checkpoint
      /\ UNCHANGED <<loader, pc, data, plan, position, budget, micro,
                     trainers, history>>
  BY DEF Save
<1>2. Sound(Checkpoint)
  <2>1. Typed /\ micro \in Nat \ {0} /\ origin \in Nat
    BY <1>1 DEF IInv, Typed
  <2>2. Follows(data, micro, seen, origin) /\ used \subseteq {data}
    BY <1>1 DEF IInv, Trained
  <2>3. loader = "cursor" =>
          /\ SavedCursor \in 0..Len(Share(data))
          /\ CursorAt(data, SavedCursor, origin + micro)
    <3> SUFFICES ASSUME loader = "cursor"
                 PROVE  /\ SavedCursor \in 0..Len(Share(data))
                        /\ CursorAt(data, SavedCursor, origin + micro)
      OBVIOUS
    <3>1. CursorAt(data, cursor, origin + micro)
          /\ cursor \in {none} \union 0..Len(Share(data))
          /\ Len(Share(data)) \in Nat \ {0}
      BY <1>1, <2>1, ShareType DEF IInv, Stands, Typed
    <3>2. CASE cursor # none
      BY <3>1, <3>2 DEF SavedCursor
    <3>3. CASE cursor = none
      <4>1. SavedCursor = 0
        BY <3>3 DEF SavedCursor
      <4>2. (origin + micro) % PassLength(loader, data) = 0
        BY <3>1, <3>3 DEF CursorAt
      <4>3. 0 # none /\ ~ 0 >= Len(Share(data)) /\ 0 * BatchSize = 0
        BY <3>1, Setting DEF none
      <4> QED
        BY <3>1, <4>1, <4>2, <4>3 DEF CursorAt
    <3> QED
      BY <3>2, <3>3
  <2>4. loader # "cursor" => SavedCursor = none /\ origin = 0
    BY DEF SavedCursor, IInv, Kept
  <2> QED
    BY <1>1, <2>1, <2>2, <2>3, <2>4 DEF Sound, Checkpoint, Typed
<1>3. Stored'
  <2> SUFFICES ASSUME NEW c \in store' PROVE Sound(c)'
    BY DEF Stored
  <2>1. Sound(c)
    BY <1>1, <1>2 DEF IInv, Stored
  <2> QED
    BY <1>1, <2>1 DEF Sound, Follows, CursorAt
<1>4. Typed'
  BY <1>1 DEF IInv, Typed, history, position, Passes
<1>5. /\ Whole' /\ Kept' /\ Stands' /\ Trained' /\ OneDataset'
  BY <1>1
  DEF IInv, Whole, Kept, Stands, Trained, OneDataset, history, position,
      Follows, CursorAt, TakenAt
<1> QED
  BY <1>3, <1>4, <1>5 DEF IInv

\* Every step keeps the invariant.
LEMMA NextKeeps ==
  ASSUME Named, IInv, [Next]_vars PROVE IInv'
<1>1. CASE Open
  BY <1>1, OpenKeeps
<1>2. CASE TrainFresh
  BY <1>2, TrainFreshKeeps
<1>3. CASE Resume
  BY <1>3, ResumeKeeps
<1>4. CASE Refuse
  BY <1>4, RefuseKeeps
<1>5. CASE Skip
  BY <1>5, SkipKeeps
<1>6. CASE Rewind
  BY <1>6, RewindKeeps
<1>7. CASE MicroStep
  BY <1>7, MicroStepKeeps
<1>8. CASE Save
  BY <1>8, SaveKeeps
<1>9. CASE Again
  BY <1>9, LeaveKeeps DEF Again
<1>10. CASE Exit
  BY <1>10, LeaveKeeps DEF Exit
<1>11. CASE UNCHANGED vars
  <2>1. Stored'
    BY <1>11, StoredStays DEF IInv, vars
  <2>2. Typed'
    BY <1>11 DEF IInv, Typed, vars, history, position, Passes
  <2>3. /\ Whole' /\ Kept' /\ Stands' /\ Trained' /\ OneDataset'
    BY <1>11
    DEF IInv, Whole, Kept, Stands, Trained, OneDataset, vars, history,
        position, Follows, CursorAt, TakenAt
  <2> QED
    BY <2>1, <2>2, <2>3 DEF IInv
<1> QED
  BY <1>1, <1>2, <1>3, <1>4, <1>5, <1>6, <1>7, <1>8, <1>9, <1>10, <1>11
  DEF Next

-----------------------------------------------------------------------------
(* The shares of the ranks                                                  *)

\* The ranks own disjoint shares of one size, which with what is dropped make
\* up all batches; and locate() finds a batch in the shard and at the place the
\* global order gave it (plan_packed_batch_partition, locate).
LEMMA AlwaysPartitioned ==
  ASSUME NEW d \in Datasets
  PROVE  Partitioned(d)
<1> DEFINE counts == ShardBatches(Tokens[d], BatchTokens)
           order == Order(d)
           share == Shares[d]
<1>1. order \in Seq(Nat)
      /\ (\A i, j \in 1..Len(order) : i # j => order[i] # order[j])
      /\ Items(order) = 0..(Total(counts) - 1)
  BY CountsType, GlobalOrderIs DEF Order, Items
<1>2. World \in Nat \ {0} /\ Ranks = 0..(World - 1)
      /\ \A r \in Ranks : share[r] = RankBatches(order, World, r)
  BY Setting DEF Shares, Ranks
<1> HIDE DEF share
<1>3. ASSUME NEW r \in Ranks, NEW q \in Ranks
      PROVE  /\ Len(share[r]) = Len(share[q])
             /\ r # q => Items(share[r]) \intersect Items(share[q]) = {}
  <2>1. r \in 0..(World - 1) /\ q \in 0..(World - 1)
    BY <1>2
  <2> HIDE DEF order
  <2>2. Len(share[r]) = Len(share[q])
    BY <1>1, <1>2, <2>1, EqualShares
  <2>3. ASSUME NEW x \in 0..(World - 1), NEW y \in 0..(World - 1), x < y
        PROVE  \A i \in 1..Len(share[x]) : \A j \in 1..Len(share[y]) :
                 share[x][i] # share[y][j]
    <3>1. /\ share[x] = RankBatches(order, World, x)
          /\ share[y] = RankBatches(order, World, y)
      BY <1>2
    <3> QED
      BY <1>1, <1>2, <2>3, <3>1, DisjointShares
  <2>5. r # q => r < q \/ q < r
    BY <1>2, <2>1
  <2> QED
    BY <2>1, <2>2, <2>3, <2>5 DEF Items
<1>4. (UNION {Items(share[r]) : r \in Ranks}) \union Items(Dropped(order, World))
        = 0..(Total(counts) - 1)
  <2> HIDE DEF order, counts
  <2>1. (UNION {Items(RankBatches(order, World, r)) : r \in 0..(World - 1)})
          \union Items(Dropped(order, World)) = Items(order)
    BY <1>1, <1>2, SharesCover
  <2>2. \A r \in Ranks : Items(share[r]) = Items(RankBatches(order, World, r))
    BY <1>2
  <2>3. {Items(share[r]) : r \in Ranks}
          = {Items(RankBatches(order, World, r)) : r \in 0..(World - 1)}
    BY <1>2, <2>2
  <2> QED
    BY <1>1, <2>1, <2>3
<1>5. ASSUME NEW s \in 1..Len(counts), NEW j \in 0..(counts[s] - 1)
      PROVE  LET at == Locate(counts, BatchTokens, Cumulative(counts)[s - 1] + j)
             IN /\ at.shard = s /\ at.local = j
                /\ at.offset + BatchTokens <= Tokens[d][s]
  <2>1. counts \in Seq(Nat) /\ Tokens[d][s] \in Nat
        /\ counts[s] * BatchTokens <= Tokens[d][s]
    BY CountsType
  <2> HIDE DEF counts
  <2>2. PICK n \in Nat, w \in Nat, t \in Nat :
        n = counts[s] /\ w = BatchTokens /\ t = Tokens[d][s]
    BY <2>1, Setting, ElementOfSeq
  <2>3. j \in Nat /\ j + 1 <= n /\ j + 1 \in Nat
    BY <2>2
  <2>4. (j + 1) * w <= n * w
    BY <2>3, Monotone
  <2>5. (j + 1) * w = j * w + w /\ j * w \in Nat /\ n * w \in Nat
    BY <2>3
  <2>6. j * w + w <= t
    BY <2>1, <2>2, <2>4, <2>5
  <2>7. Locate(counts, BatchTokens, Cumulative(counts)[s - 1] + j)
          = [shard |-> s, local |-> j, offset |-> j * BatchTokens]
    BY <2>1, LocateIs
  <2> QED
    BY <2>2, <2>6, <2>7
<1> HIDE DEF counts, order
<1> QED
  BY <1>3, <1>4, <1>5 DEF Partitioned, counts, order, share, Items

-----------------------------------------------------------------------------
(* Batches that hold every sample once                                      *)

\* The places in the batches of P: batch and place within it.
Slots(P) == {p \in (1..Len(P)) \X Nat : p[2] \in 1..Len(P[p[1]])}

\* By f the batches of P hold what s lists, each item in one place.
Deals(f, P, s) ==
  /\ \A i \in 1..Len(P) : Len(P[i]) \in Nat
  /\ f \in [Slots(P) -> 1..Len(s)]
  /\ \A p, q \in Slots(P) : f[p] = f[q] => p = q
  /\ \A i \in 1..Len(s) : \E p \in Slots(P) : f[p] = i
  /\ \A p \in Slots(P) : P[p[1]][p[2]] = s[f[p]]

\* A flattened sequence holds the items of its members.
LEMMA FlattenDeals ==
  ASSUME NEW S, NEW s \in Seq(Seq(S))
  PROVE  \E f : Deals(f, s, FlattenSeq(s))
<1> DEFINE c == Lengths(s)
           C == Cumulative(c)
           flat == FlattenSeq(s)
           f == [p \in Slots(s) |-> C[p[1] - 1] + p[2]]
<1>1. /\ c \in Seq(Nat) /\ Len(c) = Len(s)
      /\ \A k \in 1..Len(s) : c[k] = Len(s[k])
  BY LengthsType
<1>2. /\ Len(flat) = Total(c)
      /\ \A a \in 1..Len(s) : \A b \in 1..Len(s[a]) :
           flat[C[a - 1] + b] = s[a][b]
  BY FlattenItems
<1> HIDE DEF c, flat
<1>3. \A p \in Slots(s) : p = <<p[1], p[2]>> /\ p[1] \in 1..Len(s)
                          /\ p[2] \in 1..Len(s[p[1]])
  BY DEF Slots
<1>4. ASSUME NEW a \in 1..Len(s), NEW b \in 1..Len(s[a])
      PROVE  <<a, b>> \in Slots(s) /\ f[<<a, b>>] = C[a - 1] + b
  <2>1. b \in Nat
    <3>1. Len(s[a]) \in Nat
      BY ElementOfSeq
    <3> QED
      BY <3>1
  <2>2. <<a, b>> \in Slots(s)
    BY <2>1 DEF Slots
  <2> QED
    BY <2>2
<1>5. ASSUME NEW p \in Slots(s)
      PROVE  /\ f[p] \in 1..Len(flat) /\ f[p] = C[p[1] - 1] + p[2]
             /\ s[p[1]][p[2]] = flat[f[p]]
  <2>1. p[1] \in 1..Len(c) /\ p[2] \in 1..c[p[1]]
    BY <1>1, <1>3
  <2>2. C[p[1] - 1] + p[2] \in 1..Len(flat)
    BY <1>1, <1>2, <2>1, PartWithin
  <2>3. f[p] = C[p[1] - 1] + p[2]
    OBVIOUS
  <2> QED
    BY <1>2, <1>3, <2>2, <2>3
<1>6. ASSUME NEW p \in Slots(s), NEW q \in Slots(s), f[p] = f[q]
      PROVE  p = q
  <2>1. C[p[1] - 1] + p[2] = C[q[1] - 1] + q[2]
    BY <1>5, <1>6
  <2>2. p[1] \in 1..Len(c) /\ p[2] \in 1..c[p[1]]
        /\ q[1] \in 1..Len(c) /\ q[2] \in 1..c[q[1]]
    BY <1>1, <1>3
  <2>3. PICK a \in 1..Len(c), b \in 1..c[p[1]],
             e \in 1..Len(c), d \in 1..c[q[1]] :
        a = p[1] /\ b = p[2] /\ e = q[1] /\ d = q[2]
    BY <2>2
  <2>4. a = e /\ b = d
    <3>1. Cumulative(c)[a - 1] + b = Cumulative(c)[e - 1] + d
      BY <2>1, <2>3
    <3>2. c \in Seq(Nat) /\ b \in 1..c[a] /\ d \in 1..c[e]
      BY <1>1, <2>3
    <3> HIDE DEF f, C
    <3> QED
      BY <3>1, <3>2, InNoOther
  <2> QED
    BY <1>3, <2>3, <2>4
<1>7. ASSUME NEW i \in 1..Len(flat) PROVE \E p \in Slots(s) : f[p] = i
  <2>0. i \in 1..Total(c)
    BY <1>2
  <2>1. PICK a \in 1..Len(c) : \E b \in 1..c[a] : i = C[a - 1] + b
    <3> HIDE DEF f
    <3> QED
      BY <1>1, <2>0, InOnePart
  <2>2. PICK b \in 1..c[a] : i = C[a - 1] + b
    BY <2>1
  <2>3. a \in 1..Len(s) /\ b \in 1..Len(s[a])
    BY <1>1
  <2> HIDE DEF f
  <2> QED
    BY <1>4, <2>2, <2>3
<1>8. f \in [Slots(s) -> 1..Len(flat)]
  BY <1>5
<1> HIDE DEF f
<1>9. Deals(f, s, flat)
  BY <1>5, <1>6, <1>7, <1>8 DEF Deals
<1> QED
  BY <1>9 DEF flat

\* The batches of a reader hold every sample once.
LEMMA ChunksDeal ==
  ASSUME NEW S, NEW s \in Seq(S), NEW b \in Nat \ {0}
  PROVE  \E f : Deals(f, Chunks(s, b), s)
<1> DEFINE P == Chunks(s, b)
           N == Len(P)
           L == Len(s)
           f == [p \in Slots(P) |-> (p[1] - 1) * b + p[2]]
<1>1. L \in Nat
  BY LenProperties
<1>2. /\ N = (L + b - 1) \div b /\ N \in Nat
      /\ \A q \in Nat : L # 0 => (q < N <=> q * b < L)
  <2>1. L + b - 1 \in Nat
    BY <1>1
  <2>2. (L + b - 1) \div b \in Nat
    BY <2>1, Division
  <2>3. N = (L + b - 1) \div b
    BY <2>2 DEF Chunks
  <2> HIDE DEF N, L
  <2> QED
    BY <1>1, <2>2, <2>3, Ceiling
<1>3. ASSUME NEW k \in 1..N, NEW a \in Int, a = (k - 1) * b
      PROVE  /\ a \in Nat
             /\ \E m \in 1..b :
                  /\ Len(P[k]) = m /\ a + m <= L /\ (m < b => a + m = L)
                  /\ \A x \in 1..m : P[k][x] = s[a + x]
  <2> DEFINE m == Min2(b, L - a)
  <2>1. k - 1 \in Nat /\ k - 1 < N /\ k \in Nat
    <3> HIDE DEF N
    <3> QED
      BY <1>2
  <2>2. P[k] = SubSeq(s, (k - 1) * b + 1, Min2(k * b, L))
    <3>1. P = [i \in 1..N |-> SubSeq(s, (i - 1) * b + 1, Min2(i * b, L))]
      BY <1>2 DEF Chunks
    <3> HIDE DEF P, N
    <3> QED
      BY <3>1
  <2> HIDE DEF f, P, N
  <2>3. a \in Nat /\ a < L /\ k * b = a + b
    <3>1. L # 0
      <4> SUFFICES ASSUME L = 0 PROVE FALSE
        OBVIOUS
      <4>1. b - 1 \in Nat /\ L + b - 1 = b - 1
        BY <1>1
      <4>2. PICK q \in Nat, r \in 0..(b - 1) : N = q /\ b - 1 = q * b + r
        BY <1>2, <4>1, Division
      <4>3. 1 * b <= q * b
        BY <2>1, <4>2, Monotone
      <4>4. q * b \in Nat
        BY <4>2
      <4> QED
        BY <4>2, <4>3, <4>4
    <3>2. (k - 1) * b < L
      BY <1>2, <2>1, <3>1
    <3>3. (k - 1) * b \in Nat /\ k * b = (k - 1) * b + b
      BY <2>1
    <3> QED
      BY <1>3, <3>2, <3>3
  <2> HIDE DEF L
  <2>4. /\ m \in 1..b /\ m \in Nat \ {0} /\ a + m <= L
        /\ Min2(a + b, L) = a + m /\ (m < b => a + m = L)
    BY <1>1, <2>3 DEF Min2
  <2>5. P[k] = SubSeq(s, a + 1, a + m)
    BY <1>3, <2>2, <2>3, <2>4
  <2> HIDE DEF m
  <2>6. \A i \in (a + 1)..(a + m) : s[i] \in S
    <3>1. \A i \in (a + 1)..(a + m) : i \in 1..Len(s)
      BY <1>1, <2>3, <2>4 DEF L
    <3> QED
      BY <3>1, ElementOfSeq
  <2>7. a + 1 \in Int /\ a + m \in Int
    BY <2>3, <2>4
  <2>8. /\ Len(SubSeq(s, a + 1, a + m)) =
             IF a + 1 <= a + m THEN (a + m) - (a + 1) + 1 ELSE 0
        /\ \A x \in 1..((a + m) - (a + 1) + 1) :
             SubSeq(s, a + 1, a + m)[x] = s[(a + 1) + x - 1]
    BY <2>6, <2>7, SubSeqProperties
  <2>9. (a + m) - (a + 1) + 1 = m /\ a + 1 <= a + m
        /\ \A x \in 1..m : (a + 1) + x - 1 = a + x
    BY <2>3, <2>4
  <2>10. Len(P[k]) = m /\ \A x \in 1..m : P[k][x] = s[a + x]
    BY <2>5, <2>8, <2>9
  <2> QED
    BY <2>3, <2>4, <2>10
<1>9. ASSUME NEW p \in Slots(P)
      PROVE  /\ p = <<p[1], p[2]>> /\ p[1] \in 1..N /\ p[1] - 1 \in Nat
             /\ p[2] \in 1..Len(P[p[1]]) /\ p[2] \in 1..b
             /\ f[p] = (p[1] - 1) * b + p[2] /\ f[p] \in 1..L
             /\ P[p[1]][p[2]] = s[f[p]]
  <2>1. p = <<p[1], p[2]>> /\ p[1] \in 1..N /\ p[2] \in 1..Len(P[p[1]])
        /\ p[2] \in Nat
    BY DEF Slots
  <2>2. f[p] = (p[1] - 1) * b + p[2]
    OBVIOUS
  <2> HIDE DEF f, P
  <2>3. PICK a \in Nat, m \in 1..b, x \in Nat :
        /\ a = (p[1] - 1) * b /\ m = Len(P[p[1]]) /\ x = p[2]
        /\ a + m <= L /\ x \in 1..m
        /\ P[p[1]][x] = s[a + x]
    <3>1. PICK a \in Int : a = (p[1] - 1) * b
      BY <1>2, <2>1
    <3>2. PICK m \in 1..b :
          /\ a \in Nat /\ Len(P[p[1]]) = m /\ a + m <= L
          /\ \A y \in 1..m : P[p[1]][y] = s[a + y]
      BY <1>3, <2>1, <3>1
    <3> QED
      BY <2>1, <3>1, <3>2
  <2> HIDE DEF L, N
  <2>5. a + x \in 1..L /\ x \in 1..b
    <3>1. a + m <= L /\ x \in 1..m
      BY <2>3
    <3> QED
      BY <1>1, <3>1
  <2>6. p[1] - 1 \in Nat
    BY <1>2, <2>1
  <2> QED
    BY <2>1, <2>2, <2>3, <2>5, <2>6
<1>4. ASSUME NEW k \in 1..N, NEW x \in 1..Len(P[k])
      PROVE  <<k, x>> \in Slots(P) /\ f[<<k, x>>] = (k - 1) * b + x
  <2>1. Len(P[k]) \in 1..b
    BY <1>3
  <2>2. <<k, x>> \in Slots(P)
    BY <2>1 DEF Slots
  <2> QED
    BY <2>2
<1>5. f \in [Slots(P) -> 1..L]
  BY <1>9
<1>6. ASSUME NEW p \in Slots(P), NEW q \in Slots(P), f[p] = f[q]
      PROVE  p = q
  <2>1. PICK j, k \in Nat, x, y \in 1..b :
        j = p[1] - 1 /\ x = p[2] /\ k = q[1] - 1 /\ y = q[2]
    BY <1>9
  <2>2. j * b + x = k * b + y
    BY <1>9, <1>6, <2>1
  <2>3. PICK v \in Nat : v = j * b + (x - 1) /\ v = k * b + (y - 1)
    BY <2>2
  <2>4. x - 1 \in 0..(b - 1) /\ y - 1 \in 0..(b - 1)
    OBVIOUS
  <2>5. v \div b = j /\ v % b = x - 1 /\ v \div b = k /\ v % b = y - 1
    <3>1. PICK g \in 0..(b - 1), h \in 0..(b - 1) : g = x - 1 /\ h = y - 1
      BY <2>4
    <3>2. v = j * b + g /\ v = k * b + h
      BY <2>3, <3>1
    <3> HIDE DEF f, P, N, L
    <3>3. v \div b = j /\ v % b = g
      BY <3>2, QuotientIs
    <3>4. v \div b = k /\ v % b = h
      BY <3>2, QuotientIs
    <3> QED
      BY <3>1, <3>3, <3>4
  <2>6. p[1] = q[1] /\ p[2] = q[2]
    <3> HIDE DEF f, P, N, L
    <3>1. p[1] \in Int /\ q[1] \in Int
      BY <1>2, <1>9
    <3>2. j = k /\ x = y
      BY <2>5
    <3> QED
      BY <2>1, <3>1, <3>2
  <2> QED
    BY <1>9, <2>6
<1>7. ASSUME NEW i \in 1..L PROVE \E p \in Slots(P) : f[p] = i
  <2>1. i - 1 \in Nat
    BY <1>1
  <2>2. PICK q \in Nat, r \in 0..(b - 1) : i - 1 = q * b + r
    BY <2>1, Division
  <2>3. q * b \in Nat /\ q * b < L
    BY <1>1, <2>2
  <2>4. q + 1 \in 1..N /\ (q + 1) - 1 = q
    <3> HIDE DEF f, P, N, L
    <3>1. L # 0 /\ q < N
      BY <1>1, <1>2, <2>2, <2>3
    <3> QED
      BY <1>2, <2>2, <3>1
  <2>5. PICK a \in Int : a = q * b /\ a = ((q + 1) - 1) * b
    BY <2>3, <2>4
  <2>6. r + 1 \in 1..Len(P[q + 1])
    <3>1. PICK m \in 1..b : Len(P[q + 1]) = m /\ (m < b => a + m = L)
      BY <1>3, <2>4, <2>5
    <3>2. i - 1 = a + r /\ i <= L /\ r \in 0..(b - 1)
      BY <1>1, <2>2, <2>5
    <3> HIDE DEF f, P, N, L
    <3> QED
      BY <1>1, <3>1, <3>2
  <2>7. /\ <<q + 1, r + 1>> \in Slots(P)
        /\ f[<<q + 1, r + 1>>] = ((q + 1) - 1) * b + (r + 1)
    <3> HIDE DEF f, P, N, L
    <3> QED
      BY <1>4, <2>4, <2>6
  <2>8. ((q + 1) - 1) * b + (r + 1) = i
    BY <2>2, <2>3, <2>4
  <2> HIDE DEF f
  <2> QED
    BY <2>7, <2>8
<1> HIDE DEF f
<1>8. Deals(f, P, s)
  BY <1>9, <1>5, <1>6, <1>7 DEF Deals
<1> QED
  BY <1>8

\* Batches of a permuted sequence hold the items of the sequence itself.
LEMMA Reordered ==
  ASSUME NEW P, NEW r, NEW s, NEW g, NEW f,
         Len(r) = Len(s), g \in [1..Len(s) -> 1..Len(s)],
         \A i, j \in 1..Len(s) : g[i] = g[j] => i = j,
         \A y \in 1..Len(s) : \E x \in 1..Len(s) : g[x] = y,
         \A i \in 1..Len(s) : r[i] = s[g[i]],
         Deals(f, P, r)
  PROVE  \E h : Deals(h, P, s)
<1> DEFINE h == [p \in Slots(P) |-> g[f[p]]]
           D == Slots(P)
           I == 1..Len(s)
<1>1. /\ f \in [D -> I] /\ \A p, q \in D : f[p] = f[q] => p = q
      /\ \A i \in I : \E p \in D : f[p] = i
      /\ \A p \in D : P[p[1]][p[2]] = r[f[p]]
  BY DEF Deals
<1>2. \A p \in D : h[p] = g[f[p]]
  OBVIOUS
<1>3. h \in [D -> I]
  BY <1>1
<1> HIDE DEF h, D, I
<1>4. \A p, q \in D : h[p] = h[q] => p = q
  BY <1>1, <1>2 DEF I
<1>5. ASSUME NEW y \in I PROVE \E p \in D : h[p] = y
  <2>1. PICK x \in I : g[x] = y
    BY DEF I
  <2>2. PICK p \in D : f[p] = x
    BY <1>1, <2>1
  <2> QED
    BY <1>2, <2>1, <2>2
<1>6. ASSUME NEW p \in D PROVE P[p[1]][p[2]] = s[h[p]]
  <2>1. PICK i \in I : i = f[p]
    BY <1>1
  <2>2. P[p[1]][p[2]] = r[i] /\ h[p] = g[i]
    BY <1>1, <1>2, <2>1
  <2>3. r[i] = s[g[i]]
    BY <2>1 DEF I
  <2> QED
    BY <2>2, <2>3
<1> QED
  BY <1>3, <1>4, <1>5, <1>6 DEF Deals, D, I

\* Batches of batches: each list of `of` deals out one list of `parts`, these
\* deal out s, and P is all batches of `of` in some order.
LEMMA Regrouped ==
  ASSUME NEW W \in Nat, NEW parts, NEW of, NEW P, NEW s,
         Len(parts) = W, Len(of) = W,
         NEW e, Deals(e, parts, s), NEW pos, Deals(pos, of, P),
         NEW h, \A w \in 1..W : Deals(h[w], of[w], parts[w])
  PROVE  \E f : Deals(f, P, s)
<1> DEFINE at(j) == CHOOSE a \in Slots(of) : pos[a] = j
           in(p) == <<at(p[1])[2], p[2]>>
           to(p) == <<at(p[1])[1], h[at(p[1])[1]][in(p)]>>
           f == [p \in Slots(P) |-> e[to(p)]]
<1>1. ASSUME NEW p \in Slots(P)
      PROVE  /\ p = <<p[1], p[2]>> /\ p[1] \in 1..Len(P) /\ p[2] \in Nat
             /\ p[2] \in 1..Len(P[p[1]])
             /\ at(p[1]) \in Slots(of) /\ pos[at(p[1])] = p[1]
             /\ at(p[1])[1] \in 1..W
             /\ at(p[1]) = <<at(p[1])[1], at(p[1])[2]>>
  <2>1. /\ p = <<p[1], p[2]>> /\ p[1] \in 1..Len(P) /\ p[2] \in Nat
        /\ p[2] \in 1..Len(P[p[1]])
    BY DEF Slots
  <2>2. \E a \in Slots(of) : pos[a] = p[1]
    BY <2>1 DEF Deals
  <2>3. at(p[1]) \in Slots(of) /\ pos[at(p[1])] = p[1]
    BY <2>2
  <2> HIDE DEF at
  <2>4. at(p[1])[1] \in 1..W /\ at(p[1]) = <<at(p[1])[1], at(p[1])[2]>>
    BY <2>3 DEF Slots
  <2> QED
    BY <2>1, <2>3, <2>4
<1> HIDE DEF at
<1>2. ASSUME NEW p \in Slots(P)
      PROVE  LET w == at(p[1])[1]
             IN /\ in(p) \in Slots(of[w])
                /\ h[w][in(p)] \in 1..Len(parts[w])
                /\ P[p[1]][p[2]] = parts[w][h[w][in(p)]]
  <2> DEFINE w == at(p[1])[1]
             t == at(p[1])[2]
  <2>1. P[p[1]] = of[w][t] /\ w \in 1..W /\ t \in 1..Len(of[w])
    <3>1. \A a \in Slots(of) : /\ of[a[1]][a[2]] = P[pos[a]]
                               /\ a[2] \in 1..Len(of[a[1]])
      BY DEF Deals, Slots
    <3> QED
      BY <1>1, <3>1
  <2>2. in(p) \in Slots(of[w])
    <3> HIDE DEF w, t
    <3>1. <<t, p[2]>> \in Slots(of[w])
      BY <1>1, <2>1 DEF Slots
    <3> QED
      BY <3>1 DEF t, w
  <2>3. Deals(h[w], of[w], parts[w])
    BY <2>1
  <2>4. in(p)[1] = t /\ in(p)[2] = p[2]
    OBVIOUS
  <2> HIDE DEF w, t, in
  <2>5. /\ h[w][in(p)] \in 1..Len(parts[w])
        /\ of[w][t][p[2]] = parts[w][h[w][in(p)]]
    BY <2>2, <2>3, <2>4 DEF Deals
  <2> QED
    BY <2>1, <2>2, <2>5 DEF w
<1>3. ASSUME NEW p \in Slots(P)
      PROVE  to(p) \in Slots(parts) /\ P[p[1]][p[2]] = s[e[to(p)]]
  <2> DEFINE w == at(p[1])[1]
             i == h[w][in(p)]
  <2>1. w \in 1..W /\ i \in 1..Len(parts[w]) /\ P[p[1]][p[2]] = parts[w][i]
    BY <1>1, <1>2
  <2> HIDE DEF w, i
  <2>2. <<w, i>> \in Slots(parts)
    <3>1. i \in Nat
      BY <2>1
    <3> QED
      BY <2>1, <3>1 DEF Slots
  <2>3. parts[w][i] = s[e[<<w, i>>]]
    BY <2>2 DEF Deals
  <2> QED
    BY <2>1, <2>2, <2>3 DEF w, i
<1>4. \A p \in Slots(P) : f[p] = e[to(p)]
  OBVIOUS
<1>5. f \in [Slots(P) -> 1..Len(s)]
  BY <1>3 DEF Deals
<1>6. ASSUME NEW p \in Slots(P), NEW q \in Slots(P), f[p] = f[q]
      PROVE  p = q
  <2>1. to(p) = to(q)
    <3> HIDE DEF f, to
    <3> QED
      BY <1>3, <1>4, <1>6 DEF Deals
  <2>2. at(p[1])[1] = at(q[1])[1]
        /\ h[at(p[1])[1]][in(p)] = h[at(p[1])[1]][in(q)]
    <3> HIDE DEF in
    <3> QED
      BY <2>1
  <2> DEFINE w == at(p[1])[1]
  <2>3. w \in 1..W /\ in(p) \in Slots(of[w]) /\ in(q) \in Slots(of[w])
    BY <1>1, <1>2, <2>2
  <2>4. in(p) = in(q)
    <3> HIDE DEF in, w
    <3>1. Deals(h[w], of[w], parts[w])
      BY <2>3
    <3>2. h[w][in(p)] = h[w][in(q)]
      BY <2>2 DEF w
    <3> QED
      BY <2>3, <3>1, <3>2 DEF Deals
  <2>5. at(p[1])[2] = at(q[1])[2] /\ p[2] = q[2]
    BY <2>4
  <2>6. at(p[1]) = at(q[1])
    BY <1>1, <2>2, <2>5
  <2>7. p[1] = q[1]
    BY <1>1, <2>6
  <2> QED
    BY <1>1, <2>5, <2>7
<1>7. ASSUME NEW y \in 1..Len(s) PROVE \E p \in Slots(P) : f[p] = y
  <2>1. PICK b \in Slots(parts) : e[b] = y
    BY DEF Deals
  <2>2. PICK w \in 1..W, i \in Nat :
          b = <<w, i>> /\ i \in 1..Len(parts[w])
    BY DEF Slots
  <2>3. PICK c \in Slots(of[w]) : h[w][c] = i
    BY <2>2 DEF Deals
  <2>4. PICK t \in 1..Len(of[w]), x \in Nat :
          c = <<t, x>> /\ x \in 1..Len(of[w][t])
    BY <2>3 DEF Slots
  <2>5. <<w, t>> \in Slots(of)
    <3>1. t \in Nat
      BY <2>4
    <3> QED
      BY <2>2, <2>4, <3>1 DEF Slots
  <2>6. PICK j \in 1..Len(P) : j = pos[<<w, t>>] /\ P[j] = of[w][t]
    <3>1. pos \in [Slots(of) -> 1..Len(P)]
          /\ \A a \in Slots(of) : of[a[1]][a[2]] = P[pos[a]]
      BY DEF Deals
    <3>2. <<w, t>>[1] = w /\ <<w, t>>[2] = t
      OBVIOUS
    <3> QED
      BY <2>5, <3>1, <3>2
  <2>7. at(j) = <<w, t>>
    BY <2>5, <2>6 DEF Deals, at
  <2>8. <<j, x>> \in Slots(P)
    BY <2>4, <2>6 DEF Slots
  <2>9. to(<<j, x>>) = b
    BY <2>2, <2>3, <2>4, <2>7
  <2> HIDE DEF f, to
  <2> QED
    BY <1>4, <2>1, <2>8, <2>9
<1> HIDE DEF f
<1>8. \A p \in Slots(P) : P[p[1]][p[2]] = s[f[p]]
  <2> HIDE DEF to
  <2> QED
    BY <1>3, <1>4
<1>9. Deals(f, P, s)
  BY <1>5, <1>6, <1>7, <1>8 DEF Deals
<1> QED
  BY <1>9

\* The workers' batches, asked for in turns, come out once each: `lists` are
\* the batches of each worker, and no worker has more than n.
LEMMA TurnsDeal ==
  ASSUME NEW of, NEW W \in Nat \ {0}, NEW n \in Nat, NEW lists,
         Len(lists) = W,
         \A w \in 1..W : lists[w] = of[w - 1] /\ Len(lists[w]) \in 0..n
  PROVE  LET rows == [turn \in 1..n |-> Row(of, W, turn)]
         IN \E pos : Deals(pos, lists, FlattenSeq(rows))
<1> DEFINE G == Given(of, W)
           parts(t) == [i \in 1..W |-> Asked(of, t, i - 1)]
           rows == [turn \in 1..n |-> Row(of, W, turn)]
           flat == FlattenSeq(rows)
           h(t) == CHOOSE f : Deals(f, parts(t), Row(of, W, t))
<1>1. ASSUME NEW t \in 1..n
      PROVE  /\ Deals(h(t), parts(t), Row(of, W, t))
             /\ Row(of, W, t) \in Seq(G)
  <2>1. \A i \in 1..W : i - 1 \in 0..(W - 1)
    OBVIOUS
  <2>2. ASSUME NEW i \in 1..W PROVE Asked(of, t, i - 1) \in Seq(G)
    <3>1. of[i - 1][t] \in G
      BY <2>1 DEF Given
    <3> HIDE DEF G
    <3>2. <<of[i - 1][t]>> \in Seq(G) /\ <<>> \in Seq(G)
      BY <3>1
    <3> QED
      BY <3>2 DEF Asked
  <2>3. parts(t) \in Seq(Seq(G))
    <3> HIDE DEF G
    <3> QED
      BY <2>2
  <2>4. Row(of, W, t) = FlattenSeq(parts(t))
    BY DEF Row
  <2>5. Row(of, W, t) \in Seq(G)
    BY RowType
  <2> HIDE DEF parts, G
  <2>6. \E f : Deals(f, parts(t), Row(of, W, t))
    BY <2>3, <2>4, FlattenDeals
  <2> QED
    BY <2>5, <2>6
<1>2. PICK g : Deals(g, rows, flat)
  <2> HIDE DEF G
  <2>1. rows \in Seq(Seq(G))
    <3>1. \A t \in 1..n : Row(of, W, t) \in Seq(G)
      BY <1>1
    <3> HIDE DEF h, parts
    <3> QED
      BY <3>1
  <2> HIDE DEF rows
  <2> QED
    BY <2>1, FlattenDeals
<1>3. ASSUME NEW t \in 1..n
      PROVE  /\ rows[t] = Row(of, W, t) /\ Len(rows) = n
             /\ Len(parts(t)) = W
             /\ \A w \in 1..W : parts(t)[w] =
                  IF t <= Len(lists[w]) THEN <<lists[w][t]>> ELSE <<>>
  <2>1. \A w \in 1..W : Asked(of, t, w - 1) =
          IF t <= Len(lists[w]) THEN <<lists[w][t]>> ELSE <<>>
    BY DEF Asked
  <2> QED
    BY <2>1
<1> HIDE DEF parts, rows, flat, h, G
<1>4. ASSUME NEW t \in 1..n, NEW c \in Slots(parts(t))
      PROVE  /\ c = <<c[1], 1>> /\ c[1] \in 1..W
             /\ t \in 1..Len(lists[c[1]])
  <2>1. c = <<c[1], c[2]>> /\ c[1] \in 1..W /\ c[2] \in 1..Len(parts(t)[c[1]])
    <3>1. c \in (1..Len(parts(t))) \X Nat /\ c[2] \in 1..Len(parts(t)[c[1]])
      BY DEF Slots
    <3>2. Len(parts(t)) = W
      BY <1>3
    <3> QED
      BY <3>1, <3>2
  <2>2. CASE t <= Len(lists[c[1]])
    <3>1. parts(t)[c[1]] = <<lists[c[1]][t]>>
      BY <1>3, <2>1, <2>2
    <3>2. Len(lists[c[1]]) \in 0..n
      BY <2>1
    <3> QED
      BY <2>1, <2>2, <3>1, <3>2
  <2>3. CASE ~ t <= Len(lists[c[1]])
    <3>1. parts(t)[c[1]] = <<>>
      BY <1>3, <2>1, <2>3
    <3> QED
      BY <2>1, <3>1
  <2> QED
    BY <2>2, <2>3
<1> DEFINE D == Slots(lists)
           u(a) == h(a[2])[<<a[1], 1>>]
           pos == [a \in D |-> g[<<a[2], u(a)>>]]
<1>5. ASSUME NEW a \in D
      PROVE  /\ a = <<a[1], a[2]>> /\ a[1] \in 1..W /\ a[2] \in 1..n
             /\ <<a[1], 1>> \in Slots(parts(a[2]))
             /\ u(a) \in 1..Len(rows[a[2]])
             /\ <<a[2], u(a)>> \in Slots(rows)
             /\ lists[a[1]][a[2]] = flat[g[<<a[2], u(a)>>]]
             /\ pos[a] = g[<<a[2], u(a)>>]
  <2>1. a = <<a[1], a[2]>> /\ a[1] \in 1..W /\ a[2] \in 1..Len(lists[a[1]])
        /\ a[2] \in Nat
    BY DEF Slots
  <2>2. a[2] \in 1..n /\ a[2] <= Len(lists[a[1]])
    <3>1. Len(lists[a[1]]) \in 0..n
      BY <2>1
    <3> QED
      BY <2>1, <3>1
  <2>3. PICK w \in 1..W, t \in 1..n :
          w = a[1] /\ t = a[2] /\ t <= Len(lists[w])
    BY <2>1, <2>2
  <2>4. parts(t)[w] = <<lists[w][t]>>
    BY <1>3, <2>3
  <2>5. <<w, 1>> \in Slots(parts(t))
    <3>1. Len(parts(t)[w]) = 1
      BY <2>4
    <3>2. w \in 1..Len(parts(t))
      BY <1>3
    <3>3. <<w, 1>> \in (1..Len(parts(t))) \X Nat
      BY <3>2
    <3>4. PICK c : c = <<w, 1>>
      OBVIOUS
    <3>5. c[1] = w /\ c[2] = 1 /\ c[2] \in 1..Len(parts(t)[c[1]])
      <4>1. c[1] = w /\ c[2] = 1
        BY <3>4
      <4>2. 1 \in 1..Len(parts(t)[w])
        BY <3>1
      <4> QED
        BY <4>1, <4>2
    <3> HIDE DEF D, u, pos
    <3> QED
      BY <3>3, <3>4, <3>5 DEF Slots
  <2>6. /\ h(t)[<<w, 1>>] \in 1..Len(Row(of, W, t))
        /\ parts(t)[w][1] = Row(of, W, t)[h(t)[<<w, 1>>]]
    BY <1>1, <2>5 DEF Deals
  <2>7. PICK x : x = h(t)[<<w, 1>>]
    OBVIOUS
  <2>8. x \in 1..Len(rows[t]) /\ lists[w][t] = rows[t][x]
    BY <1>3, <2>4, <2>6, <2>7
  <2>9. <<t, x>> \in Slots(rows)
    <3>1. x \in Nat
      BY <2>8
    <3>2. t \in 1..Len(rows)
      BY <1>3, <2>3
    <3>3. <<t, x>> \in (1..Len(rows)) \X Nat
      BY <3>1, <3>2
    <3> QED
      BY <2>8, <3>3 DEF Slots
  <2>10. rows[t][x] = flat[g[<<t, x>>]]
    BY <1>2, <2>9 DEF Deals
  <2>11. u(a) = x
    BY <2>3, <2>7
  <2>12. pos[a] = g[<<a[2], u(a)>>]
    OBVIOUS
  <2> HIDE DEF u, pos
  <2> QED
    BY <2>1, <2>2, <2>3, <2>5, <2>8, <2>9, <2>10, <2>11, <2>12
<1>6. pos \in [D -> 1..Len(flat)]
  <2> HIDE DEF u
  <2>1. \A a \in D : g[<<a[2], u(a)>>] \in 1..Len(flat)
    BY <1>2, <1>5 DEF Deals
  <2> QED
    BY <2>1
<1> HIDE DEF pos
<1>7. ASSUME NEW a \in D, NEW b \in D, pos[a] = pos[b]
      PROVE  a = b
  <2>1. <<a[2], u(a)>> = <<b[2], u(b)>>
    <3> HIDE DEF u, D
    <3>1. \A p, q \in Slots(rows) : g[p] = g[q] => p = q
      BY <1>2 DEF Deals
    <3>2. /\ <<a[2], u(a)>> \in Slots(rows) /\ pos[a] = g[<<a[2], u(a)>>]
          /\ <<b[2], u(b)>> \in Slots(rows) /\ pos[b] = g[<<b[2], u(b)>>]
      BY <1>5
    <3> QED
      BY <1>7, <3>1, <3>2
  <2>2. PICK t \in 1..n : t = a[2] /\ t = b[2]
    BY <1>5, <2>1
  <2>3. h(t)[<<a[1], 1>>] = h(t)[<<b[1], 1>>]
    BY <2>1, <2>2
  <2>4. <<a[1], 1>> \in Slots(parts(t)) /\ <<b[1], 1>> \in Slots(parts(t))
    BY <1>5, <2>2
  <2>5. <<a[1], 1>> = <<b[1], 1>>
    BY <1>1, <2>3, <2>4 DEF Deals
  <2> QED
    BY <1>5, <2>2, <2>5
<1>8. ASSUME NEW j \in 1..Len(flat) PROVE \E a \in D : pos[a] = j
  <2>1. PICK p \in Slots(rows) : g[p] = j
    BY <1>2 DEF Deals
  <2>3. PICK t \in 1..n, x \in Nat : p = <<t, x>> /\ x \in 1..Len(rows[t])
    <3>1. Len(rows) = n
      BY DEF rows
    <3>2. p \in (1..Len(rows)) \X Nat /\ p[2] \in 1..Len(rows[p[1]])
      BY <2>1 DEF Slots
    <3> QED
      BY <3>1, <3>2
  <2>4. PICK c \in Slots(parts(t)) : h(t)[c] = x
    BY <1>1, <1>3, <2>3 DEF Deals
  <2>5. PICK w \in 1..W : c = <<w, 1>> /\ t \in 1..Len(lists[w])
    BY <1>4, <2>4
  <2>6. <<w, t>> \in D
    <3>1. PICK a : a = <<w, t>>
      OBVIOUS
    <3>2. a[1] = w /\ a[2] = t /\ t \in Nat /\ w \in 1..Len(lists)
      BY <3>1
    <3>3. a \in (1..Len(lists)) \X Nat
      BY <3>1, <3>2
    <3>4. a[2] \in 1..Len(lists[a[1]])
      BY <2>5, <3>2
    <3> QED
      BY <3>1, <3>3, <3>4 DEF Slots
  <2>7. u(<<w, t>>) = x
    BY <2>4, <2>5
  <2>8. pos[<<w, t>>] = g[<<t, x>>]
    BY <1>5, <2>6, <2>7
  <2> QED
    BY <2>1, <2>3, <2>6, <2>8
<1>9. Deals(pos, lists, flat)
  <2> HIDE DEF u
  <2>1. \A a \in D : lists[a[1]][a[2]] = flat[pos[a]]
    BY <1>5
  <2> HIDE DEF D
  <2>2. /\ pos \in [D -> 1..Len(flat)]
        /\ \A a, b \in D : pos[a] = pos[b] => a = b
        /\ \A j \in 1..Len(flat) : \E a \in D : pos[a] = j
    BY <1>6, <1>7, <1>8
  <2> QED
    BY <2>1, <2>2 DEF Deals, D
<1> QED
  BY <1>9 DEF flat, rows

\* How many of l numbers are W apart when the first one is `id`.
LEMMA EveryFrom ==
  ASSUME NEW l \in Nat, NEW W \in Nat \ {0}, NEW id \in 0..(W - 1)
  PROVE  /\ (l - id + W - 1) \div W \in Nat
         /\ \A k \in Nat : k < (l - id + W - 1) \div W <=> k * W + id < l
<1>1. l - id + W - 1 \in Nat
  OBVIOUS
<1>2. PICK N \in Nat, r \in 0..(W - 1) :
        (l - id + W - 1) \div W = N /\ l - id + W - 1 = N * W + r
  BY <1>1, Division
<1>3. ASSUME NEW k \in Nat PROVE k < N <=> k * W + id < l
  <2>1. k * W \in Nat /\ N * W \in Nat /\ (k + 1) * W = k * W + W
    BY <1>2
  <2>2. ASSUME k < N PROVE k * W + id < l
    <3>1. (k + 1) * W <= N * W
      BY <1>2, <2>2, Monotone
    <3> QED
      BY <1>2, <2>1, <3>1
  <2>3. ASSUME N <= k PROVE ~ k * W + id < l
    <3>1. N * W <= k * W
      BY <1>2, <2>3, Monotone
    <3> QED
      BY <1>2, <2>1, <3>1
  <2> QED
    BY <1>2, <2>2, <2>3
<1> QED
  BY <1>2, <1>3

\* What a loader worker is given: every so many samples from its number on.
LEMMA StripeIs ==
  ASSUME NEW S, NEW s \in Seq(S), NEW id \in 0..(LoaderWorkers - 1)
  PROVE  /\ Stripe(s, id) \in Seq(S) /\ Len(Stripe(s, id)) \in Nat
         /\ \A k \in Nat : k < Len(Stripe(s, id)) <=>
                             k * LoaderWorkers + id < Len(s)
         /\ \A k \in Nat : k < Len(Stripe(s, id)) =>
              Stripe(s, id)[k + 1] = s[k * LoaderWorkers + id + 1]
<1> DEFINE L == Len(s)
           W == LoaderWorkers
           N == (L - id + W - 1) \div W
           Of(j) == s[id + 1 + (j - 1) * W]
<1>1. W \in Nat \ {0} /\ L \in Nat /\ id \in 0..(W - 1)
  BY Setting, LenProperties
<1>2. Stripe(s, id) = [j \in 1..N |-> Of(j)]
  BY DEF Stripe
<1> HIDE DEF L, W
<1>3. N \in Nat /\ \A k \in Nat : k < N <=> k * W + id < L
  BY <1>1, EveryFrom
<1> HIDE DEF N, Of
<1>4. Len(Stripe(s, id)) = N /\ \A j \in 1..N : Stripe(s, id)[j] = Of(j)
  BY <1>2, <1>3
<1>6. ASSUME NEW k \in Nat, k < N
      PROVE  /\ k + 1 \in 1..N /\ Of(k + 1) = s[k * W + id + 1]
             /\ k * W + id + 1 \in 1..Len(s)
  <2>1. k * W \in Nat /\ k * W + id < L /\ (k + 1) - 1 = k
    BY <1>1, <1>3, <1>6
  <2>2. k + 1 \in 1..N
    BY <1>3, <1>6
  <2>3. id + 1 + ((k + 1) - 1) * W = k * W + id + 1
    BY <1>1, <2>1
  <2>4. k * W + id + 1 \in 1..L
    BY <1>1, <2>1
  <2> QED
    BY <2>2, <2>3, <2>4 DEF Of, L
<1>7. ASSUME NEW j \in 1..N PROVE Of(j) \in S
  <2>1. PICK k \in Nat : k + 1 = j /\ k < N
    <3>1. j - 1 \in Nat /\ (j - 1) + 1 = j /\ j - 1 < N
      BY <1>3
    <3> QED
      BY <3>1
  <2>2. Of(j) = s[k * W + id + 1] /\ k * W + id + 1 \in 1..Len(s)
    BY <1>6, <2>1
  <2> QED
    BY <2>2, ElementOfSeq
<1>8. Stripe(s, id) \in Seq(S)
  BY <1>2, <1>3, <1>7
<1> QED
  BY <1>3, <1>4, <1>6, <1>8 DEF L, W

\* The w-th part is every W-th item of s from the w-th on.
Striped(parts, W, s) ==
  /\ Len(parts) = W
  /\ \A w \in 1..W :
       /\ Len(parts[w]) \in Nat
       /\ \A k \in Nat : k < Len(parts[w]) <=> k * W + (w - 1) < Len(s)
       /\ \A k \in Nat : k < Len(parts[w]) =>
            parts[w][k + 1] = s[k * W + (w - 1) + 1]

\* The loader workers share out the samples.
LEMMA StripesDeal ==
  ASSUME NEW S, NEW s \in Seq(S), NEW W \in Nat \ {0},
         NEW parts, Striped(parts, W, s)
  PROVE  \E e : Deals(e, parts, s)
<1> DEFINE D == Slots(parts)
           L == Len(s)
           e == [p \in D |-> (p[2] - 1) * W + p[1]]
<1>1. L \in Nat
  BY LenProperties
<1>2. Len(parts) = W
  BY DEF Striped
<1>3. ASSUME NEW w \in 1..W
      PROVE  /\ Len(parts[w]) \in Nat
             /\ \A k \in Nat : k < Len(parts[w]) <=> k * W + (w - 1) < L
             /\ \A k \in Nat : k < Len(parts[w]) =>
                  parts[w][k + 1] = s[k * W + (w - 1) + 1]
  BY DEF Striped
<1>4. \A p \in D : e[p] = (p[2] - 1) * W + p[1]
  OBVIOUS
<1> HIDE DEF L
<1>5. ASSUME NEW p \in D
      PROVE  \E w \in 1..W, k \in Nat :
               /\ p = <<w, k + 1>> /\ k < Len(parts[w])
               /\ (p[2] - 1) * W + p[1] = k * W + w
               /\ k * W + w \in 1..L
               /\ parts[p[1]][p[2]] = s[k * W + w]
  <2>1. PICK w \in 1..W, i \in Nat : p = <<w, i>> /\ i \in 1..Len(parts[w])
    <3>1. p \in (1..Len(parts)) \X Nat /\ p[2] \in 1..Len(parts[p[1]])
      BY DEF Slots
    <3> QED
      BY <1>2, <3>1
  <2>2. PICK k \in Nat : k + 1 = i /\ k < Len(parts[w])
    <3>1. PICK l \in Nat : l = Len(parts[w])
      BY <1>3
    <3>2. i - 1 \in Nat /\ (i - 1) + 1 = i /\ i - 1 < l
      BY <2>1, <3>1
    <3> QED
      BY <3>1, <3>2
  <2>3. k * W \in Nat /\ k * W + (w - 1) < L
        /\ parts[w][k + 1] = s[k * W + (w - 1) + 1]
    <3>1. k * W \in Nat
      BY <2>2
    <3>2. k * W + (w - 1) < L
      BY <1>3, <2>1, <2>2
    <3>3. parts[w][k + 1] = s[k * W + (w - 1) + 1]
      BY <1>3, <2>1, <2>2
    <3> QED
      BY <3>1, <3>2, <3>3
  <2>4. k * W + w \in 1..L /\ k * W + (w - 1) + 1 = k * W + w
    BY <1>1, <2>1, <2>3
  <2>5. p[1] = w /\ p[2] = k + 1 /\ p = <<w, k + 1>>
    BY <2>1, <2>2
  <2>6. (k + 1) - 1 = k
    BY <2>2
  <2> HIDE DEF e, D
  <2> QED
    BY <2>1, <2>2, <2>3, <2>4, <2>5, <2>6
<1>6. e \in [D -> 1..L]
  <2>1. \A p \in D : (p[2] - 1) * W + p[1] \in 1..L
    BY <1>5
  <2> HIDE DEF D
  <2> QED
    BY <2>1
<1> HIDE DEF e
<1>7. ASSUME NEW p \in D, NEW q \in D, e[p] = e[q]
      PROVE  p = q
  <2>1. PICK w \in 1..W, k \in Nat : p = <<w, k + 1>> /\ e[p] = k * W + w
    BY <1>4, <1>5
  <2>2. PICK v \in 1..W, j \in Nat : q = <<v, j + 1>> /\ e[q] = j * W + v
    BY <1>4, <1>5
  <2>3. PICK x \in 0..(W - 1), y \in 0..(W - 1) : x = w - 1 /\ y = v - 1
    <3>1. \A z \in 1..W : z - 1 \in 0..(W - 1)
      OBVIOUS
    <3> QED
      BY <3>1
  <2>4. k * W + x = j * W + y
    <3>1. k * W + w = j * W + v
      BY <1>7, <2>1, <2>2
    <3>2. k * W \in Nat /\ j * W \in Nat
      BY <2>1, <2>2
    <3> QED
      BY <2>1, <2>2, <2>3, <3>1, <3>2
  <2>5. PICK m \in Nat : m = k * W + x /\ m = j * W + y
    BY <1>1, <2>1, <2>3, <2>4
  <2>6. m \div W = k /\ m % W = x
    <3>1. m = k * W + x
      BY <2>5
    <3> QED
      BY <3>1, QuotientIs
  <2>7. m \div W = j /\ m % W = y
    <3>1. m = j * W + y
      BY <2>5
    <3> QED
      BY <3>1, QuotientIs
  <2>8. k = j /\ x = y
    BY <2>6, <2>7
  <2>9. w = v
    BY <2>1, <2>2, <2>3, <2>8
  <2> QED
    BY <2>1, <2>2, <2>8, <2>9
<1>8. ASSUME NEW i \in 1..L PROVE \E p \in D : e[p] = i
  <2>1. PICK a \in Nat : a = i - 1
    BY <1>1
  <2>2. PICK k \in Nat, r \in 0..(W - 1) : a = k * W + r
    BY <1>1, Division
  <2>3. PICK w \in 1..W : w - 1 = r /\ k * W + w = i
    <3>1. k * W \in Nat
      BY <1>1, <2>2
    <3>2. r + 1 \in 1..W /\ (r + 1) - 1 = r /\ k * W + (r + 1) = i
      BY <1>1, <2>1, <2>2, <3>1
    <3> QED
      BY <3>2
  <2>4. k < Len(parts[w])
    <3>1. k * W + (w - 1) < L
      BY <1>1, <2>1, <2>2, <2>3
    <3> QED
      BY <1>3, <2>2, <3>1
  <2>5. PICK p : p = <<w, k + 1>>
    OBVIOUS
  <2>6. p[1] = w /\ p[2] = k + 1 /\ (k + 1) - 1 = k
    BY <2>2, <2>5
  <2>7. k + 1 \in 1..Len(parts[w]) /\ k + 1 \in Nat
    <3>1. PICK l \in Nat : l = Len(parts[w])
      BY <1>3
    <3> QED
      BY <2>4, <3>1
  <2>8. p \in D
    <3>1. p \in (1..Len(parts)) \X Nat
      <4>1. w \in 1..Len(parts)
        BY <1>2
      <4> QED
        BY <2>5, <2>7, <4>1
    <3> QED
      BY <2>6, <2>7, <3>1 DEF Slots
  <2>9. e[p] = i
    <3>1. e[p] = (p[2] - 1) * W + p[1]
      BY <1>4, <2>8
    <3> QED
      BY <2>3, <2>6, <3>1
  <2> QED
    BY <2>8, <2>9
<1>9. \A p \in D : parts[p[1]][p[2]] = s[e[p]]
  BY <1>4, <1>5
<1>10. Deals(e, parts, s)
  BY <1>6, <1>7, <1>8, <1>9 DEF Deals, L
<1> QED
  BY <1>10

\* A sampler that starts later goes around the same samples.
LEMMA Rotation ==
  ASSUME NEW L \in Nat \ {0}, NEW t \in Nat
  PROVE  LET g == [i \in 1..L |-> 1 + ((i + t) % L)]
         IN /\ g \in [1..L -> 1..L]
            /\ \A i, j \in 1..L : g[i] = g[j] => i = j
            /\ \A y \in 1..L : \E x \in 1..L : g[x] = y
<1> DEFINE g == [i \in 1..L |-> 1 + ((i + t) % L)]
<1>1. ASSUME NEW i \in 1..L
      PROVE  /\ (i + t) % L \in 0..(L - 1)
             /\ \E q \in Nat : i + t = q * L + ((i + t) % L)
  <2>1. i + t \in Nat
    OBVIOUS
  <2> QED
    BY <2>1, Division
<1>2. g \in [1..L -> 1..L]
  <2>1. \A i \in 1..L : 1 + ((i + t) % L) \in 1..L
    BY <1>1
  <2> QED
    BY <2>1
<1>3. ASSUME NEW i \in 1..L, NEW j \in 1..L, g[i] = g[j]
      PROVE  i = j
  <2>1. PICK r \in 0..(L - 1) : r = (i + t) % L
    BY <1>1
  <2>2. r = (j + t) % L
    <3>1. 1 + ((i + t) % L) = 1 + ((j + t) % L)
      BY <1>3
    <3>2. (i + t) % L \in 0..(L - 1) /\ (j + t) % L \in 0..(L - 1)
      BY <1>1
    <3> QED
      BY <2>1, <3>1, <3>2
  <2>3. PICK q \in Nat : i + t = q * L + r
    BY <1>1, <2>1
  <2>4. PICK p \in Nat : j + t = p * L + r
    BY <1>1, <2>2
  <2> HIDE DEF g
  <2>5. q * L \in Nat /\ p * L \in Nat
        /\ (q + 1) * L = q * L + L /\ (p + 1) * L = p * L + L
    BY <2>3, <2>4
  <2>6. ~ q < p
    <3> SUFFICES ASSUME q < p PROVE FALSE
      OBVIOUS
    <3>1. (q + 1) * L <= p * L
      BY <2>3, <2>4, Monotone
    <3> QED
      BY <2>3, <2>4, <2>5, <3>1
  <2>7. ~ p < q
    <3> SUFFICES ASSUME p < q PROVE FALSE
      OBVIOUS
    <3>1. (p + 1) * L <= q * L
      BY <2>3, <2>4, Monotone
    <3> QED
      BY <2>3, <2>4, <2>5, <3>1
  <2>8. q = p
    BY <2>3, <2>4, <2>6, <2>7
  <2> QED
    BY <2>3, <2>4, <2>5, <2>8
<1> HIDE DEF g
<1>4. \A y \in 1..L : \E x \in 1..L : g[x] = y
  <2>1. \A i, j \in 1..L : i # j => g[i] # g[j]
    BY <1>3
  <2> QED
    BY <1>2, <2>1, Permutes
<1> QED
  BY <1>2, <1>3, <1>4 DEF g

\* A shuffled pass holds every sample once.
LEMMA ShuffledDeals ==
  ASSUME NEW S, NEW s \in Seq(S), Len(s) # 0, NEW t \in Nat,
         NEW b \in Nat \ {0}
  PROVE  \E f : Deals(f, Chunks(Shuffled(s, t), b), s)
<1> DEFINE L == Len(s)
           g == [i \in 1..L |-> 1 + ((i + t) % L)]
           r == Shuffled(s, t)
<1>1. L \in Nat \ {0}
  BY LenProperties
<1>2. /\ g \in [1..L -> 1..L]
      /\ \A i, j \in 1..L : g[i] = g[j] => i = j
      /\ \A y \in 1..L : \E x \in 1..L : g[x] = y
  <2> HIDE DEF L
  <2> QED
    BY <1>1, Rotation
<1>3. r = [i \in 1..L |-> s[g[i]]]
  BY DEF Shuffled
<1> HIDE DEF g, r
<1>4. \A i \in 1..L : s[g[i]] \in S
  BY <1>2, ElementOfSeq
<1>5. r \in Seq(S) /\ Len(r) = L /\ \A i \in 1..L : r[i] = s[g[i]]
  <2> HIDE DEF L
  <2> QED
    BY <1>1, <1>3, <1>4
<1>6. PICK f : Deals(f, Chunks(r, b), r)
  BY <1>5, ChunksDeal
<1>7. \E h : Deals(h, Chunks(r, b), s)
  BY <1>2, <1>5, <1>6, Reordered
<1> QED
  BY <1>7 DEF r

\* A worker with no more samples has no more batches.
LEMMA ChunksMore ==
  ASSUME NEW S, NEW u \in Seq(S), NEW v \in Seq(S), Len(u) <= Len(v),
         NEW b \in Nat \ {0}
  PROVE  /\ Len(Chunks(v, b)) \in Nat
         /\ Len(Chunks(u, b)) \in 0..Len(Chunks(v, b))
<1>1. ASSUME NEW x \in Seq(S)
      PROVE  \E l, c \in Nat :
               /\ l = Len(x) /\ c = Len(Chunks(x, b))
               /\ \A k \in Nat : k < c <=> k * b + 0 < l
  <2>1. PICK l \in Nat : l = Len(x)
    BY LenProperties
  <2>2. l - 0 + b - 1 = l + b - 1 /\ 0 \in 0..(b - 1)
    OBVIOUS
  <2>3. PICK c \in Nat :
          c = (l + b - 1) \div b /\ \A k \in Nat : k < c <=> k * b + 0 < l
    BY <2>2, EveryFrom
  <2>4. Len(Chunks(x, b)) = c
    BY <2>1, <2>3 DEF Chunks
  <2> QED
    BY <2>1, <2>3, <2>4
<1>2. PICK l, c \in Nat :
        /\ l = Len(u) /\ c = Len(Chunks(u, b))
        /\ \A k \in Nat : k < c <=> k * b + 0 < l
  BY <1>1
<1>3. PICK m, d \in Nat :
        /\ m = Len(v) /\ d = Len(Chunks(v, b))
        /\ \A k \in Nat : k < d <=> k * b + 0 < m
  BY <1>1
<1>4. ~ d < c
  <2> SUFFICES ASSUME d < c PROVE FALSE
    OBVIOUS
  <2>1. d * b \in Nat
    BY <1>3
  <2>2. d * b + 0 < l /\ l <= m
    BY <1>2, <1>3
  <2>3. d * b + 0 < m
    BY <1>2, <1>3, <2>1, <2>2
  <2>4. d < d
    BY <1>3, <2>3
  <2> QED
    BY <1>3, <2>4
<1>5. c \in 0..d
  BY <1>2, <1>3, <1>4
<1> QED
  BY <1>2, <1>3, <1>5

\* The batches of the loader workers hold every sample once, however the last
\* ones come out.
LEMMA InterleavedDeals ==
  ASSUME NEW S, NEW s \in Seq(S)
  PROVE  \E f : Deals(f, Interleaved(s), s)
<1> DEFINE W == LoaderWorkers
           B == BatchSize
           of == [id \in 0..(W - 1) |-> Chunks(Stripe(s, id), B)]
           n == Len(of[0])
           rows == [turn \in 1..n |-> Row(of, W, turn)]
           parts == [w \in 1..W |-> Stripe(s, w - 1)]
           lists == [w \in 1..W |-> Chunks(Stripe(s, w - 1), B)]
           h == [w \in 1..W |-> CHOOSE f : Deals(f, lists[w], parts[w])]
<1>1. W \in Nat \ {0} /\ B \in Nat \ {0} /\ 0 \in 0..(W - 1)
      /\ \A w \in 1..W : w - 1 \in 0..(W - 1)
  BY Setting
<1>2. Interleaved(s) = FlattenSeq(rows)
  BY DEF Interleaved, Row, Asked
<1>3. /\ Len(lists) = W /\ Len(parts) = W
      /\ \A w \in 1..W : /\ lists[w] = of[w - 1]
                         /\ lists[w] = Chunks(parts[w], B)
                         /\ parts[w] = Stripe(s, w - 1)
                         /\ h[w] = CHOOSE f : Deals(f, lists[w], parts[w])
  BY <1>1
<1>4. of[0] = Chunks(Stripe(s, 0), B)
  BY <1>1
<1> HIDE DEF of, parts, lists, h, B
<1>5. ASSUME NEW w \in 1..W
      PROVE  /\ parts[w] \in Seq(S) /\ Len(parts[w]) \in Nat
             /\ \A k \in Nat : k < Len(parts[w]) <=> k * W + (w - 1) < Len(s)
             /\ \A k \in Nat : k < Len(parts[w]) =>
                  parts[w][k + 1] = s[k * W + (w - 1) + 1]
  <2>1. PICK id \in 0..(LoaderWorkers - 1) : id = w - 1
    BY <1>1
  <2>2. parts[w] = Stripe(s, id)
    BY <1>3, <2>1
  <2> QED
    BY <2>1, <2>2, StripeIs
<1>6. Striped(parts, W, s)
  BY <1>3, <1>5 DEF Striped
<1>7. n \in Nat /\ \A w \in 1..W : Len(lists[w]) \in 0..n
  <2>1. 1 \in 1..W
    BY <1>1
  <2>2. ASSUME NEW w \in 1..W PROVE Len(parts[w]) <= Len(parts[1])
    <3>1. PICK l \in Nat, m \in Nat, k \in Nat :
            l = Len(parts[1]) /\ m = Len(parts[w]) /\ k = l
      BY <1>5, <2>1
    <3>2. PICK z \in Nat : z = Len(s)
      BY LenProperties
    <3>3. k < l <=> k * W + (1 - 1) < z
      BY <1>5, <2>1, <3>1, <3>2
    <3>4. k < m <=> k * W + (w - 1) < z
      BY <1>5, <3>1, <3>2
    <3>5. k * W \in Nat /\ w - 1 \in Nat
      BY <1>1, <3>1
    <3>6. ~ l < m
      BY <3>1, <3>3, <3>4, <3>5
    <3> QED
      BY <3>1, <3>6
  <2>3. lists[1] = of[0]
    <3>1. lists[1] = of[1 - 1] /\ 1 - 1 = 0
      BY <1>3, <2>1
    <3> QED
      BY <3>1
  <2>4. ASSUME NEW w \in 1..W
        PROVE  /\ Len(Chunks(parts[1], B)) \in Nat
               /\ Len(Chunks(parts[w], B)) \in 0..Len(Chunks(parts[1], B))
    BY <1>1, <1>5, <2>1, <2>2, ChunksMore
  <2> QED
    BY <1>3, <2>1, <2>3, <2>4
<1> HIDE DEF W, n
<1>8. PICK e : Deals(e, parts, s)
  BY <1>1, <1>6, StripesDeal
<1>9. PICK pos : Deals(pos, lists, FlattenSeq(rows))
  BY <1>1, <1>3, <1>7, TurnsDeal
<1>10. ASSUME NEW w \in 1..W PROVE Deals(h[w], lists[w], parts[w])
  <2>1. \E f : Deals(f, Chunks(parts[w], B), parts[w])
    BY <1>1, <1>5, ChunksDeal
  <2> QED
    BY <1>3, <2>1
<1> HIDE DEF rows
<1>11. \E f : Deals(f, FlattenSeq(rows), s)
  BY <1>1, <1>3, <1>8, <1>9, <1>10, Regrouped
<1> QED
  BY <1>2, <1>11

\* Every pass over a dataset holds each sample of the share once, whichever
\* loader makes it and however often it was shuffled.
THEOREM PassDeals ==
  ASSUME NEW kind \in Loaders, NEW d \in Datasets, NEW t \in Nat
  PROVE  \E f : Deals(f, PassOf(kind, Share(d), t), Share(d))
<1>1. Share(d) \in Seq(Nat) /\ Len(Share(d)) # 0
  BY ShareType
<1>2. BatchSize \in Nat \ {0} /\ 1 \in Nat \ {0}
      /\ Loaders \subseteq {"cursor", "striped", "shuffled", "worker"}
  BY Setting
<1>3. CASE kind = "cursor"
  BY <1>1, <1>2, <1>3, ChunksDeal DEF PassOf
<1>4. CASE kind = "striped"
  BY <1>1, <1>4, InterleavedDeals DEF PassOf
<1>5. CASE kind = "shuffled"
  <2>1. PassOf(kind, Share(d), t) = Chunks(Shuffled(Share(d), t), BatchSize)
    BY <1>5 DEF PassOf
  <2> QED
    BY <1>1, <1>2, <2>1, ShuffledDeals
<1>6. CASE kind = "worker"
  BY <1>1, <1>2, <1>6, ChunksDeal DEF PassOf
<1> QED
  BY <1>2, <1>3, <1>4, <1>5, <1>6

\* A batch of dealt samples is no longer than what was dealt out.
LEMMA SlotsFit ==
  ASSUME NEW P, NEW s, NEW f, Deals(f, P, s), NEW L \in Nat, Len(s) = L,
         NEW i \in 1..Len(P)
  PROVE  Len(P[i]) \in 0..L
<1>1. PICK m \in Nat : m = Len(P[i])
  BY DEF Deals
<1> DEFINE g == [x \in 1..m |-> f[<<i, x>>]]
<1>2. ASSUME NEW x \in 1..m PROVE <<i, x>> \in Slots(P)
  <2>1. x \in Nat
    BY <1>1
  <2> QED
    BY <1>1, <2>1 DEF Slots
<1>3. g \in [1..m -> 1..L]
  BY <1>2 DEF Deals
<1>4. \A x, y \in 1..m : g[x] = g[y] => x = y
  <2> SUFFICES ASSUME NEW x \in 1..m, NEW y \in 1..m, g[x] = g[y]
               PROVE  x = y
    OBVIOUS
  <2>1. f[<<i, x>>] = f[<<i, y>>]
    OBVIOUS
  <2>2. <<i, x>> = <<i, y>>
    BY <1>2, <2>1 DEF Deals
  <2> QED
    BY <2>2
<1> HIDE DEF g
<1>5. g \in Injection(1..m, 1..L)
  BY <1>3, <1>4 DEF Injection, IsInjective
<1>6. /\ IsFiniteSet(1..m) /\ Cardinality(1..m) = m
      /\ IsFiniteSet(1..L) /\ Cardinality(1..L) = L
  <2>1. \A a \in Nat : IsFiniteSet(1..a) /\ Cardinality(1..a) = a
    <3> TAKE a \in Nat
    <3>1. 1 \in Int /\ a \in Int
      OBVIOUS
    <3>2. /\ IsFiniteSet(1..a)
          /\ Cardinality(1..a) = IF 1 > a THEN 0 ELSE a - 1 + 1
      BY <3>1, FS_Interval
    <3> QED
      BY <3>2
  <2> QED
    BY <1>1, <2>1
<1>7. m <= L
  BY <1>5, <1>6, FS_Injection
<1> QED
  BY <1>1, <1>7

\* The batches of b after the first k are those of P.
Continues(b, k, P) == \A i \in 1..Len(P) : b[k + i] = P[i]

\* The places in the n batches of b after the first k, and what they hold.
Held(b, k, n, L) ==
  {p \in ((k + 1)..(k + n)) \X (1..L) : p[2] <= Len(b[p[1]])}
Samples(b, D) == {b[p[1]][p[2]] : p \in D}

\* The batches of a pass, k batches into the run, hold the samples of the
\* share, as many as there are.
LEMMA PassCovers ==
  ASSUME NEW S, NEW s \in Seq(S), NEW P, NEW f, Deals(f, P, s),
         NEW L \in Nat, Len(s) = L, NEW n \in Nat, Len(P) = n,
         NEW k \in Nat, NEW b, Continues(b, k, P)
  PROVE  /\ Cardinality(Held(b, k, n, L)) = L
         /\ Samples(b, Held(b, k, n, L)) = Items(s)
<1> DEFINE D == {p \in ((k + 1)..(k + n)) \X (1..L) : p[2] <= Len(b[p[1]])}
           F == [p \in D |-> f[<<p[1] - k, p[2]>>]]
<1>1. /\ f \in [Slots(P) -> 1..L]
      /\ \A p, q \in Slots(P) : f[p] = f[q] => p = q
      /\ \A i \in 1..L : \E p \in Slots(P) : f[p] = i
      /\ \A p \in Slots(P) : P[p[1]][p[2]] = s[f[p]]
  BY DEF Deals
<1>2. \A i \in 1..n : Len(P[i]) \in 0..L /\ b[k + i] = P[i]
  BY SlotsFit DEF Continues
<1>3. ASSUME NEW p \in D
      PROVE  \E i \in 1..n, x \in 1..L :
               /\ p = <<k + i, x>> /\ p[1] - k = i /\ p[2] = x
               /\ <<i, x>> \in Slots(P) /\ b[p[1]] = P[i]
  <2>1. p \in ((k + 1)..(k + n)) \X (1..L) /\ p[2] <= Len(b[p[1]])
    OBVIOUS
  <2> HIDE DEF D, F
  <2>2. PICK j \in (k + 1)..(k + n), x \in 1..L : p = <<j, x>>
    BY <2>1
  <2>3. PICK i \in 1..n : j = k + i
    <3>1. j - k \in 1..n /\ k + (j - k) = j
      OBVIOUS
    <3> QED
      BY <3>1
  <2>4. p[1] = k + i /\ p[2] = x /\ p[1] - k = i /\ b[k + i] = P[i]
    BY <1>2, <2>2, <2>3
  <2>5. x \in 1..Len(P[i])
    <3>1. PICK m \in 0..L : m = Len(P[i])
      BY <1>2
    <3>2. x <= m
      BY <2>1, <2>4, <3>1
    <3> QED
      BY <3>1, <3>2
  <2>6. <<i, x>> \in Slots(P)
    <3>1. PICK a : a = <<i, x>>
      OBVIOUS
    <3>2. a[1] = i /\ a[2] = x /\ a \in (1..Len(P)) \X Nat
      BY <3>1
    <3> QED
      BY <2>5, <3>1, <3>2 DEF Slots
  <2> QED
    BY <2>2, <2>3, <2>4, <2>6
<1>4. ASSUME NEW a \in Slots(P)
      PROVE  \E p \in D : p = <<k + a[1], a[2]>> /\ p[1] - k = a[1]
                          /\ a = <<a[1], a[2]>>
  <2>1. a \in (1..Len(P)) \X Nat /\ a[2] \in 1..Len(P[a[1]])
    BY DEF Slots
  <2>2. PICK i \in 1..n, x \in Nat : a = <<i, x>>
    BY <2>1
  <2>3. PICK m \in 0..L : m = Len(P[i])
    BY <1>2
  <2>4. a[1] = i /\ a[2] = x /\ x \in 1..m
    BY <2>1, <2>2, <2>3
  <2>5. PICK j \in (k + 1)..(k + n) : j = k + i /\ j - k = i
    OBVIOUS
  <2>6. PICK p : p = <<j, x>>
    OBVIOUS
  <2>7. p[1] = j /\ p[2] = x /\ x \in 1..L /\ x <= m
    BY <2>4, <2>6
  <2>8. p \in ((k + 1)..(k + n)) \X (1..L)
    BY <2>6, <2>7
  <2>9. b[p[1]] = P[i]
    BY <1>2, <2>5, <2>7
  <2>10. p \in D
    BY <2>3, <2>7, <2>8, <2>9
  <2> HIDE DEF D, F
  <2> QED
    BY <2>2, <2>4, <2>5, <2>6, <2>7, <2>10
<1>5. \A p \in D : F[p] = f[<<p[1] - k, p[2]>>]
  OBVIOUS
<1>6. F \in [D -> 1..L]
  <2>1. \A p \in D : f[<<p[1] - k, p[2]>>] \in 1..L
    <3> HIDE DEF D
    <3> QED
      BY <1>1, <1>3
  <2> HIDE DEF D
  <2> QED
    BY <2>1
<1> HIDE DEF D, F
<1>7. ASSUME NEW p \in D, NEW q \in D, F[p] = F[q] PROVE p = q
  <2>1. PICK i \in 1..n, x \in 1..L :
          p = <<k + i, x>> /\ p[1] - k = i /\ p[2] = x /\ <<i, x>> \in Slots(P)
    BY <1>3
  <2>2. PICK j \in 1..n, y \in 1..L :
          q = <<k + j, y>> /\ q[1] - k = j /\ q[2] = y /\ <<j, y>> \in Slots(P)
    BY <1>3
  <2>3. f[<<i, x>>] = f[<<j, y>>]
    BY <1>5, <1>7, <2>1, <2>2
  <2>4. <<i, x>> = <<j, y>>
    BY <1>1, <2>1, <2>2, <2>3
  <2> QED
    BY <2>1, <2>2, <2>4
<1>8. ASSUME NEW y \in 1..L PROVE \E p \in D : F[p] = y
  <2>1. PICK a \in Slots(P) : f[a] = y
    BY <1>1
  <2>2. PICK p \in D : p = <<k + a[1], a[2]>> /\ p[1] - k = a[1]
                       /\ a = <<a[1], a[2]>>
    BY <1>4
  <2>3. p[2] = a[2]
    BY <2>2
  <2>4. <<p[1] - k, p[2]>> = a
    BY <2>2, <2>3
  <2> QED
    BY <1>5, <2>1, <2>4
<1>9. \A p \in D : b[p[1]][p[2]] = s[F[p]]
  <2> TAKE p \in D
  <2>1. PICK i \in 1..n, x \in 1..L :
          /\ p[1] - k = i /\ p[2] = x
          /\ <<i, x>> \in Slots(P) /\ b[p[1]] = P[i]
    BY <1>3
  <2>2. PICK a : a = <<i, x>>
    OBVIOUS
  <2>3. P[i][x] = s[f[a]]
    <3>1. a[1] = i /\ a[2] = x /\ a \in Slots(P)
      BY <2>1, <2>2
    <3> QED
      BY <1>1, <3>1
  <2> QED
    BY <1>5, <2>1, <2>2, <2>3
<1>10. Cardinality(D) = L
  <2>1. F \in Bijection(D, 1..L)
    BY <1>6, <1>7, <1>8
    DEF Bijection, Injection, IsInjective, Surjection
  <2>2. ExistsBijection(D, 1..L)
    BY <2>1 DEF ExistsBijection
  <2>3. ExistsBijection(1..L, D)
    BY <2>2, Fun_ExistsBijSymmetric
  <2> QED
    BY <2>3, FS_CountingElements
<1>11. {b[p[1]][p[2]] : p \in D} = {s[i] : i \in 1..L}
  <2> DEFINE A == {b[p[1]][p[2]] : p \in D}
             B == {s[i] : i \in 1..L}
  <2>1. ASSUME NEW y \in A PROVE y \in B
    <3>1. PICK p \in D : y = b[p[1]][p[2]]
      OBVIOUS
    <3>2. y = s[F[p]] /\ F[p] \in 1..L
      BY <1>6, <1>9, <3>1
    <3> QED
      BY <3>2
  <2>2. ASSUME NEW y \in B PROVE y \in A
    <3>1. PICK i \in 1..L : y = s[i]
      OBVIOUS
    <3>2. PICK p \in D : F[p] = i
      BY <1>8
    <3>3. y = b[p[1]][p[2]]
      BY <1>9, <3>1, <3>2
    <3> QED
      BY <3>3
  <2> HIDE DEF A, B
  <2>3. A = B
    BY <2>1, <2>2
  <2> QED
    BY <2>3 DEF A, B
<1>12. D = Held(b, k, n, L)
  BY DEF D, Held
<1>13. Samples(b, D) = Items(s)
  BY <1>11 DEF Samples, Items
<1> QED
  BY <1>10, <1>12, <1>13

-----------------------------------------------------------------------------
(* The theorems                                                             *)

\* The invariant of a training run over its restarts, in which the data of a
\* replayed loader are not exchanged.
THEOREM Inductive ==
  ASSUME Named
  PROVE  Spec => []IInv
<1>1. Init => IInv
  BY InitIInv
<1>2. IInv /\ [Next]_vars => IInv'
  BY NextKeeps
<1> QED
  BY <1>1, <1>2, PTL DEF Spec

\* The shape of the cursor, of the iterator and of the checkpoints.
THEOREM TypeCorrect ==
  ASSUME Named
  PROVE  Spec => []TypeOK
<1>1. IInv => TypeOK
  BY DEF IInv, Typed, TypeOK, Stored, Sound, Slice, Share
<1> QED
  BY <1>1, Inductive, PTL

\* However often a run is killed and resumed, it is trained on the batches of
\* the uninterrupted run, in their order: none twice, none skipped
\* (cursor.py, _load_training_checkpoint, _replay_microbatches).
THEOREM ResumesExactly ==
  ASSUME Named
  PROVE  Spec => []ExactResume
<1>1. IInv => ExactResume
  <2> SUFFICES ASSUME IInv, pc = "run"
               PROVE  /\ Len(seen) = micro
                      /\ \A k \in 1..micro :
                           seen[k] = Uninterrupted(origin + k)
    BY DEF ExactResume
  <2>1. Follows(data, micro, seen, origin) /\ Typed
    BY DEF IInv, Trained
  <2>2. ASSUME NEW k \in 1..micro
        PROVE  seen[k] = Uninterrupted(origin + k)
    <3>1. PICK c \in Nat : c = origin + k - 1
      BY <2>1 DEF Typed
    <3>2. Len(Pass(1)) = PassLength(loader, data)
      BY <2>1, PassIs
    <3>3. (origin + k) - 1 = c
      BY <2>1, <3>1 DEF Typed
    <3>4. Uninterrupted(origin + k) = Trail(loader, data, c)
      BY <2>1, <3>2, <3>3, TrailIs DEF Uninterrupted
    <3>5. seen[k] = Trail(loader, data, origin + k - 1)
      BY <2>1 DEF Follows
    <3> QED
      BY <3>1, <3>4, <3>5
  <2> QED
    BY <2>1, <2>2 DEF Follows
<1> QED
  BY <1>1, Inductive, PTL

\* Every pass trains on each sample of the rank once, over partial batches,
\* loader workers, shuffling and restarts within the pass; and the shares of
\* the ranks with what is dropped make up the batches of the shards, none of
\* them twice (_restore_state, _replay_microbatches,
\* plan_packed_batch_partition).
THEOREM PassesStayWhole ==
  ASSUME Named
  PROVE  Spec => []PassesAreWhole
<1>1. IInv => RanksPartition
  BY AlwaysPartitioned DEF IInv, Typed, RanksPartition, Partitions
<1>2. IInv => EachPassOnce
  <2>0. SUFFICES ASSUME IInv, pc = "run",
                             NEW k \in 0..(Len(seen) - Len(Pass(1))),
                             (origin + k) % Len(Pass(1)) = 0
               PROVE  LET D == Held(seen, k, Len(Pass(1)), Len(Slice))
                      IN /\ Cardinality(D) = Len(Slice)
                         /\ Samples(seen, D) = Items(Slice)
    BY DEF EachPassOnce, Held, Samples, Items
  <2>1. /\ Typed /\ Follows(data, micro, seen, origin)
        /\ loader \in Loaders /\ data \in Datasets
        /\ micro \in Nat /\ origin \in Nat
    BY <2>0 DEF IInv, Trained, Typed
  <2>2. PICK n \in Nat \ {0} : n = PassLength(loader, data) /\ n = Len(Pass(1))
    BY <2>1, PassLengths, PassIs
  <2>3. k \in Nat /\ k + n <= micro
    BY <2>1, <2>2 DEF Follows
  <2>4. PICK q \in Nat : origin + k = q * n
    <3>1. PICK a \in Nat : a = origin + k
      BY <2>1, <2>3
    <3>2. a % n = 0
      BY <2>0, <2>2, <3>1
    <3>3. PICK p \in Nat, r \in 0..(n - 1) : a % n = r /\ a = p * n + r
      BY Division
    <3>4. r = 0 /\ p * n \in Nat
      BY <3>2, <3>3
    <3>5. a = p * n
      BY <3>3, <3>4
    <3> QED
      BY <3>1, <3>5
  <2>5. PICK L \in Nat \ {0} : L = Len(Share(data))
    BY <2>1, ShareType
  <2>6. PICK t \in Nat : t = (1 + q) % L
    <3>1. PICK a \in Nat : a = 1 + q
      OBVIOUS
    <3>2. a % L \in Nat
      BY Division
    <3> QED
      BY <3>1, <3>2
  <2> DEFINE P == PassOf(loader, Share(data), t)
  <2>7. Pass(1 + q) = P /\ Len(P) = n
    <3>1. 1 + q \in Nat
      OBVIOUS
    <3>2. /\ Pass(1 + q) =
               PassOf(loader, Share(data), (1 + q) % Len(Share(data)))
          /\ Len(Pass(1 + q)) = PassLength(loader, data)
      BY <2>1, <3>1, PassIs
    <3> QED
      BY <2>2, <2>5, <2>6, <3>2
  <2>8. ASSUME NEW i \in 1..n PROVE seen[k + i] = P[i]
    <3>1. PICK c \in Nat, j \in 0..(n - 1) : j = i - 1 /\ c = q * n + j
      OBVIOUS
    <3>2. k + i \in 1..micro /\ origin + (k + i) - 1 = c
      BY <2>1, <2>3, <2>4, <3>1
    <3>3. seen[k + i] = Trail(loader, data, c)
      BY <2>1, <3>2 DEF Follows
    <3>4. c \div n = q /\ c % n = j
      <4>1. c = q * n + j
        BY <3>1
      <4> QED
        BY <4>1, QuotientIs
    <3>5. Trail(loader, data, c) = Pass(1 + q)[1 + j]
      BY <2>1, <2>2, <3>4, TrailIs
    <3>6. 1 + j = i
      BY <3>1
    <3> QED
      BY <2>7, <3>3, <3>5, <3>6
  <2>9. Slice = Share(data) /\ Share(data) \in Seq(Nat)
    BY <2>1, ShareType DEF Slice, Share
  <2>10. PICK f : Deals(f, P, Share(data))
    BY <2>1, PassDeals
  <2> HIDE DEF P
  <2>11. /\ Cardinality(Held(seen, k, n, L)) = L
         /\ Samples(seen, Held(seen, k, n, L)) = Items(Share(data))
    <3>1. k \in Nat /\ Len(P) = n /\ Len(Share(data)) = L
          /\ Share(data) \in Seq(Nat) /\ Deals(f, P, Share(data))
      BY <2>3, <2>5, <2>7, <2>9, <2>10
    <3>2. Continues(seen, k, P)
      BY <2>7, <2>8 DEF Continues
    <3> QED
      BY <3>1, <3>2, PassCovers
  <2> QED
    BY <2>2, <2>5, <2>9, <2>11
<1>3. IInv => PassesAreWhole
  BY <1>1, <1>2 DEF PassesAreWhole
<1> QED
  BY <1>3, Inductive, PTL

\* A run is trained on the batches of one dataset, although its process is
\* free to open another one (PackedDataCursor._restore_state).
THEOREM TrainsOnOneDataset ==
  ASSUME Named
  PROVE  Spec => []ChangedDataRejected
<1>1. IInv => ChangedDataRejected
  <2> SUFFICES ASSUME IInv PROVE Cardinality(used) <= 1
    BY DEF ChangedDataRejected
  <2>1. PICK d \in Datasets : used \subseteq {d}
    BY DEF IInv, OneDataset
  <2>2. used = {} \/ used = {d}
    BY <2>1
  <2>3. Cardinality({}) = 0 /\ Cardinality({d}) = 1
    BY FS_EmptySet, FS_Singleton
  <2> QED
    BY <2>2, <2>3
<1> QED
  BY <1>1, Inductive, PTL

=============================================================================
