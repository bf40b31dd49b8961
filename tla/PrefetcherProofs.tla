--------------------------- MODULE PrefetcherProofs ---------------------------
(***************************************************************************)
(* Proofs about Prefetcher for every source range and every capacity: no   *)
(* slot is lost, put_nowait always finds room, and the prefetcher          *)
(* implements OrderedStream.                                               *)
(***************************************************************************)
EXTENDS Prefetcher, SequenceTheorems, TLAPS

Kinds == {"batch", "failure", "end"}

ProducerPlaces ==
  {"unborn", "test", "acquire", "check", "read", "recheck",
   "put_batch", "put_failure", "put_end", "account", "note", "done"}

ConsumerPlaces ==
  {"idle", "get", "release", "deliver", "drain", "drain_release", "join",
   "join_close"}

-----------------------------------------------------------------------------
(* The inductive invariant                                                  *)

\* The queue holds consecutive source indices, the first one being `from`.
Chain(q, from) == \A k \in 1..Len(q) : q[k].index = from + k - 1

\* Every item is a batch; every item but the last is one, and the last is not;
\* there are only failures.
AllBatches(q) == \A k \in 1..Len(q) : q[k].kind = "batch"

EndsInMarker(q) ==
  /\ Len(q) > 0
  /\ q[Len(q)].kind # "batch"
  /\ \A k \in 1..Len(q) : k < Len(q) => q[k].kind = "batch"

OnlyFailures(q) == \A k \in 1..Len(q) : q[k].kind = "failure"

EndAtStop(q) == \A k \in 1..Len(q) : q[k].kind = "end" => q[k].index = Stop

\* The consumer has an item in its hands.
InHand == cpc \in {"release", "deliver"}

\* The index that belongs to the head of the queue.
NextOut == Start + consumed + (IF InHand THEN 1 ELSE 0)

\* The producer is still at work on index `index`.
Working ==
  ppc \in {"unborn", "test", "acquire", "check", "read", "recheck",
           "put_batch", "put_failure", "put_end"}

\* Nothing was stopped yet: the queue is the stretch of the source between
\* what was handed over and what the producer works on, and only the
\* producer's last item is not a batch.
Stretch ==
  /\ cpc \in {"idle", "get", "release", "deliver"}
  /\ Chain(queue, NextOut)
  /\ EndAtStop(queue)
  /\ InHand => item.index = Start + consumed
  /\ (InHand /\ item.kind = "end") => item.index = Stop
  /\ Working => index = NextOut + Len(queue)
  /\ ~Working => index = NextOut + Len(queue) - 1
  /\ ppc \notin {"note", "done"} => AllBatches(queue)
  /\ ppc \notin {"note", "done"} => (InHand => item.kind = "batch")
  /\ ppc \in {"note", "done"} =>
       \/ EndsInMarker(queue) /\ (InHand => item.kind = "batch")
       \/ queue = <<>> /\ InHand /\ item.kind # "batch"

Open == stopEvent = "clear" /\ state \in {"new", "running"}

Clear == Open => Stretch

\* After a stop request the consumer is handed nothing but a failure.
Stopped ==
  stopEvent = "set" =>
    /\ (cpc = "join_close" /\ ppc = "read") => queue = <<>>
    /\ (\/ cpc \in {"get", "release", "deliver"}
        \/ cpc = "idle" /\ state = "running") =>
         /\ ppc \in {"read", "recheck", "put_failure", "note", "done"}
         /\ OnlyFailures(queue)
         /\ InHand => item.kind = "failure"

\* The states of the object, the thread and the calls fit together.
Fits ==
  /\ state = "new" =>
       ppc = "unborn" /\ queue = <<>> /\ consumed = 0 /\ last = Start - 1
  /\ ppc = "unborn" => state \in {"new", "closed"}
  /\ (state = "new" /\ cpc \in {"idle"}) => stopEvent = "clear"
  /\ state = "new" => cpc \in {"idle", "drain", "join_close"}
  /\ cpc \in {"get", "release", "deliver"} => state = "running"
  /\ cpc \in {"drain", "drain_release", "join_close"} =>
       stopEvent = "set" /\ state # "closed"
  /\ cpc = "join" => state \in {"failed", "exhausted"}
  /\ state = "closed" => cpc = "idle" /\ ~Alive
  /\ (state = "closed" /\ ppc = "unborn") => queue = <<>>
  /\ ppc \in {"read", "recheck", "put_batch", "put_failure", "account"} =>
       index < Stop
  /\ ppc = "put_end" => index = Stop
  /\ last = Start + consumed - 1
  /\ Start + consumed <= Stop
  /\ state = "exhausted" => Start + consumed = Stop

IInv == TypeOK /\ SlotsConserved /\ Clear /\ Stopped /\ Fits

-----------------------------------------------------------------------------
(* Queues                                                                   *)

\* What put_nowait does to the queue.
LEMMA AppendFacts ==
  ASSUME NEW q \in Seq(Items), NEW x \in Items
  PROVE  /\ Append(q, x) \in Seq(Items)
         /\ Len(Append(q, x)) = Len(q) + 1
         /\ Append(q, x)[Len(q) + 1] = x
         /\ \A k \in 1..Len(q) : Append(q, x)[k] = q[k]
  BY AppendProperties

\* What get does to the queue.
LEMMA TailFacts ==
  ASSUME NEW q \in Seq(Items), q # <<>>
  PROVE  /\ Head(q) \in Items
         /\ Head(q) = q[1]
         /\ Tail(q) \in Seq(Items)
         /\ Len(q) \in Nat /\ Len(q) > 0
         /\ Len(Tail(q)) = Len(q) - 1
         /\ \A k \in 1..Len(Tail(q)) : Tail(q)[k] = q[k + 1]
  BY HeadTailProperties, EmptySeq, LenProperties

\* Consecutive items stay consecutive with the next index behind them.
LEMMA ChainAppend ==
  ASSUME NEW q \in Seq(Items), NEW x \in Items, NEW from \in Nat,
         Chain(q, from), x.index = from + Len(q)
  PROVE  Chain(Append(q, x), from)
<1>1. Len(q) \in Nat
  BY LenProperties
<1> SUFFICES ASSUME NEW k \in 1..(Len(q) + 1)
             PROVE  Append(q, x)[k].index = from + k - 1
  BY AppendFacts DEF Chain
<1>2. CASE k = Len(q) + 1
  BY <1>1, <1>2, AppendFacts
<1>3. CASE k # Len(q) + 1
  <2>1. k \in 1..Len(q)
    BY <1>1, <1>3
  <2>2. QED
    BY <2>1, AppendFacts DEF Chain
<1>4. QED
  BY <1>2, <1>3

\* The first of consecutive items is the one that was due.
LEMMA ChainTail ==
  ASSUME NEW q \in Seq(Items), q # <<>>, NEW from \in Nat, Chain(q, from)
  PROVE  Head(q).index = from /\ Chain(Tail(q), from + 1)
<1>1. Head(q).index = from
  BY TailFacts DEF Chain
<1>2. ASSUME NEW k \in 1..Len(Tail(q))
      PROVE  Tail(q)[k].index = (from + 1) + k - 1
  <2>1. k + 1 \in 1..Len(q)
    BY TailFacts
  <2>2. Tail(q)[k].index = q[k + 1].index
    BY TailFacts
  <2>3. q[k + 1].index = from + (k + 1) - 1
    BY <2>1 DEF Chain
  <2>4. QED
    BY <2>2, <2>3
<1>3. QED
  BY <1>1, <1>2 DEF Chain

-----------------------------------------------------------------------------
(* Slots and types                                                          *)

Putting == ppc \in {"put_batch", "put_failure", "put_end"}

\* A producer that holds a slot finds room in the queue.
LEMMA RoomForPut ==
  ASSUME TypeOK, SlotsConserved, Putting
  PROVE  Len(queue) < Capacity
<1>1. Len(queue) \in Nat /\ slots \in Nat
  BY LenProperties, RangeAssumption DEF TypeOK, RangeAssumption
<1>2. ProducerHolds = 1 /\ ConsumerHolds \in {0, 1}
  BY DEF Putting, ProducerHolds, ConsumerHolds
<1>3. QED
  BY <1>1, <1>2, RangeAssumption DEF RangeAssumption, SlotsConserved

\* A put lengthens the queue by one: there is room for it.
LEMMA PutEffect ==
  ASSUME TypeOK, SlotsConserved, Putting,
         NEW x \in Items, NEW then, PutNowait(x, then)
  PROVE  /\ queue' = Append(queue, x)
         /\ ppc' = then
         /\ queue' \in Seq(Items)
         /\ Len(queue) \in Nat /\ Len(queue') = Len(queue) + 1
<1>1. queue' = Append(queue, x) /\ ppc' = then
  BY RoomForPut DEF PutNowait
<1>2. queue \in Seq(Items)
  BY DEF TypeOK
<1>3. QED
  BY <1>1, <1>2, AppendFacts, LenProperties

\* The items the producer makes at its index.
LEMMA ItemsMade ==
  ASSUME TypeOK
  PROVE  /\ Item("batch", index) \in Items
         /\ Item("failure", index) \in Items
         /\ Item("end", index) \in Items
  BY DEF TypeOK, Item, Items

\* The three puts together: what is appended and where the producer goes on.
LEMMA PutCases ==
  ASSUME TypeOK, SlotsConserved, PutBatch \/ PutFailure \/ PutEnd
  PROVE  /\ Putting
         /\ queue' \in Seq(Items)
         /\ Len(queue) \in Nat /\ Len(queue') = Len(queue) + 1
         /\ ppc' \in {"account", "note"}
  BY PutEffect, ItemsMade DEF PutBatch, PutFailure, PutEnd, Putting

\* The slot the producer held is now held by the item in the queue.
LEMMA PutKeepsSlots ==
  ASSUME TypeOK, SlotsConserved, PutBatch \/ PutFailure \/ PutEnd
  PROVE  SlotsConserved'
<1>1. /\ ProducerHolds = 1 /\ ConsumerHolds' = ConsumerHolds
      /\ slots' = slots
  BY PutCases
 
    DEF Putting, ProducerHolds, ConsumerHolds, PutBatch, PutFailure, PutEnd,
        consumer
<1>2. ProducerHolds' = 0
  BY PutCases DEF ProducerHolds
<1>3. ConsumerHolds \in {0, 1} /\ slots \in Nat
  BY DEF ConsumerHolds, TypeOK
<1>4. \A s, l \in Nat, c \in {0, 1} :
        s + 1 + l + c = Capacity => s + 0 + (l + 1) + c = Capacity
  BY RangeAssumption DEF RangeAssumption
<1>5. slots + 0 + (Len(queue) + 1) + ConsumerHolds = Capacity
  BY <1>1, <1>3, <1>4, PutCases DEF SlotsConserved
<1>6. QED
  BY <1>1, <1>2, <1>5, PutCases DEF SlotsConserved

\* A take shortens the queue by one and hands out its first item.
LEMMA TakeEffect ==
  ASSUME TypeOK, NEW here, NEW then, Take(here, then)
  PROVE  /\ item' = queue[1] /\ item' \in Items
         /\ queue' = Tail(queue) /\ queue' \in Seq(Items)
         /\ Len(queue) \in Nat /\ Len(queue) > 0
         /\ Len(queue') \in Nat /\ Len(queue') = Len(queue) - 1
<1>1. queue \in Seq(Items) /\ queue # <<>>
  BY DEF TypeOK, Take
<1>2. item' = Head(queue) /\ queue' = Tail(queue)
  BY DEF Take
<1>3. QED
  BY <1>1, <1>2, TailFacts, LenProperties

\* The same for the two places that take.
LEMMA TakeCases ==
  ASSUME TypeOK, Get \/ DrainTake
  PROVE  /\ item' \in Items
         /\ queue' \in Seq(Items)
         /\ Len(queue) \in Nat /\ Len(queue) > 0
         /\ Len(queue') = Len(queue) - 1
  BY TakeEffect DEF Get, DrainTake

\* Every step keeps the slot equation.
LEMMA SlotsStep ==
  TypeOK /\ SlotsConserved /\ Fits /\ [Next]_vars => SlotsConserved'
<1> SUFFICES ASSUME TypeOK, SlotsConserved, Fits, [Next]_vars
           PROVE SlotsConserved'
  OBVIOUS
<1> USE RangeAssumption
    DEF RangeAssumption, TypeOK, SlotsConserved, ProducerHolds, ConsumerHolds,
        Putting, producer, consumer
<1>1. CASE TestStop
  BY <1>1 DEF TestStop
<1>2. CASE AcquireSlot
  BY <1>2 DEF AcquireSlot
<1>3. CASE AcquireTimeout
  BY <1>3 DEF AcquireTimeout
<1>4. CASE CheckBeforeRead
  BY <1>4 DEF CheckBeforeRead, CheckStop
<1>5. CASE Read
  BY <1>5 DEF Read
<1>6. CASE CheckAfterRead
  BY <1>6 DEF CheckAfterRead, CheckStop
<1>7. CASE PutBatch
  BY <1>7, PutKeepsSlots
<1>8. CASE PutFailure
  BY <1>8, PutKeepsSlots
<1>9. CASE PutEnd
  BY <1>9, PutKeepsSlots
<1>10. CASE Account
  BY <1>10 DEF Account, RecordDepth
<1>11. CASE Note
  BY <1>11 DEF Note, RecordDepth
<1>12. CASE StartCall
  BY <1>12 DEF StartCall, StartThread, Fits
<1>13. CASE NextCall
  BY <1>13 DEF NextCall, StartThread, Fits
<1>14. CASE Get
  BY <1>14, TakeCases DEF Get, Take
<1>15. CASE Release
  BY <1>15 DEF Release, GiveBack
<1>16. CASE Deliver
  BY <1>16 DEF Deliver
<1>17. CASE CloseCall
  BY <1>17 DEF CloseCall
<1>18. CASE DrainTake
  BY <1>18, TakeCases DEF DrainTake, Take
<1>19. CASE DrainRelease
  BY <1>19 DEF DrainRelease, GiveBack
<1>20. CASE DrainEmpty
  BY <1>20 DEF DrainEmpty
<1>21. CASE Join
  BY <1>21 DEF Join, Alive
<1>22. CASE JoinTimeout
  BY <1>22 DEF JoinTimeout
<1>23. CASE UNCHANGED vars
  BY <1>23 DEF vars, producer, consumer
<1>24. QED
  BY <1>1, <1>2, <1>3, <1>4, <1>5, <1>6, <1>7, <1>8, <1>9, <1>10, <1>11,
     <1>12, <1>13, <1>14, <1>15, <1>16, <1>17, <1>18, <1>19, <1>20, <1>21,
     <1>22, <1>23
  DEF Next, Produce, Consume, Call

\* The slot equation bounds the queue and what a release leads to.
LEMMA QueueDepth ==
  ASSUME TypeOK, SlotsConserved
  PROVE  /\ Len(queue) \in 0..Capacity
         /\ ProducerHolds = 1 \/ ConsumerHolds = 1 => slots + 1 \in 0..Capacity
<1>1. /\ Len(queue) \in Nat /\ slots \in Nat
      /\ ProducerHolds \in {0, 1} /\ ConsumerHolds \in {0, 1}
  BY LenProperties, RangeAssumption
  DEF TypeOK, RangeAssumption, ProducerHolds, ConsumerHolds
<1>2. QED
  BY <1>1, RangeAssumption DEF RangeAssumption, SlotsConserved

\* Every step keeps the types.
LEMMA TypeStep == TypeOK /\ SlotsConserved /\ Fits /\ [Next]_vars => TypeOK'
<1> SUFFICES ASSUME TypeOK, SlotsConserved, Fits, [Next]_vars PROVE TypeOK'
  OBVIOUS
<1> USE RangeAssumption
    DEF RangeAssumption, TypeOK, States, ProducerHolds, ConsumerHolds,
        producer, consumer, Fits
<1>1. CASE TestStop
  BY <1>1 DEF TestStop
<1>2. CASE AcquireSlot
  BY <1>2 DEF AcquireSlot
<1>3. CASE AcquireTimeout
  BY <1>3 DEF AcquireTimeout
<1>4. CASE CheckBeforeRead
  BY <1>4, QueueDepth DEF CheckBeforeRead, CheckStop
<1>5. CASE Read
  BY <1>5 DEF Read
<1>6. CASE CheckAfterRead
  BY <1>6, QueueDepth DEF CheckAfterRead, CheckStop
<1>7. CASE PutBatch
  BY <1>7, PutCases DEF PutBatch
<1>8. CASE PutFailure
  BY <1>8, PutCases DEF PutFailure
<1>9. CASE PutEnd
  BY <1>9, PutCases DEF PutEnd
<1>10. CASE Account
  BY <1>10, QueueDepth DEF Account, RecordDepth
<1>11. CASE Note
  BY <1>11, QueueDepth DEF Note, RecordDepth
<1>12. CASE StartCall
  BY <1>12 DEF StartCall, StartThread
<1>13. CASE NextCall
  BY <1>13 DEF NextCall, StartThread
<1>14. CASE Get
  BY <1>14, TakeCases DEF Get, Take
<1>15. CASE Release
  BY <1>15, QueueDepth DEF Release, GiveBack
<1>16. CASE Deliver
  <2>1. item.index \in (Start - 1)..Stop
    BY DEF Items
  <2>2. last' \in (Start - 1)..Stop
    BY <1>16, <2>1 DEF Deliver
  <2>3. consumed' \in Nat
    BY <1>16 DEF Deliver
  <2>4. QED
    BY <1>16, <2>2, <2>3 DEF Deliver
<1>17. CASE CloseCall
  BY <1>17 DEF CloseCall
<1>18. CASE DrainTake
  BY <1>18, TakeCases DEF DrainTake, Take
<1>19. CASE DrainRelease
  BY <1>19, QueueDepth DEF DrainRelease, GiveBack
<1>20. CASE DrainEmpty
  BY <1>20 DEF DrainEmpty
<1>21. CASE Join
  BY <1>21 DEF Join, Alive
<1>22. CASE JoinTimeout
  BY <1>22 DEF JoinTimeout
<1>23. CASE UNCHANGED vars
  BY <1>23 DEF vars, producer, consumer
<1>24. QED
  BY <1>1, <1>2, <1>3, <1>4, <1>5, <1>6, <1>7, <1>8, <1>9, <1>10, <1>11,
     <1>12, <1>13, <1>14, <1>15, <1>16, <1>17, <1>18, <1>19, <1>20, <1>21,
     <1>22, <1>23
  DEF Next, Produce, Consume, Call

-----------------------------------------------------------------------------
(* The states of the object and of the threads                              *)

\* What the consumer has in its hands when it hands it over.
LEMMA Handed ==
  ASSUME TypeOK, Clear, Stopped, Fits, cpc = "deliver"
  PROVE  /\ item.kind = "batch" =>
              item.index = Start + consumed /\ Start + consumed + 1 <= Stop
         /\ item.kind = "end" => Start + consumed = Stop
<1>1. CASE stopEvent = "set"
  BY <1>1 DEF Stopped, InHand
<1>2. CASE stopEvent = "clear"
  <2>1. state = "running" /\ InHand
    BY DEF Fits, InHand
  <2>2. /\ item.index = Start + consumed
        /\ item.kind = "end" => item.index = Stop
    BY <1>2, <2>1 DEF Clear, Open, Stretch
  <2>3. NextOut = Start + consumed + 1
    BY <2>1 DEF NextOut
  <2>4. Len(queue) \in Nat /\ index \in Start..Stop /\ consumed \in Nat
    BY LenProperties DEF TypeOK
  <2>5. ASSUME item.kind = "batch" PROVE Start + consumed + 1 <= Stop
    <3>1. CASE Working
      <4>1. index = Start + consumed + 1 + Len(queue)
        BY <1>2, <2>1, <2>3, <3>1 DEF Clear, Open, Stretch
      <4>2. QED
        BY <2>4, <4>1, RangeAssumption DEF RangeAssumption
    <3>2. CASE ~Working
      <4>1. index = Start + consumed + 1 + Len(queue) - 1
        BY <1>2, <2>1, <2>3, <3>2 DEF Clear, Open, Stretch
      <4>2. ppc \in {"account", "note", "done"}
        BY <3>2 DEF Working, TypeOK
      <4>3. index < Stop \/ Len(queue) > 0
        BY <1>2, <2>1, <2>5, <4>2 DEF Clear, Open, Stretch, EndsInMarker, Fits
      <4>4. QED
        BY <2>4, <4>1, <4>3, RangeAssumption DEF RangeAssumption
    <3>3. QED
      BY <3>1, <3>2
  <2>6. QED
    BY <2>2, <2>5
<1>3. QED
  BY <1>1, <1>2 DEF TypeOK

\* Every step keeps what each place implies for the state.
LEMMA FitsStep == TypeOK /\ Clear /\ Stopped /\ Fits /\ [Next]_vars => Fits'
<1> SUFFICES ASSUME TypeOK, Clear, Stopped, Fits, [Next]_vars PROVE Fits'
  OBVIOUS
<1> USE RangeAssumption
    DEF RangeAssumption, TypeOK, States, Fits, Alive, producer, consumer
<1>1. CASE TestStop
  BY <1>1 DEF TestStop
<1>2. CASE AcquireSlot
  BY <1>2 DEF AcquireSlot
<1>3. CASE AcquireTimeout
  BY <1>3 DEF AcquireTimeout
<1>4. CASE CheckBeforeRead
  BY <1>4 DEF CheckBeforeRead, CheckStop
<1>5. CASE Read
  BY <1>5 DEF Read
<1>6. CASE CheckAfterRead
  BY <1>6 DEF CheckAfterRead, CheckStop
<1>7. CASE PutBatch
  BY <1>7 DEF PutBatch, PutNowait
<1>8. CASE PutFailure
  BY <1>8 DEF PutFailure, PutNowait
<1>9. CASE PutEnd
  BY <1>9 DEF PutEnd, PutNowait
<1>10. CASE Account
  BY <1>10 DEF Account, RecordDepth
<1>11. CASE Note
  BY <1>11 DEF Note, RecordDepth
<1>12. CASE StartCall
  BY <1>12 DEF StartCall, StartThread
<1>13. CASE NextCall
  BY <1>13 DEF NextCall, StartThread
<1>14. CASE Get
  BY <1>14 DEF Get, Take
<1>15. CASE Release
  BY <1>15 DEF Release, GiveBack
<1>16. CASE Deliver
  BY <1>16, Handed DEF Deliver
<1>17. CASE CloseCall
  BY <1>17 DEF CloseCall
<1>18. CASE DrainTake
  BY <1>18 DEF DrainTake, Take
<1>19. CASE DrainRelease
  BY <1>19 DEF DrainRelease, GiveBack
<1>20. CASE DrainEmpty
  BY <1>20 DEF DrainEmpty
<1>21. CASE Join
  BY <1>21 DEF Join, Alive
<1>22. CASE JoinTimeout
  BY <1>22 DEF JoinTimeout
<1>23. CASE UNCHANGED vars
  BY <1>23 DEF vars, producer, consumer
<1>24. QED
  BY <1>1, <1>2, <1>3, <1>4, <1>5, <1>6, <1>7, <1>8, <1>9, <1>10, <1>11,
     <1>12, <1>13, <1>14, <1>15, <1>16, <1>17, <1>18, <1>19, <1>20, <1>21,
     <1>22, <1>23
  DEF Next, Produce, Consume, Call

-----------------------------------------------------------------------------
(* After a stop request                                                     *)

\* After a stop request the producer only queues failures.
LEMMA FailureQueued ==
  ASSUME TypeOK, SlotsConserved, OnlyFailures(queue), PutFailure
  PROVE  OnlyFailures(queue')
<1>1. queue \in Seq(Items) /\ Item("failure", index) \in Items
  BY ItemsMade DEF TypeOK
<1>2. queue' = Append(queue, Item("failure", index))
  BY PutEffect, ItemsMade DEF PutFailure, Putting
<1>3. Len(queue) \in Nat
  BY <1>1, LenProperties
<1> SUFFICES ASSUME NEW k \in 1..(Len(queue) + 1)
             PROVE  queue'[k].kind = "failure"
  BY <1>1, <1>2, AppendFacts DEF OnlyFailures
<1>4. CASE k = Len(queue) + 1
  BY <1>1, <1>2, <1>4, AppendFacts DEF Item
<1>5. CASE k # Len(queue) + 1
  <2>1. k \in 1..Len(queue)
    BY <1>3, <1>5
  <2>2. QED
    BY <1>1, <1>2, <2>1, AppendFacts DEF OnlyFailures
<1>6. QED
  BY <1>4, <1>5

\* What is taken out of such a queue is a failure.
LEMMA FailureTaken ==
  ASSUME TypeOK, OnlyFailures(queue), Get
  PROVE  OnlyFailures(queue') /\ item'.kind = "failure"
<1>1. /\ queue \in Seq(Items) /\ queue # <<>>
      /\ item' = Head(queue) /\ queue' = Tail(queue)
  BY DEF TypeOK, Get, Take
<1>2. item'.kind = "failure"
  BY <1>1, TailFacts DEF OnlyFailures
<1>3. ASSUME NEW k \in 1..Len(Tail(queue))
      PROVE  Tail(queue)[k].kind = "failure"
  <2>1. k + 1 \in 1..Len(queue)
    BY <1>1, TailFacts
  <2>2. QED
    BY <1>1, <2>1, TailFacts DEF OnlyFailures
<1>4. QED
  BY <1>1, <1>2, <1>3 DEF OnlyFailures

\* Every step keeps the part of the invariant about stop requests.
LEMMA StoppedStep ==
  TypeOK /\ SlotsConserved /\ Stopped /\ Fits /\ [Next]_vars => Stopped'
<1> SUFFICES ASSUME TypeOK, SlotsConserved, Stopped, Fits, [Next]_vars
           PROVE Stopped'
  OBVIOUS
<1> USE DEF TypeOK, States, Stopped, Fits, InHand, producer, consumer
<1>1. CASE TestStop
  BY <1>1 DEF TestStop
<1>2. CASE AcquireSlot
  BY <1>2 DEF AcquireSlot
<1>3. CASE AcquireTimeout
  BY <1>3 DEF AcquireTimeout
<1>4. CASE CheckBeforeRead
  BY <1>4 DEF CheckBeforeRead, CheckStop
<1>5. CASE Read
  BY <1>5 DEF Read
<1>6. CASE CheckAfterRead
  BY <1>6 DEF CheckAfterRead, CheckStop
<1>7. CASE PutBatch
  BY <1>7 DEF PutBatch, PutNowait
<1>8. CASE PutFailure
  <2>1. ppc' = "note"
    BY <1>8, PutEffect, ItemsMade DEF PutFailure, Putting
  <2>2. OnlyFailures(queue) => OnlyFailures(queue')
    BY <1>8, FailureQueued
  <2>3. QED
    BY <1>8, <2>1, <2>2 DEF PutFailure
<1>9. CASE PutEnd
  BY <1>9 DEF PutEnd, PutNowait
<1>10. CASE Account
  BY <1>10 DEF Account, RecordDepth
<1>11. CASE Note
  BY <1>11 DEF Note, RecordDepth
<1>12. CASE StartCall
  BY <1>12 DEF StartCall, StartThread
<1>13. CASE NextCall
  BY <1>13 DEF NextCall, StartThread
<1>14. CASE Get
  <2>1. OnlyFailures(queue) => OnlyFailures(queue') /\ item'.kind = "failure"
    BY <1>14, FailureTaken
  <2>2. QED
    BY <1>14, <2>1 DEF Get, Take
<1>15. CASE Release
  BY <1>15 DEF Release, GiveBack
<1>16. CASE Deliver
  BY <1>16 DEF Deliver
<1>17. CASE CloseCall
  BY <1>17 DEF CloseCall
<1>18. CASE DrainTake
  BY <1>18 DEF DrainTake, Take
<1>19. CASE DrainRelease
  BY <1>19 DEF DrainRelease, GiveBack
<1>20. CASE DrainEmpty
  BY <1>20 DEF DrainEmpty
<1>21. CASE Join
  BY <1>21 DEF Join, Alive
<1>22. CASE JoinTimeout
  <2>1. CASE cpc = "join"
    BY <1>22, <2>1 DEF JoinTimeout
  <2>2. CASE cpc = "join_close"
    <3>1. stopEvent = "set" /\ ppc = "read" /\ queue = <<>>
      BY <1>22, <2>2 DEF JoinTimeout
    <3>2. OnlyFailures(queue)
      BY <3>1, EmptySeq DEF OnlyFailures
    <3>3. QED
      BY <1>22, <3>1, <3>2 DEF JoinTimeout
  <2>3. QED
    BY <1>22, <2>1, <2>2 DEF JoinTimeout
<1>23. CASE UNCHANGED vars
  BY <1>23 DEF vars, producer, consumer
<1>24. QED
  BY <1>1, <1>2, <1>3, <1>4, <1>5, <1>6, <1>7, <1>8, <1>9, <1>10, <1>11,
     <1>12, <1>13, <1>14, <1>15, <1>16, <1>17, <1>18, <1>19, <1>20, <1>21,
     <1>22, <1>23
  DEF Next, Produce, Consume, Call

-----------------------------------------------------------------------------
(* Before a stop request                                                    *)

\* A queue of batches stays one, or ends in one marker.
LEMMA BatchQueued ==
  ASSUME NEW q \in Seq(Items), NEW x \in Items, AllBatches(q), EndAtStop(q),
         x.kind = "end" => x.index = Stop
  PROVE  /\ EndAtStop(Append(q, x))
         /\ x.kind = "batch" => AllBatches(Append(q, x))
         /\ x.kind # "batch" => EndsInMarker(Append(q, x))
<1>1. Len(q) \in Nat
  BY LenProperties
<1>2. /\ Len(Append(q, x)) = Len(q) + 1
      /\ Append(q, x)[Len(q) + 1] = x
      /\ \A k \in 1..Len(q) : Append(q, x)[k] = q[k]
  BY AppendFacts
<1>3. \A k \in 1..(Len(q) + 1) : k = Len(q) + 1 \/ k \in 1..Len(q)
  BY <1>1
<1>4. EndAtStop(Append(q, x))
  BY <1>2, <1>3 DEF EndAtStop
<1>5. x.kind = "batch" => AllBatches(Append(q, x))
  BY <1>2, <1>3 DEF AllBatches
<1>6. ASSUME x.kind # "batch" PROVE EndsInMarker(Append(q, x))
  <2>1. \A k \in 1..(Len(q) + 1) : k < Len(q) + 1 => k \in 1..Len(q)
    BY <1>1
  <2>2. Len(q) + 1 > 0
    BY <1>1
  <2>3. QED
    BY <1>2, <1>6, <2>1, <2>2 DEF AllBatches, EndsInMarker
<1>7. QED
  BY <1>4, <1>5, <1>6

\* What is taken is a batch, or the marker and the queue is empty.
LEMMA BatchTaken ==
  ASSUME NEW q \in Seq(Items), q # <<>>, EndAtStop(q)
  PROVE  /\ EndAtStop(Tail(q))
         /\ Head(q).kind = "end" => Head(q).index = Stop
         /\ AllBatches(q) => AllBatches(Tail(q)) /\ Head(q).kind = "batch"
         /\ EndsInMarker(q) =>
              \/ EndsInMarker(Tail(q)) /\ Head(q).kind = "batch"
              \/ Tail(q) = <<>> /\ Head(q).kind # "batch"
<1>1. /\ Len(q) \in Nat /\ Len(q) > 0 /\ Head(q) = q[1]
      /\ Len(Tail(q)) = Len(q) - 1 /\ Tail(q) \in Seq(Items)
      /\ \A k \in 1..Len(Tail(q)) : Tail(q)[k] = q[k + 1]
  BY TailFacts
<1>2. \A k \in 1..Len(Tail(q)) : k + 1 \in 1..Len(q)
  BY <1>1
<1>3. 1 \in 1..Len(q)
  BY <1>1
<1>4. EndAtStop(Tail(q)) /\ (Head(q).kind = "end" => Head(q).index = Stop)
  BY <1>1, <1>2, <1>3 DEF EndAtStop
<1>5. AllBatches(q) => AllBatches(Tail(q)) /\ Head(q).kind = "batch"
  BY <1>1, <1>2, <1>3 DEF AllBatches
<1>6. ASSUME EndsInMarker(q), Len(q) = 1
      PROVE  Tail(q) = <<>> /\ Head(q).kind # "batch"
  <2>1. Len(Tail(q)) = 0 /\ Head(q).kind # "batch"
    BY <1>1, <1>6 DEF EndsInMarker
  <2>2. Tail(q) # <<>> => Len(Tail(q)) \in Nat \ {0}
    BY <1>1, EmptySeq
  <2>3. QED
    BY <2>1, <2>2
<1>7. ASSUME EndsInMarker(q), Len(q) # 1
      PROVE  EndsInMarker(Tail(q)) /\ Head(q).kind = "batch"
  <2>1. Len(Tail(q)) > 0 /\ Len(Tail(q)) \in 1..Len(Tail(q))
    BY <1>1, <1>7
  <2>2. Tail(q)[Len(Tail(q))] = q[Len(q)]
    BY <1>1, <2>1
  <2>3. Head(q).kind = "batch"
    BY <1>1, <1>3, <1>7 DEF EndsInMarker
  <2>4. ASSUME NEW k \in 1..Len(Tail(q)), k < Len(Tail(q))
        PROVE  Tail(q)[k].kind = "batch"
    <3>1. k + 1 \in 1..Len(q) /\ k + 1 < Len(q)
      BY <1>1, <2>4
    <3>2. QED
      BY <1>1, <1>7, <3>1 DEF EndsInMarker
  <2>5. QED
    BY <1>7, <2>1, <2>2, <2>3, <2>4 DEF EndsInMarker
<1>8. QED
  BY <1>4, <1>5, <1>6, <1>7

\* The types of the stretch between consumer and producer.
LEMMA StretchTypes ==
  ASSUME TypeOK
  PROVE  /\ Len(queue) \in Nat /\ queue \in Seq(Items)
         /\ NextOut \in Nat /\ consumed \in Nat
         /\ InHand => NextOut = Start + consumed + 1
         /\ ~InHand => NextOut = Start + consumed
  BY LenProperties, RangeAssumption DEF TypeOK, NextOut, InHand, RangeAssumption

\* A put of the item at hand stretches the queue by one.
LEMMA StretchByPut ==
  ASSUME TypeOK, SlotsConserved, Fits, Stretch, PutBatch \/ PutFailure \/ PutEnd
  PROVE  Stretch'
<1> DEFINE x == Item(IF PutBatch THEN "batch"
                     ELSE IF PutFailure THEN "failure" ELSE "end", index)
<1>1. /\ queue' = Append(queue, x) /\ x \in Items /\ x.index = index
      /\ ppc' = (IF x.kind = "batch" THEN "account" ELSE "note")
      /\ x.kind = "end" => index = Stop
  <2>1. CASE PutBatch
    BY <2>1, PutEffect, ItemsMade DEF PutBatch, Putting, Item
  <2>2. CASE PutFailure
    BY <2>2, PutEffect, ItemsMade DEF PutFailure, PutBatch, Putting, Item
  <2>3. CASE PutEnd
    BY <2>3, PutEffect, ItemsMade
      DEF PutEnd, PutFailure, PutBatch, Putting, Item, Fits
  <2>4. QED
    BY <2>1, <2>2, <2>3
<1>2. UNCHANGED <<index, cpc, item, consumed>>
  BY DEF PutBatch, PutFailure, PutEnd, consumer
<1>3. InHand' = InHand /\ NextOut' = NextOut
  BY <1>2 DEF InHand, NextOut
<1>4. Putting
  BY PutCases
<1>5. index = NextOut + Len(queue) /\ AllBatches(queue) /\ EndAtStop(queue)
      /\ Chain(queue, NextOut) /\ (InHand => item.kind = "batch")
  BY <1>4 DEF Stretch, Putting, Working
<1>6. Chain(queue', NextOut')
  BY <1>1, <1>3, <1>5, ChainAppend, StretchTypes
<1>7. /\ EndAtStop(queue')
      /\ x.kind = "batch" => AllBatches(queue')
      /\ x.kind # "batch" => EndsInMarker(queue')
  BY <1>1, <1>5, BatchQueued, StretchTypes
<1>8. Len(queue') = Len(queue) + 1
  BY PutCases
<1>9. index' = NextOut' + Len(queue') - 1
  BY <1>2, <1>3, <1>5, <1>8, StretchTypes
<1>10. ~Working'
  BY <1>1 DEF Working
<1>11. QED
  BY <1>1, <1>2, <1>3, <1>5, <1>6, <1>7, <1>9, <1>10 DEF Stretch

\* Taking the head out moves the stretch by one.
LEMMA StretchByGet ==
  ASSUME TypeOK, Stretch, Get
  PROVE  Stretch'
<1>1. /\ queue # <<>> /\ item' = Head(queue) /\ queue' = Tail(queue)
      /\ UNCHANGED <<index, ppc, consumed>>
      /\ cpc = "get" /\ cpc' = "release"
  BY DEF Get, Take, producer
<1>2. /\ ~InHand /\ InHand' /\ Working' = Working
      /\ NextOut' = NextOut + 1 /\ NextOut = Start + consumed
  BY <1>1, StretchTypes DEF InHand, NextOut, Working
<1>3. Len(queue') = Len(queue) - 1
  BY <1>1, StretchTypes, TailFacts
<1>4. item'.index = Start + consumed' /\ Chain(queue', NextOut')
  BY <1>1, <1>2, ChainTail, StretchTypes DEF Stretch
<1>5. /\ EndAtStop(queue')
      /\ item'.kind = "end" => item'.index = Stop
      /\ AllBatches(queue) => AllBatches(queue') /\ item'.kind = "batch"
      /\ EndsInMarker(queue) =>
           \/ EndsInMarker(queue') /\ item'.kind = "batch"
           \/ queue' = <<>> /\ item'.kind # "batch"
  BY <1>1, BatchTaken, StretchTypes DEF Stretch
<1>6. /\ Working => index' = NextOut' + Len(queue')
      /\ ~Working => index' = NextOut' + Len(queue') - 1
  BY <1>1, <1>2, <1>3, StretchTypes DEF Stretch
<1>7. QED
  BY <1>1, <1>2, <1>4, <1>5, <1>6 DEF Stretch

\* Handing a batch over leaves the stretch where it is.
LEMMA StretchByDeliver ==
  ASSUME TypeOK, Stretch, Deliver, item.kind = "batch"
  PROVE  Stretch'
<1>1. /\ UNCHANGED <<queue, index, ppc, item>>
      /\ consumed' = consumed + 1 /\ cpc = "deliver" /\ cpc' = "idle"
  BY DEF Deliver, producer
<1>2. InHand /\ ~InHand' /\ Working' = Working
  BY <1>1 DEF InHand, Working
<1>3. NextOut' = Start + (consumed + 1) + 0 /\ NextOut = Start + consumed + 1
  BY <1>1, <1>2 DEF NextOut
<1>4. \A n \in Nat : Start + (n + 1) + 0 = Start + n + 1
  BY RangeAssumption DEF RangeAssumption
<1>5. NextOut' = NextOut
  BY <1>3, <1>4, StretchTypes
<1>6. QED
  BY <1>1, <1>2, <1>5 DEF Stretch

\* The next turn of the loop.
LEMMA StretchByAccount ==
  ASSUME TypeOK, Stretch, Account
  PROVE  Stretch'
<1>1. /\ UNCHANGED <<queue, cpc, item, consumed>>
      /\ index' = index + 1 /\ ppc = "account" /\ ppc' = "test"
  BY DEF Account, consumer
<1>2. InHand' = InHand /\ NextOut' = NextOut /\ ~Working /\ Working'
  BY <1>1 DEF InHand, NextOut, Working
<1>3. index' = NextOut' + Len(queue')
  BY <1>1, <1>2, StretchTypes DEF Stretch
<1>4. QED
  BY <1>1, <1>2, <1>3 DEF Stretch

\* Every other step moves a thread without touching the stretch.
LEMMA StretchKept ==
  ASSUME TypeOK, Stretch, UNCHANGED <<queue, index, item, consumed>>,
         cpc' \in {"idle", "get", "release", "deliver"},
         InHand' = InHand, Working' = Working,
         ppc' \in {"note", "done"} => ppc \in {"note", "done"},
         ppc \in {"note", "done"} => ppc' \in {"note", "done"}
  PROVE  Stretch'
<1>1. NextOut' = NextOut
  BY DEF NextOut
<1>2. QED
  BY <1>1 DEF Stretch

\* Every step keeps the part about a prefetcher nobody has stopped.
LEMMA ClearStep ==
  TypeOK /\ SlotsConserved /\ Fits /\ Clear /\ [Next]_vars => Clear'
<1> SUFFICES ASSUME TypeOK, SlotsConserved, Fits, Clear, [Next]_vars, Open'
             PROVE  Stretch'
  BY DEF Clear
<1>1. CASE TestStop
  <2>1. Open /\ UNCHANGED <<queue, index, item, consumed>>
    BY <1>1 DEF TestStop, Open, producer, consumer
  <2>2. /\ cpc' \in {"idle", "get", "release", "deliver"}
        /\ InHand' = InHand /\ Working' = Working
        /\ ppc' \in {"note", "done"} => ppc \in {"note", "done"}
        /\ ppc \in {"note", "done"} => ppc' \in {"note", "done"}
    BY <1>1, <2>1
      DEF TestStop, InHand, Working, Open, Clear, Stretch, Fits, producer,
          consumer
  <2>3. QED
    BY <2>1, <2>2, StretchKept DEF Clear
<1>2. CASE AcquireSlot
  <2>1. Open /\ UNCHANGED <<queue, index, item, consumed>>
    BY <1>2 DEF AcquireSlot, Open, producer, consumer
  <2>2. /\ cpc' \in {"idle", "get", "release", "deliver"}
        /\ InHand' = InHand /\ Working' = Working
        /\ ppc' \in {"note", "done"} => ppc \in {"note", "done"}
        /\ ppc \in {"note", "done"} => ppc' \in {"note", "done"}
    BY <1>2, <2>1
      DEF AcquireSlot, InHand, Working, Open, Clear, Stretch, Fits, producer,
          consumer
  <2>3. QED
    BY <2>1, <2>2, StretchKept DEF Clear
<1>3. CASE AcquireTimeout
  <2>1. Open /\ UNCHANGED <<queue, index, item, consumed>>
    BY <1>3 DEF AcquireTimeout, Open, producer, consumer
  <2>2. /\ cpc' \in {"idle", "get", "release", "deliver"}
        /\ InHand' = InHand /\ Working' = Working
        /\ ppc' \in {"note", "done"} => ppc \in {"note", "done"}
        /\ ppc \in {"note", "done"} => ppc' \in {"note", "done"}
    BY <1>3, <2>1
      DEF AcquireTimeout, InHand, Working, Open, Clear, Stretch, Fits,
          producer, consumer
  <2>3. QED
    BY <2>1, <2>2, StretchKept DEF Clear
<1>4. CASE CheckBeforeRead
  <2>1. Open /\ UNCHANGED <<queue, index, item, consumed>>
    BY <1>4 DEF CheckBeforeRead, CheckStop, Open, producer, consumer
  <2>2. /\ cpc' \in {"idle", "get", "release", "deliver"}
        /\ InHand' = InHand /\ Working' = Working
        /\ ppc' \in {"note", "done"} => ppc \in {"note", "done"}
        /\ ppc \in {"note", "done"} => ppc' \in {"note", "done"}
    BY <1>4, <2>1
      DEF CheckBeforeRead, CheckStop, InHand, Working, Open, Clear, Stretch,
          Fits, producer, consumer
  <2>3. QED
    BY <2>1, <2>2, StretchKept DEF Clear
<1>5. CASE Read
  <2>1. Open /\ UNCHANGED <<queue, index, item, consumed>>
    BY <1>5 DEF Read, Open, producer, consumer
  <2>2. /\ cpc' \in {"idle", "get", "release", "deliver"}
        /\ InHand' = InHand /\ Working' = Working
        /\ ppc' \in {"note", "done"} => ppc \in {"note", "done"}
        /\ ppc \in {"note", "done"} => ppc' \in {"note", "done"}
    BY <1>5, <2>1
      DEF Read, InHand, Working, Open, Clear, Stretch, Fits, producer,
          consumer
  <2>3. QED
    BY <2>1, <2>2, StretchKept DEF Clear
<1>6. CASE CheckAfterRead
  <2>1. Open /\ UNCHANGED <<queue, index, item, consumed>>
    BY <1>6 DEF CheckAfterRead, CheckStop, Open, producer, consumer
  <2>2. /\ cpc' \in {"idle", "get", "release", "deliver"}
        /\ InHand' = InHand /\ Working' = Working
        /\ ppc' \in {"note", "done"} => ppc \in {"note", "done"}
        /\ ppc \in {"note", "done"} => ppc' \in {"note", "done"}
    BY <1>6, <2>1
      DEF CheckAfterRead, CheckStop, InHand, Working, Open, Clear, Stretch,
          Fits, producer, consumer
  <2>3. QED
    BY <2>1, <2>2, StretchKept DEF Clear
<1>7. CASE PutBatch
  <2>1. Open
    BY <1>7 DEF PutBatch, Open, consumer
  <2>2. QED
    BY <1>7, <2>1, StretchByPut DEF Clear
<1>8. CASE PutFailure
  <2>1. Open
    BY <1>8 DEF PutFailure, Open, consumer
  <2>2. QED
    BY <1>8, <2>1, StretchByPut DEF Clear
<1>9. CASE PutEnd
  <2>1. Open
    BY <1>9 DEF PutEnd, Open, consumer
  <2>2. QED
    BY <1>9, <2>1, StretchByPut DEF Clear
<1>10. CASE Account
  <2>1. Open
    BY <1>10 DEF Account, Open, consumer
  <2>2. QED
    BY <1>10, <2>1, StretchByAccount DEF Clear
<1>11. CASE Note
  <2>1. Open /\ UNCHANGED <<queue, index, item, consumed>>
    BY <1>11 DEF Note, RecordDepth, Open, producer, consumer
  <2>2. /\ cpc' \in {"idle", "get", "release", "deliver"}
        /\ InHand' = InHand /\ Working' = Working
        /\ ppc' \in {"note", "done"} => ppc \in {"note", "done"}
        /\ ppc \in {"note", "done"} => ppc' \in {"note", "done"}
    BY <1>11, <2>1
      DEF Note, RecordDepth, InHand, Working, Open, Clear, Stretch, Fits,
          producer, consumer
  <2>3. QED
    BY <2>1, <2>2, StretchKept DEF Clear
<1>12. CASE StartCall
  <2>1. Open /\ UNCHANGED <<queue, index, item, consumed>>
    BY <1>12 DEF StartCall, StartThread, Open, producer, consumer
  <2>2. /\ cpc' \in {"idle", "get", "release", "deliver"}
        /\ InHand' = InHand /\ Working' = Working
        /\ ppc' \in {"note", "done"} => ppc \in {"note", "done"}
        /\ ppc \in {"note", "done"} => ppc' \in {"note", "done"}
    BY <1>12, <2>1
      DEF StartCall, StartThread, InHand, Working, Open, Clear, Stretch, Fits,
          producer, consumer
  <2>3. QED
    BY <2>1, <2>2, StretchKept DEF Clear
<1>13. CASE NextCall
  <2>1. Open /\ UNCHANGED <<queue, index, item, consumed>>
    BY <1>13 DEF NextCall, StartThread, Open, producer, consumer
  <2>2. /\ cpc' \in {"idle", "get", "release", "deliver"}
        /\ InHand' = InHand /\ Working' = Working
        /\ ppc' \in {"note", "done"} => ppc \in {"note", "done"}
        /\ ppc \in {"note", "done"} => ppc' \in {"note", "done"}
    BY <1>13, <2>1
      DEF NextCall, StartThread, InHand, Working, Open, Clear, Stretch, Fits,
          producer, consumer
  <2>3. QED
    BY <2>1, <2>2, StretchKept DEF Clear
<1>14. CASE Get
  <2>1. Open
    BY <1>14 DEF Get, Take, Open
  <2>2. QED
    BY <1>14, <2>1, StretchByGet DEF Clear
<1>15. CASE Release
  <2>1. Open /\ UNCHANGED <<queue, index, item, consumed>>
    BY <1>15 DEF Release, GiveBack, Open, producer, consumer
  <2>2. /\ cpc' \in {"idle", "get", "release", "deliver"}
        /\ InHand' = InHand /\ Working' = Working
        /\ ppc' \in {"note", "done"} => ppc \in {"note", "done"}
        /\ ppc \in {"note", "done"} => ppc' \in {"note", "done"}
    BY <1>15, <2>1
      DEF Release, GiveBack, InHand, Working, Open, Clear, Stretch, Fits,
          producer, consumer
  <2>3. QED
    BY <2>1, <2>2, StretchKept DEF Clear
<1>16. CASE Deliver
  <2>1. Open /\ item.kind = "batch"
    BY <1>16 DEF Deliver, Open
  <2>2. QED
    BY <1>16, <2>1, StretchByDeliver DEF Clear
<1>17. CASE CloseCall
  BY <1>17 DEF CloseCall, Open
<1>18. CASE DrainTake
  BY <1>18 DEF DrainTake, Take, Open, Fits
<1>19. CASE DrainRelease
  BY <1>19 DEF DrainRelease, GiveBack, Open, Fits
<1>20. CASE DrainEmpty
  BY <1>20 DEF DrainEmpty, Open, Fits
<1>21. CASE Join
  BY <1>21 DEF Join, Open, Fits
<1>22. CASE JoinTimeout
  BY <1>22 DEF JoinTimeout, Open, Fits
<1>23. CASE UNCHANGED vars
  <2>1. /\ Open /\ UNCHANGED <<queue, index, item, consumed, cpc>>
        /\ ppc' = ppc
    BY <1>23 DEF vars, producer, consumer, Open
  <2>2. InHand' = InHand /\ Working' = Working
    BY <2>1 DEF InHand, Working
  <2>3. QED
    BY <2>1, <2>2, StretchKept DEF Clear, Stretch
<1>24. QED
  BY <1>1, <1>2, <1>3, <1>4, <1>5, <1>6, <1>7, <1>8, <1>9, <1>10, <1>11,
     <1>12, <1>13, <1>14, <1>15, <1>16, <1>17, <1>18, <1>19, <1>20, <1>21,
     <1>22, <1>23
  DEF Next, Produce, Consume, Call

-----------------------------------------------------------------------------
(* The theorems                                                             *)

\* The invariant holds in a new prefetcher.
LEMMA InitInv == Init => IInv
<1> SUFFICES ASSUME Init PROVE IInv
  OBVIOUS
<1> USE RangeAssumption DEF RangeAssumption, Init
<1>1. queue = <<>> /\ queue \in Seq(Items) /\ Len(queue) = 0
  BY EmptySeq
<1>2. item \in Items /\ index \in Start..Stop
  BY DEF Item, Items
<1>3. TypeOK
  BY <1>1, <1>2 DEF TypeOK, States
<1>4. SlotsConserved
  BY <1>1 DEF SlotsConserved, ProducerHolds, ConsumerHolds
<1>5. NextOut = Start /\ ~InHand /\ Working
  BY DEF NextOut, InHand, Working
<1>6. Chain(queue, NextOut) /\ EndAtStop(queue) /\ AllBatches(queue)
  BY <1>1 DEF Chain, EndAtStop, AllBatches
<1>7. Clear
  BY <1>1, <1>5, <1>6 DEF Clear, Stretch
<1>8. Stopped
  BY DEF Stopped
<1>9. Fits
  BY DEF Fits, Alive
<1>10. QED
  BY <1>3, <1>4, <1>7, <1>8, <1>9 DEF IInv

\* The inductive invariant holds in every behaviour of the two threads.
THEOREM Inductive == Spec => []IInv
<1>1. IInv /\ [Next]_vars => IInv'
  BY TypeStep, SlotsStep, ClearStep, StoppedStep, FitsStep DEF IInv
<1>2. QED
  BY InitInv, <1>1, PTL DEF Spec

\* Type correctness for every range and capacity.
THEOREM TypeCorrect == Spec => []TypeOK
<1>1. IInv => TypeOK
  BY DEF IInv
<1>2. QED
  BY <1>1, Inductive, PTL

\* The slots always add up.
THEOREM SlotsAddUp == Spec => []SlotsConserved
<1>1. IInv => SlotsConserved
  BY DEF IInv
<1>2. QED
  BY <1>1, Inductive, PTL

\* The read-ahead stays within the capacity and put_nowait never raises Full.
THEOREM NeverFull == Spec => []ReadAheadBounded
<1>1. IInv => ReadAheadBounded
  <2> SUFFICES ASSUME IInv PROVE ReadAheadBounded
    OBVIOUS
  <2>1. Putting => Len(queue) < Capacity
    BY RoomForPut DEF IInv
  <2>2. /\ Len(queue) \in Nat /\ slots \in Nat
        /\ ProducerHolds \in {0, 1} /\ ConsumerHolds \in {0, 1}
    BY LenProperties, RangeAssumption
    DEF IInv, TypeOK, RangeAssumption, ProducerHolds, ConsumerHolds
  <2>3. ProducerHolds + Len(queue) <= Capacity
    BY <2>2, RangeAssumption DEF IInv, SlotsConserved, RangeAssumption
  <2>4. QED
    BY <2>1, <2>3 DEF ReadAheadBounded, Putting
<1>2. QED
  BY <1>1, Inductive, PTL

\* A closed prefetcher has no producer left.
THEOREM ClosedStaysQuiet == Spec => []ClosedIsQuiet
<1>1. IInv => ClosedIsQuiet
  BY DEF IInv, Fits, ClosedIsQuiet
<1>2. QED
  BY <1>1, Inductive, PTL

\* A failure is raised only after every earlier batch was delivered.
THEOREM FailuresInOrder == Spec => FailureAfterEarlier
<1>1. IInv /\ [Next]_vars =>
        [(state # "failed" /\ state' = "failed" /\ stopEvent = "clear") =>
           item.index = Start + consumed]_vars
  <2> SUFFICES ASSUME IInv, [Next]_vars, state # "failed", state' = "failed",
                      stopEvent = "clear"
               PROVE  item.index = Start + consumed
    OBVIOUS
  <2>1. Deliver
    BY DEF Next, Produce, Consume, Call, vars, producer, consumer, TestStop,
      AcquireSlot, AcquireTimeout, CheckBeforeRead, CheckStop, Read,
      CheckAfterRead, PutBatch, PutFailure, PutEnd, Account, Note, StartCall,
      StartThread, NextCall, Get, Take, Release, GiveBack, CloseCall, DrainTake,
      DrainRelease, DrainEmpty, Join, JoinTimeout
  <2>2. cpc = "deliver" /\ state = "running"
    BY <2>1 DEF Deliver, IInv, Fits
  <2>3. QED
    BY <2>2 DEF IInv, Clear, Open, Stretch, InHand
<1>2. QED
  BY <1>1, Inductive, PTL DEF Spec, FailureAfterEarlier

-----------------------------------------------------------------------------
(* The prefetcher implements OrderedStream                                  *)

\* The status of the abstract stream.
Status == IF state \in {"new", "running"} THEN "open" ELSE state

\* A step that leaves the counters and the status alone is a stutter.
LEMMA Untouched ==
  ASSUME UNCHANGED <<consumed, last>>,
         state' = state \/ (state = "new" /\ state' = "running")
  PROVE  [Stream!Next]_Stream!vars
  BY DEF Stream!vars

\* Every step is a step of the ordered stream or a stutter.
LEMMA StreamStep == IInv /\ [Next]_vars => [Stream!Next]_Stream!vars
<1> SUFFICES ASSUME IInv, [Next]_vars PROVE [Stream!Next]_Stream!vars
  OBVIOUS
<1>1. CASE TestStop
  BY <1>1, Untouched DEF TestStop, producer, consumer
<1>2. CASE AcquireSlot
  BY <1>2, Untouched DEF AcquireSlot, producer, consumer
<1>3. CASE AcquireTimeout
  BY <1>3, Untouched DEF AcquireTimeout, producer, consumer
<1>4. CASE CheckBeforeRead
  BY <1>4, Untouched DEF CheckBeforeRead, CheckStop, producer, consumer
<1>5. CASE Read
  BY <1>5, Untouched DEF Read, producer, consumer
<1>6. CASE CheckAfterRead
  BY <1>6, Untouched DEF CheckAfterRead, CheckStop, producer, consumer
<1>7. CASE PutBatch
  BY <1>7, Untouched DEF PutBatch, producer, consumer
<1>8. CASE PutFailure
  BY <1>8, Untouched DEF PutFailure, producer, consumer
<1>9. CASE PutEnd
  BY <1>9, Untouched DEF PutEnd, producer, consumer
<1>10. CASE Account
  BY <1>10, Untouched DEF Account, RecordDepth, producer, consumer
<1>11. CASE Note
  BY <1>11, Untouched DEF Note, RecordDepth, producer, consumer
<1>12. CASE StartCall
  BY <1>12, Untouched DEF StartCall, StartThread, producer, consumer
<1>13. CASE NextCall
  BY <1>13, Untouched DEF NextCall, StartThread, producer, consumer
<1>14. CASE Get
  BY <1>14, Untouched DEF Get, Take, producer, consumer
<1>15. CASE Release
  BY <1>15, Untouched DEF Release, GiveBack, producer, consumer
<1>16. CASE Deliver
  <2>1. cpc = "deliver" /\ state = "running" /\ Status = "open"
    BY <1>16 DEF Deliver, IInv, Fits, Status
  <2>2. CASE item.kind = "batch"
    <3>1. item.index = Start + consumed /\ Start + consumed + 1 <= Stop
      BY <2>1, <2>2, Handed DEF IInv
    <3>2. Start + consumed < Stop
      BY <3>1, RangeAssumption DEF IInv, TypeOK, RangeAssumption
    <3>3. consumed' = consumed + 1 /\ last' = Start + consumed /\ state' = state
      BY <1>16, <2>2, <3>1 DEF Deliver
    <3>4. QED
      BY <2>1, <3>2, <3>3 DEF Stream!Next, Stream!Deliver, Status
  <2>3. CASE item.kind = "failure"
    <3>1. state' = "failed" /\ UNCHANGED <<consumed, last>>
      BY <1>16, <2>3 DEF Deliver
    <3>2. QED
      BY <2>1, <3>1 DEF Stream!Next, Stream!Fail, Status
  <2>4. CASE item.kind = "end"
    <3>1. state' = "exhausted" /\ UNCHANGED <<consumed, last>>
      BY <1>16, <2>4 DEF Deliver
    <3>2. Start + consumed = Stop
      BY <2>1, <2>4, Handed DEF IInv
    <3>3. QED
      BY <2>1, <3>1, <3>2 DEF Stream!Next, Stream!Exhaust, Status
  <2>5. QED
    BY <1>16, <2>2, <2>3, <2>4 DEF Deliver
<1>17. CASE CloseCall
  BY <1>17, Untouched DEF CloseCall, producer, consumer
<1>18. CASE DrainTake
  BY <1>18, Untouched DEF DrainTake, Take, producer, consumer
<1>19. CASE DrainRelease
  BY <1>19, Untouched DEF DrainRelease, GiveBack, producer, consumer
<1>20. CASE DrainEmpty
  BY <1>20, Untouched DEF DrainEmpty, producer, consumer
<1>21. CASE Join
  <2>1. UNCHANGED <<consumed, last>>
    BY <1>21 DEF Join, consumer
  <2>2. CASE cpc = "join_close"
    <3>1. state' = "closed" /\ state # "closed"
      BY <1>21, <2>2 DEF Join, IInv, Fits
    <3>2. Status # "closed" /\ Status' = "closed"
      BY <3>1 DEF Status
    <3>3. QED
      BY <2>1, <3>2 DEF Stream!Next, Stream!Close, Status
  <2>3. CASE cpc # "join_close"
    BY <1>21, <2>1, <2>3, Untouched DEF Join
  <2>4. QED
    BY <2>2, <2>3
<1>22. CASE JoinTimeout
  BY <1>22, Untouched DEF JoinTimeout, producer, consumer
<1>23. CASE UNCHANGED vars
  BY <1>23, Untouched DEF vars, producer, consumer
<1>24. QED
  BY <1>1, <1>2, <1>3, <1>4, <1>5, <1>6, <1>7, <1>8, <1>9, <1>10, <1>11,
     <1>12, <1>13, <1>14, <1>15, <1>16, <1>17, <1>18, <1>19, <1>20, <1>21,
     <1>22, <1>23
  DEF Next, Produce, Consume, Call

\* Every batch once, in source order, and the end only after the last one.
THEOREM Refines == Spec => OrderedDelivery
<1>1. Init => Stream!Init
  BY DEF Init, Stream!Init
<1>2. QED
  BY <1>1, StreamStep, Inductive, PTL DEF Spec, OrderedDelivery, Stream!Spec

===============================================================================
