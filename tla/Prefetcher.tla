------------------------------ MODULE Prefetcher ------------------------------
(***************************************************************************)
(* AsyncBatchPrefetcher (data/prefetch.py): one producer thread reads the  *)
(* source range Start..Stop-1 ahead of one consumer thread.  A semaphore   *)
(* slot is taken before a read and given back when the item leaves the     *)
(* queue; an event asks the producer to stop.                              *)
(*                                                                         *)
(* ppc and cpc say where the two threads stand.  A step is what a thread   *)
(* does between two points at which the other one can be noticed.  Clocks  *)
(* are left out: a timed acquire times out only while no slot is free, and *)
(* only a read (with its transfer) can outlast the five seconds of a join. *)
(***************************************************************************)
EXTENDS Integers, Sequences

CONSTANTS
  Start,      \* start_index
  Stop,       \* stop_index
  Capacity    \* the queue's maxsize and the semaphore's initial value

ASSUME RangeAssumption ==
  /\ Start \in Nat
  /\ Stop \in Nat /\ Start <= Stop
  /\ Capacity \in Nat \ {0}

VARIABLES
  state,      \* PrefetchState
  stopEvent,  \* _stop: clear or set
  slots,      \* free slots of the semaphore
  queue,      \* the items of the queue
  index,      \* the producer's loop variable
  ppc,        \* where the producer stands
  cpc,        \* where the consumer stands
  item,       \* the item the consumer took out last
  produced,   \* _produced_batches
  consumed,   \* _consumed_batches
  maxDepth,   \* _max_queue_depth
  last        \* history: the index of the batch that was delivered last

producer == <<index, ppc, produced, maxDepth>>
consumer == <<state, cpc, item, consumed, last>>
vars == <<stopEvent, slots, queue, producer, consumer>>

States == {"new", "running", "exhausted", "failed", "closed"}

Item(k, i) == [kind |-> k, index |-> i]

Init ==
  /\ state = "new" /\ stopEvent = "clear"
  /\ slots = Capacity /\ queue = <<>>
  /\ index = Start /\ ppc = "unborn"
  /\ cpc = "idle" /\ item = Item("end", Stop)
  /\ produced = 0 /\ consumed = 0 /\ maxDepth = 0
  /\ last = Start - 1

-----------------------------------------------------------------------------
(* The producer thread: _produce                                            *)

\* Queue.put_nowait: a full queue raises, which ends the thread silently.
PutNowait(x, then) ==
  IF Len(queue) < Capacity
  THEN queue' = Append(queue, x) /\ ppc' = then
  ELSE UNCHANGED queue /\ ppc' = "done"

\* The loop head of _acquire_slot; on a stop request the thread returns.
TestStop ==
  /\ ppc = "test"
  /\ ppc' = IF stopEvent = "set" THEN "done" ELSE "acquire"
  /\ UNCHANGED <<stopEvent, slots, queue, index, produced, maxDepth, consumer>>

\* Mutant of AcquireSlot: the slot is looked at, not taken.
AcquireSlot_NotTaken ==
  /\ ppc = "acquire"
  /\ slots > 0
  /\ ppc' = "check"
  /\ UNCHANGED <<stopEvent, slots, queue, index, produced, maxDepth, consumer>>

AcquireSlot ==
  /\ ppc = "acquire"
  /\ slots > 0
  /\ slots' = slots - 1
  /\ ppc' = "check"
  /\ UNCHANGED <<stopEvent, queue, index, produced, maxDepth, consumer>>

AcquireTimeout ==
  /\ ppc = "acquire"
  /\ slots = 0
  /\ ppc' = "test"
  /\ UNCHANGED <<stopEvent, slots, queue, index, produced, maxDepth, consumer>>

\* Mutant of CheckStop: the early return keeps the slot.
CheckStop_KeepsSlot(here, then) ==
  /\ ppc = here
  /\ ppc' = IF stopEvent = "set" THEN "done" ELSE then
  /\ UNCHANGED <<stopEvent, slots, queue, index, produced, maxDepth, consumer>>

\* A slot is held: on a stop request it is given back and the thread returns.
CheckStop(here, then) ==
  /\ ppc = here
  /\ \/ /\ stopEvent = "set"
        /\ slots' = slots + 1
        /\ ppc' = "done"
     \/ /\ stopEvent = "clear"
        /\ ppc' = then
        /\ UNCHANGED slots
  /\ UNCHANGED <<stopEvent, queue, index, produced, maxDepth, consumer>>

\* Before a read, and once more before the end marker is put.
CheckBeforeRead ==
  CheckStop("check", IF index < Stop THEN "read" ELSE "put_end")

\* source.read_batch and transfer.transfer return, or one of them raises.
Read ==
  /\ ppc = "read"
  /\ ppc' \in {"recheck", "put_failure"}
  /\ UNCHANGED <<stopEvent, slots, queue, index, produced, maxDepth, consumer>>

CheckAfterRead == CheckStop("recheck", "put_batch")

PutBatch ==
  /\ ppc = "put_batch"
  /\ PutNowait(Item("batch", index), "account")
  /\ UNCHANGED <<stopEvent, slots, index, produced, maxDepth, consumer>>

\* A failure is put whether a stop was requested or not.
PutFailure ==
  /\ ppc = "put_failure"
  /\ PutNowait(Item("failure", index), "note")
  /\ UNCHANGED <<stopEvent, slots, index, produced, maxDepth, consumer>>

PutEnd ==
  /\ ppc = "put_end"
  /\ PutNowait(Item("end", index), "note")
  /\ UNCHANGED <<stopEvent, slots, index, produced, maxDepth, consumer>>

\* _record_queue_depth reads the depth after the put, not together with it.
RecordDepth ==
  maxDepth' = IF Len(queue) > maxDepth THEN Len(queue) ELSE maxDepth

\* Mutant of Account: `range` is not advanced past the batch just put.
Account_SameIndex ==
  /\ ppc = "account"
  /\ produced' = produced + 1
  /\ ppc' = "test"
  /\ RecordDepth
  /\ UNCHANGED <<stopEvent, slots, queue, index, consumer>>

\* The counters of a batch, and the next turn of the loop.
Account ==
  /\ ppc = "account"
  /\ produced' = produced + 1
  /\ index' = index + 1
  /\ ppc' = "test"
  /\ RecordDepth
  /\ UNCHANGED <<stopEvent, slots, queue, consumer>>

\* After a failure or the end marker the thread returns.
Note ==
  /\ ppc = "note"
  /\ ppc' = "done"
  /\ RecordDepth
  /\ UNCHANGED <<stopEvent, slots, queue, index, produced, consumer>>

-----------------------------------------------------------------------------
(* The consumer thread: start, __next__ and close                           *)

StartThread ==
  /\ state = "new"
  /\ state' = "running"
  /\ ppc' = "test"

StartCall ==
  /\ cpc = "idle"
  /\ StartThread
  /\ UNCHANGED <<stopEvent, slots, queue, index, produced, maxDepth, cpc, item,
                 consumed, last>>

\* __next__ starts a new prefetcher.  In any state but running it returns or
\* raises at once, and nothing changes.
NextCall ==
  /\ cpc = "idle"
  /\ cpc' = "get"
  /\ \/ StartThread
     \/ state = "running" /\ UNCHANGED <<state, ppc>>
  /\ UNCHANGED <<stopEvent, slots, queue, index, produced, maxDepth, item,
                 consumed, last>>

Take(here, then) ==
  /\ cpc = here
  /\ queue # <<>>
  /\ item' = Head(queue)
  /\ queue' = Tail(queue)
  /\ cpc' = then
  /\ UNCHANGED <<stopEvent, slots, producer, state, consumed, last>>

\* Mutant of GiveBack: the slot of an item taken out is not released.
GiveBack_Lost(here, then) ==
  /\ cpc = here
  /\ cpc' = then
  /\ UNCHANGED <<stopEvent, slots, queue, producer, state, item, consumed,
                 last>>

GiveBack(here, then) ==
  /\ cpc = here
  /\ slots' = slots + 1
  /\ cpc' = then
  /\ UNCHANGED <<stopEvent, queue, producer, state, item, consumed, last>>

\* queue.get() blocks until there is an item.
Get == Take("get", "release")

Release == GiveBack("release", "deliver")

Deliver ==
  /\ cpc = "deliver"
  /\ \/ /\ item.kind = "batch"
        /\ consumed' = consumed + 1
        /\ last' = item.index
        /\ cpc' = "idle"
        /\ UNCHANGED <<state, stopEvent>>
     \/ /\ item.kind = "failure"
        /\ state' = "failed"
        /\ stopEvent' = "set"
        /\ cpc' = "join"
        /\ UNCHANGED <<consumed, last>>
     \/ /\ item.kind = "end"
        /\ state' = "exhausted"
        /\ cpc' = "join"
        /\ UNCHANGED <<consumed, last, stopEvent>>
  /\ UNCHANGED <<slots, queue, producer, item>>

\* Mutant of CloseCall: the event is not set.
CloseCall_NoStop ==
  /\ cpc = "idle"
  /\ state # "closed"
  /\ cpc' = "drain"
  /\ UNCHANGED <<stopEvent, slots, queue, producer, state, item, consumed,
                 last>>

\* close() on a closed prefetcher returns at once.
CloseCall ==
  /\ cpc = "idle"
  /\ state # "closed"
  /\ stopEvent' = "set"
  /\ cpc' = "drain"
  /\ UNCHANGED <<slots, queue, producer, state, item, consumed, last>>

DrainTake == Take("drain", "drain_release")

DrainRelease == GiveBack("drain_release", "drain")

\* get_nowait raises Empty.
DrainEmpty ==
  /\ cpc = "drain"
  /\ queue = <<>>
  /\ cpc' = "join_close"
  /\ UNCHANGED <<stopEvent, slots, queue, producer, state, item, consumed,
                 last>>

Alive == ppc \notin {"unborn", "done"}

\* _join_worker returns; close() then records the closed state.
Join ==
  /\ cpc \in {"join", "join_close"}
  /\ ~Alive
  /\ cpc' = "idle"
  /\ state' = IF cpc = "join_close" THEN "closed" ELSE state
  /\ UNCHANGED <<stopEvent, slots, queue, producer, item, consumed, last>>

\* The join gives up on a read of more than five seconds: close() raises and
\* the state stays what it was.
JoinTimeout ==
  /\ cpc \in {"join", "join_close"}
  /\ ppc = "read"
  /\ cpc' = "idle"
  /\ UNCHANGED <<stopEvent, slots, queue, producer, state, item, consumed,
                 last>>

-----------------------------------------------------------------------------
Produce ==
  \/ TestStop \/ AcquireSlot \/ AcquireTimeout \/ CheckBeforeRead \/ Read
  \/ CheckAfterRead \/ PutBatch \/ PutFailure \/ PutEnd \/ Account \/ Note

\* What the consumer does inside a call.
Consume ==
  \/ Get \/ Release \/ Deliver
  \/ DrainTake \/ DrainRelease \/ DrainEmpty \/ Join

Call == StartCall \/ NextCall \/ CloseCall

Next == Produce \/ Consume \/ Call \/ JoinTimeout

Spec == Init /\ [][Next]_vars

\* Both threads are scheduled, and the source and the transfer come back.
FairSpec == Spec /\ WF_vars(Produce) /\ WF_vars(Consume)

-----------------------------------------------------------------------------
(* Properties                                                               *)

Items ==
  [kind : {"batch", "failure", "end"}, index : Start..Stop]

TypeOK ==
  /\ state \in States
  /\ stopEvent \in {"clear", "set"}
  /\ slots \in 0..Capacity
  /\ queue \in Seq(Items)
  /\ index \in Start..Stop
  /\ ppc \in {"unborn", "test", "acquire", "check", "read", "recheck",
              "put_batch", "put_failure", "put_end", "account", "note", "done"}
  /\ cpc \in {"idle", "get", "release", "deliver", "drain", "drain_release",
              "join", "join_close"}
  /\ item \in Items
  /\ produced \in Nat /\ consumed \in Nat /\ maxDepth \in 0..Capacity
  /\ last \in (Start - 1)..Stop

\* Which thread holds a slot that is neither free nor in the queue.
ProducerHolds ==
  IF ppc \in {"check", "read", "recheck", "put_batch", "put_failure", "put_end"}
  THEN 1 ELSE 0

ConsumerHolds == IF cpc \in {"release", "drain_release"} THEN 1 ELSE 0

\* No slot is lost or made: free slots, the batch being prepared, the queued
\* items and the item being handed over always add up to the capacity, through
\* early returns, drains and failures.
SlotsConserved ==
  slots + ProducerHolds + Len(queue) + ConsumerHolds = Capacity

\* docs/data/ASYNC_PREFETCH.md: the capacity bounds the batches being read,
\* transferred or queued.  So put_nowait always finds room: a Full would end
\* the producer without an end marker and the consumer would wait for ever.
ReadAheadBounded ==
  /\ ProducerHolds + Len(queue) <= Capacity
  /\ ppc \in {"put_batch", "put_failure", "put_end"} => Len(queue) < Capacity

\* A worker failure is raised after every earlier batch was delivered, unless
\* a close() that timed out has thrown batches away before.
FailureAfterEarlier ==
  [][(state # "failed" /\ state' = "failed" /\ stopEvent = "clear") =>
        item.index = Start + consumed]_vars

\* A closed prefetcher reads no more: close() returned only after the thread
\* had ended or when there never was one.
ClosedIsQuiet == state = "closed" => ~Alive

\* The consumer is given the batches in source order, each once, and told the
\* end only after the last one.
Stream ==
  INSTANCE OrderedStream WITH
    given <- consumed,
    last <- last,
    status <- IF state \in {"new", "running"} THEN "open" ELSE state

OrderedDelivery == Stream!Spec

\* __next__ comes back, unless it was called after a close() that timed out.
NextReturns == (cpc = "get" /\ stopEvent = "clear") ~> (cpc = "idle")

\* close() comes back: a blocked producer notices the stop event.
CloseReturns == (cpc = "drain") ~> (cpc = "idle")

===============================================================================
