---------------------------- MODULE OrderedStream ----------------------------
(***************************************************************************)
(* What a batch prefetcher promises its consumer: the batches of a source  *)
(* range, each once and in source order, then one end.  A failure or an    *)
(* early close may cut the stream short, and nothing follows a cut.        *)
(***************************************************************************)
EXTENDS Integers

CONSTANTS Start, Stop    \* the half-open range of source indices

VARIABLES
  given,     \* how many batches the consumer has been given
  last,      \* the index of the last one, Start - 1 before the first
  status     \* open, failed, exhausted or closed

vars == <<given, last, status>>

Init == given = 0 /\ last = Start - 1 /\ status = "open"

Deliver ==
  /\ status = "open"
  /\ Start + given < Stop
  /\ last' = Start + given
  /\ given' = given + 1
  /\ UNCHANGED status

Fail ==
  /\ status = "open"
  /\ status' = "failed"
  /\ UNCHANGED <<given, last>>

\* The end is told only when nothing was left out.
Exhaust ==
  /\ status = "open"
  /\ Start + given = Stop
  /\ status' = "exhausted"
  /\ UNCHANGED <<given, last>>

Close ==
  /\ status # "closed"
  /\ status' = "closed"
  /\ UNCHANGED <<given, last>>

Next == Deliver \/ Fail \/ Exhaust \/ Close

Spec == Init /\ [][Next]_vars

=============================================================================
