--------------------------- MODULE CheckpointStore ---------------------------
(***************************************************************************)
(* What a distributed checkpoint promises: per step at most one checkpoint *)
(* ever exists, it is the work of one run as a whole, and it stays.        *)
(***************************************************************************)
CONSTANTS Steps, Runs, Absent

VARIABLE store     \* per step: the run whose state is stored, or Absent

Init == store = [s \in Steps |-> Absent]

Commit ==
  \E s \in Steps, run \in Runs :
    /\ store[s] = Absent
    /\ store' = [store EXCEPT ![s] = run]

Spec == Init /\ [][Commit]_store

=============================================================================
