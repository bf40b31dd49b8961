-------------------------- MODULE TpuLaunchProofs --------------------------
(***************************************************************************)
(* Proofs about TpuLaunch: a completed record is about its own request, for *)
(* any number of ranks, calls, updates and faults.                         *)
(*                                                                         *)
(* The ranks of several requests may be alive together; what keeps their   *)
(* files apart is the device.  Exclusive says that of two requests that    *)
(* have had the device of a rank the older one does not come back to it,   *)
(* and Answered what the one that has rank 0's device has written.         *)
(***************************************************************************)
EXTENDS TpuLaunch, FiniteSetTheorems, TLAPS

-----------------------------------------------------------------------------
(* The inductive invariant                                                  *)

\* At these places a rank holds its device; Held adds that it has let it go in
\* good order.
Active == {"entered", "probed", "built", "training", "timed", "written"}
Held == Active \union {"done"}
\* Before the first update.
Early == {"none", "spawned", "entered", "probed", "built"}

Lines(n) == [i \in 1 .. step[n] |-> n]

\* Requests are made one after the other.
Opened ==
  /\ Current \in 0 .. MaxRequests
  /\ \A n \in Requests : launcher[n] # "none" <=> n <= Current
  /\ pc # "idle" => Current # 0

\* What a launcher says of its ranks.
Joined ==
  \A n \in Requests :
    /\ launcher[n] \in {"none", "starting"}
         => \A r \in Ranks : place[n][r] = "none"
    /\ launcher[n] = "ok" => \A r \in Ranks : place[n][r] \in {"done", "cored"}

\* Once a newer request has had the device of a rank, no older one gets it.
Exclusive ==
  \A m, n \in Requests, r \in Ranks :
    m < n /\ place[n][r] \in Held => place[m][r] \notin Active

\* How the places of a request go with its updates.
InStep ==
  \A n \in Requests, r \in Ranks :
    /\ step[n] > 0 => place[n][r] \notin Early
    /\ kind[n] = "train" /\ place[n][r] \in {"timed", "written", "done"}
         => step[n] = Steps
    /\ place[n][r] \in {"built", "training", "timed"} => kind[n] = "train"

\* The files are those of the request whose rank 0 has the device, or of the
\* last request when its rank 0 is done.
Answered ==
  \A n \in Requests :
    /\ place[n][0] \in {"training", "timed"} => metrics = Lines(n)
    /\ kind[n] = "train"
       /\ (place[n][0] = "written" \/ (place[n][0] = "done" /\ n = Current))
         => metrics = Lines(n) /\ summary = n

\* A rank of the last request that dumped core is in its log.
Marked ==
  \A n \in Requests, r \in Ranks :
    n = Current /\ place[n][r] = "cored" => marker

\* The coordinator reads only what all ranks of its request have left.
Returning ==
  /\ pc \in {"read", "publish"} =>
       /\ kind[Current] = "train" /\ launcher[Current] = "ok"
       /\ \A r \in Ranks : place[Current][r] = "done"
  /\ pc = "publish" => got = Current

Recorded ==
  record.status = "completed" =>
    record.run \in Requests /\ launcher[record.run] = "ok"

IInv ==
  /\ TypeOK /\ Opened /\ Joined /\ Exclusive /\ InStep /\ Answered
  /\ Marked /\ Returning /\ Recorded /\ CompletedIsOurs


-----------------------------------------------------------------------------
(* Moves of the ranks                                                       *)

\* The place of one rank changes, and nothing else of the group.
LEMMA MoveAt ==
  ASSUME TypeOK, NEW n \in Requests, NEW r \in Ranks, NEW from,
         NEW to, Move(n, r, from, to)
  PROVE  /\ to \in Places => place' \in [Requests -> [Ranks -> Places]]
         /\ place[n][r] = from /\ place'[n][r] = to
         /\ \A m \in Requests, q \in Ranks :
              m # n \/ q # r => place'[m][q] = place[m][q]
         /\ UNCHANGED <<launcher, step, termed>>
         /\ UNCHANGED <<pc, kind, flaw, got, cause, quiet>>
  BY DEF Move, TypeOK, notebook, call

\* The ranks of a request change their places together.
LEMMA TogetherAt ==
  ASSUME TypeOK, NEW n \in Requests, NEW from, NEW to,
         Together(n, from, to)
  PROVE  /\ to \in Places => place' \in [Requests -> [Ranks -> Places]]
         /\ \A r \in Ranks :
              /\ place[n][r] = from
              /\ place'[n][r] = to
         /\ \A m \in Requests \ {n}, q \in Ranks : place'[m][q] = place[m][q]
         /\ UNCHANGED <<launcher, termed>>
         /\ UNCHANGED <<pc, kind, flaw, got, cause, quiet>>
  BY DEF Together, TypeOK, notebook, call

\* What a launcher that starts its ranks changes.
LEMMA SpawnAt ==
  ASSUME TypeOK, NEW n \in Requests, Spawn(n)
  PROVE  /\ place' \in [Requests -> [Ranks -> Places]]
         /\ \A r \in Ranks : place'[n][r] = "spawned"
         /\ \A m \in Requests \ {n}, q \in Ranks : place'[m][q] = place[m][q]
         /\ UNCHANGED <<step, termed>>
         /\ UNCHANGED <<pc, kind, flaw, got, cause, quiet>>
  BY DEF Spawn, TypeOK, notebook, call, Places

\* What a signal to the process group changes.
LEMMA KillAt ==
  ASSUME TypeOK, Current \in Requests, KillGroup
  PROVE  /\ place' \in [Requests -> [Ranks -> Places]]
         /\ \A r \in Ranks :
              place'[Current][r] = IF Alive(Current, r) THEN "killed"
                                   ELSE place[Current][r]
         /\ \A m \in Requests \ {Current}, q \in Ranks :
              place'[m][q] = place[m][q]
  BY DEF KillGroup, TypeOK, Places

\* A sequence of one value, and one more of it.
LEMMA AppendLine ==
  ASSUME NEW n, NEW k \in Nat
  PROVE  Append([i \in 1 .. k |-> n], n) = [i \in 1 .. k + 1 |-> n]
  OBVIOUS

\* A coordinator at work has a current request.
LEMMA CurrentIsRequest ==
  ASSUME Opened, pc # "idle"
  PROVE  Current \in Requests
  BY LaunchAssumption DEF Opened, Requests, LaunchAssumption

-----------------------------------------------------------------------------
(* The order of the requests                                                *)

\* The requests made so far can be counted.
LEMMA RequestsFinite ==
  /\ IsFiniteSet({n \in Requests : launcher[n] # "none"})
  /\ Current \in Nat
<1>1. IsFiniteSet(Requests)
  BY FS_Interval, LaunchAssumption DEF Requests, LaunchAssumption
<1>2. QED
  BY <1>1, FS_Subset, FS_CardinalityType DEF Current

\* A step that starts no launcher leaves the requests as they are.
LEMMA SameCurrent ==
  ASSUME \A n \in Requests : launcher'[n] # "none" <=> launcher[n] # "none"
  PROVE  Current' = Current
<1>1. {n \in Requests : launcher'[n] # "none"}
        = {n \in Requests : launcher[n] # "none"}
  OBVIOUS
<1>2. QED
  BY <1>1 DEF Current, Requests

\* What a call of run() changes.
LEMMA CallAt ==
  ASSUME TypeOK, Opened, NEW f, Call(f)
  PROVE  /\ Current' = Current + 1 /\ Current + 1 \in Requests
         /\ launcher' = [launcher EXCEPT ![Current + 1] = "starting"]
         /\ launcher[Current + 1] = "none"
<1> DEFINE S == {n \in Requests : launcher[n] # "none"}
<1>1. /\ Current + 1 \in Requests
      /\ launcher' = [launcher EXCEPT ![Current + 1] = "starting"]
  BY DEF Call
<1>2. launcher[Current + 1] = "none" /\ Current + 1 \notin S
  BY <1>1 DEF Opened
<1>3. {n \in Requests : launcher'[n] # "none"} = S \union {Current + 1}
  BY <1>1, <1>2 DEF TypeOK
<1>4. Cardinality(S \union {Current + 1}) = Cardinality(S) + 1
  BY <1>2, RequestsFinite, FS_AddElement
<1>5. Current' = Cardinality({n \in Requests : launcher'[n] # "none"})
  BY DEF Current, Requests
<1>6. QED
  BY <1>1, <1>2, <1>3, <1>4, <1>5 DEF Current

\* No other step changes which launchers there are.
LEMMA SameRequests ==
  ASSUME TypeOK, Opened, Next \/ UNCHANGED vars, \A f \in Flaws : ~ Call(f)
  PROVE  /\ Current' = Current
         /\ \A n \in Requests : launcher'[n] # "none" <=> launcher[n] # "none"
<1> DEFINE Same == \A n \in Requests :
                      launcher'[n] # "none" <=> launcher[n] # "none"
<1> SUFFICES Same
  BY SameCurrent
<1> USE DEF notebook, call, group, files
<1>1. ASSUME NEW f \in Flaws, Call(f) PROVE Same
  BY <1>1 DEF TypeOK
<1>2. CASE Beat
  BY <1>2 DEF Beat
<1>3. CASE Silence
  BY <1>3 DEF Silence
<1>4. CASE Exited
  BY <1>4 DEF Exited
<1>5. CASE Terminate
  BY <1>5 DEF Terminate
<1>6. CASE Reaped
  BY <1>6 DEF Reaped
<1>7. CASE KillGroup
  <2>1. launcher[Current] # "none"
    BY <1>7, CurrentIsRequest, RequestsFinite DEF KillGroup, Opened
  <2>2. QED
    BY <1>7, <2>1, CurrentIsRequest DEF KillGroup, TypeOK
<1>8. CASE Fail
  BY <1>8 DEF Fail
<1>9. CASE ReadSummary
  BY <1>9 DEF ReadSummary
<1>10. CASE Publish
  BY <1>10 DEF Publish
<1>11. CASE Interrupt
  BY <1>11 DEF Interrupt
<1>12. CASE KernelDies
  BY <1>12 DEF KernelDies
<1>13. ASSUME NEW n \in Requests, Spawn(n) PROVE Same
  BY <1>13 DEF Spawn, TypeOK
<1>14. ASSUME NEW n \in Requests, JoinOk(n) PROVE Same
  BY <1>14 DEF JoinOk, TypeOK
<1>15. ASSUME NEW n \in Requests, JoinError(n) PROVE Same
  BY <1>15 DEF JoinError, TypeOK
<1>16. ASSUME NEW n \in Requests, Probe(n), UNCHANGED faults PROVE Same
  BY <1>16, TogetherAt DEF Probe
<1>17. ASSUME NEW n \in Requests, Update(n), UNCHANGED faults PROVE Same
  BY <1>17, TogetherAt DEF Update
<1>18. ASSUME NEW n \in Requests, Timing(n), UNCHANGED faults PROVE Same
  BY <1>18, TogetherAt DEF Timing
<1>19. ASSUME NEW n \in Requests, Leave(n), UNCHANGED faults PROVE Same
  BY <1>19, TogetherAt DEF Leave
<1>20. ASSUME NEW n \in Requests, NEW r \in Ranks, Enter(n, r),
             UNCHANGED faults
      PROVE  Same
  BY <1>20, MoveAt DEF Enter
<1>21. ASSUME NEW n \in Requests, NEW r \in Ranks, Refused(n, r),
             UNCHANGED faults
      PROVE  Same
  BY <1>21, MoveAt DEF Refused
<1>22. ASSUME NEW n \in Requests, NEW r \in Ranks, Preflight(n, r),
             UNCHANGED faults
      PROVE  Same
  BY <1>22, MoveAt DEF Preflight
<1>23. ASSUME NEW n \in Requests, NEW r \in Ranks, Setup(n, r),
             UNCHANGED faults
      PROVE  Same
  BY <1>23, MoveAt DEF Setup, Local
<1>24. ASSUME NEW n \in Requests, NEW r \in Ranks, TrainBegin(n, r),
             UNCHANGED faults
      PROVE  Same
  BY <1>24, MoveAt DEF TrainBegin, Local
<1>25. ASSUME NEW n \in Requests, NEW r \in Ranks, Write(n, r),
             UNCHANGED faults
      PROVE  Same
  BY <1>25, MoveAt DEF Write, Local
<1>26. ASSUME NEW n \in Requests, LauncherFails(n) PROVE Same
  BY <1>26 DEF LauncherFails, TypeOK
<1>27. ASSUME NEW n \in Requests, LauncherDies(n) PROVE Same
  BY <1>27 DEF LauncherDies, TypeOK
<1>28. ASSUME NEW n \in Requests, NEW r \in Ranks, RankFails(n, r)
      PROVE  Same
  BY <1>28, MoveAt DEF RankFails
<1>29. ASSUME NEW n \in Requests, NEW r \in Ranks, RankHangs(n, r)
      PROVE  Same
  BY <1>29, MoveAt DEF RankHangs
<1>30. ASSUME NEW n \in Requests, NEW r \in Ranks, RankCores(n, r)
      PROVE  Same
  BY <1>30, MoveAt DEF RankCores
<1>31. ASSUME NEW n \in Requests, NEW r \in Ranks, RankDies(n, r)
      PROVE  Same
  BY <1>31, MoveAt DEF RankDies
<1>32. CASE UNCHANGED vars
  BY <1>32 DEF vars, notebook, call, group, files
<1>33. QED
  BY <1>1, <1>2, <1>3, <1>4, <1>5, <1>6, <1>7, <1>8, <1>9, <1>10, <1>11,
     <1>12, <1>13, <1>14, <1>15, <1>16, <1>17, <1>18, <1>19, <1>20, <1>21,
     <1>22, <1>23, <1>24, <1>25, <1>26, <1>27, <1>28, <1>29, <1>30, <1>31,
     <1>32
  DEF Next, Coordinate, Join, RanksGoOn, Collective, RankStep, Fault

\* Every step keeps the requests opened in order.
LEMMA OpenedStep == TypeOK /\ Opened /\ [Next]_vars => Opened'
<1> SUFFICES ASSUME TypeOK, Opened, [Next]_vars PROVE Opened'
  OBVIOUS
<1>1. ASSUME NEW f \in Flaws, Call(f) PROVE Opened'
  <2>1. /\ Current' = Current + 1 /\ Current + 1 \in Requests
        /\ launcher' = [launcher EXCEPT ![Current + 1] = "starting"]
    BY <1>1, CallAt
  <2>2. Current \in Nat /\ Requests = 1 .. MaxRequests /\ MaxRequests \in Nat
    BY RequestsFinite, LaunchAssumption DEF LaunchAssumption, Requests
  <2>3. Current' \in 0 .. MaxRequests /\ Current' # 0
    BY <2>1, <2>2
  <2>4. ASSUME NEW n \in Requests
        PROVE  launcher'[n] # "none" <=> n <= Current'
    BY <2>1, <2>2 DEF Opened, TypeOK
  <2>5. QED
    BY <2>3, <2>4 DEF Opened
<1>2. CASE \A f \in Flaws : ~ Call(f)
  <2>1. /\ Current' = Current
        /\ \A n \in Requests : launcher'[n] # "none" <=> launcher[n] # "none"
    BY <1>2, SameRequests
  <2>2. pc' # "idle" => pc # "idle"
    <3> DEFINE StillBusy == pc' # "idle" => pc # "idle"
    <3> SUFFICES StillBusy
      OBVIOUS
    <3> USE DEF notebook, call, group, files
    <3>1. ASSUME NEW f \in Flaws, Call(f) PROVE StillBusy
      BY <1>2, <3>1
    <3>2. CASE Beat
      BY <3>2 DEF Beat
    <3>3. CASE Silence
      BY <3>3 DEF Silence, Waiting
    <3>4. CASE Exited
      BY <3>4 DEF Exited, Waiting
    <3>5. CASE Terminate
      BY <3>5 DEF Terminate
    <3>6. CASE Reaped
      BY <3>6 DEF Reaped
    <3>7. CASE KillGroup
      BY <3>7 DEF KillGroup
    <3>8. CASE Fail
      BY <3>8 DEF Fail
    <3>9. CASE ReadSummary
      BY <3>9 DEF ReadSummary
    <3>10. CASE Publish
      BY <3>10 DEF Publish
    <3>11. CASE Interrupt
      BY <3>11 DEF Interrupt, Waiting
    <3>12. CASE KernelDies
      BY <3>12 DEF KernelDies
    <3>13. ASSUME NEW n \in Requests, Spawn(n) PROVE StillBusy
      BY <3>13 DEF Spawn
    <3>14. ASSUME NEW n \in Requests, JoinOk(n) PROVE StillBusy
      BY <3>14 DEF JoinOk
    <3>15. ASSUME NEW n \in Requests, JoinError(n) PROVE StillBusy
      BY <3>15 DEF JoinError
    <3>16. ASSUME NEW n \in Requests, Probe(n), UNCHANGED faults PROVE StillBusy
      BY <3>16, TogetherAt DEF Probe
    <3>17. ASSUME NEW n \in Requests, Update(n), UNCHANGED faults
          PROVE  StillBusy
      BY <3>17, TogetherAt DEF Update
    <3>18. ASSUME NEW n \in Requests, Timing(n), UNCHANGED faults
          PROVE  StillBusy
      BY <3>18, TogetherAt DEF Timing
    <3>19. ASSUME NEW n \in Requests, Leave(n), UNCHANGED faults PROVE StillBusy
      BY <3>19, TogetherAt DEF Leave
    <3>20. ASSUME NEW n \in Requests, NEW r \in Ranks, Enter(n, r),
                 UNCHANGED faults
          PROVE  StillBusy
      BY <3>20, MoveAt DEF Enter
    <3>21. ASSUME NEW n \in Requests, NEW r \in Ranks, Refused(n, r),
                 UNCHANGED faults
          PROVE  StillBusy
      BY <3>21, MoveAt DEF Refused
    <3>22. ASSUME NEW n \in Requests, NEW r \in Ranks, Preflight(n, r),
                 UNCHANGED faults
          PROVE  StillBusy
      BY <3>22, MoveAt DEF Preflight
    <3>23. ASSUME NEW n \in Requests, NEW r \in Ranks, Setup(n, r),
                 UNCHANGED faults
          PROVE  StillBusy
      BY <3>23, MoveAt DEF Setup, Local
    <3>24. ASSUME NEW n \in Requests, NEW r \in Ranks, TrainBegin(n, r),
                 UNCHANGED faults
          PROVE  StillBusy
      BY <3>24, MoveAt DEF TrainBegin, Local
    <3>25. ASSUME NEW n \in Requests, NEW r \in Ranks, Write(n, r),
                 UNCHANGED faults
          PROVE  StillBusy
      BY <3>25, MoveAt DEF Write, Local
    <3>26. ASSUME NEW n \in Requests, LauncherFails(n) PROVE StillBusy
      BY <3>26 DEF LauncherFails
    <3>27. ASSUME NEW n \in Requests, LauncherDies(n) PROVE StillBusy
      BY <3>27 DEF LauncherDies
    <3>28. ASSUME NEW n \in Requests, NEW r \in Ranks, RankFails(n, r)
          PROVE  StillBusy
      BY <3>28, MoveAt DEF RankFails
    <3>29. ASSUME NEW n \in Requests, NEW r \in Ranks, RankHangs(n, r)
          PROVE  StillBusy
      BY <3>29, MoveAt DEF RankHangs
    <3>30. ASSUME NEW n \in Requests, NEW r \in Ranks, RankCores(n, r)
          PROVE  StillBusy
      BY <3>30, MoveAt DEF RankCores
    <3>31. ASSUME NEW n \in Requests, NEW r \in Ranks, RankDies(n, r)
          PROVE  StillBusy
      BY <3>31, MoveAt DEF RankDies
    <3>32. CASE UNCHANGED vars
      BY <3>32 DEF vars, notebook, call, group, files
    <3>33. QED
      BY <3>1, <3>2, <3>3, <3>4, <3>5, <3>6, <3>7, <3>8, <3>9, <3>10, <3>11,
         <3>12, <3>13, <3>14, <3>15, <3>16, <3>17, <3>18, <3>19, <3>20, <3>21,
         <3>22, <3>23, <3>24, <3>25, <3>26, <3>27, <3>28, <3>29, <3>30, <3>31,
         <3>32
      DEF Next, Coordinate, Join, RanksGoOn, Collective, RankStep, Fault
  <2>3. QED
    BY <2>1, <2>2 DEF Opened
<1>3. QED
  BY <1>1, <1>2

-----------------------------------------------------------------------------
(* Every step preserves the invariant                                       *)

\* Every step keeps what a launcher says of its ranks true.
LEMMA JoinedStep == TypeOK /\ Opened /\ Joined /\ [Next]_vars => Joined'
<1> SUFFICES ASSUME TypeOK, Opened, Joined, [Next]_vars PROVE Joined'
  OBVIOUS
<1> USE DEF notebook, call, group, files, Joined
<1>1. ASSUME NEW f \in Flaws, Call(f) PROVE Joined'
  BY <1>1, CallAt DEF Call, TypeOK
<1>2. CASE Beat
  BY <1>2 DEF Beat
<1>3. CASE Silence
  BY <1>3 DEF Silence
<1>4. CASE Exited
  BY <1>4 DEF Exited
<1>5. CASE Terminate
  BY <1>5 DEF Terminate
<1>6. CASE Reaped
  BY <1>6 DEF Reaped
<1>7. CASE KillGroup
  BY <1>7, KillAt, CurrentIsRequest, RequestsFinite DEF KillGroup, Alive, Gone,
     TypeOK
<1>8. CASE Fail
  BY <1>8 DEF Fail
<1>9. CASE ReadSummary
  BY <1>9 DEF ReadSummary
<1>10. CASE Publish
  BY <1>10 DEF Publish
<1>11. CASE Interrupt
  BY <1>11 DEF Interrupt
<1>12. CASE KernelDies
  BY <1>12 DEF KernelDies
<1>13. ASSUME NEW n \in Requests, Spawn(n) PROVE Joined'
  BY <1>13, SpawnAt DEF Spawn, TypeOK
<1>14. ASSUME NEW n \in Requests, JoinOk(n) PROVE Joined'
  BY <1>14 DEF JoinOk, TypeOK
<1>15. ASSUME NEW n \in Requests, JoinError(n) PROVE Joined'
  BY <1>15 DEF JoinError, TypeOK
<1>16. ASSUME NEW n \in Requests, Probe(n),
             UNCHANGED faults
      PROVE  Joined'
  BY <1>16, TogetherAt DEF Probe
<1>17. ASSUME NEW n \in Requests, Update(n), UNCHANGED faults
      PROVE  Joined'
  BY <1>17, TogetherAt DEF Update
<1>18. ASSUME NEW n \in Requests, Timing(n), UNCHANGED faults
      PROVE  Joined'
  BY <1>18, TogetherAt DEF Timing
<1>19. ASSUME NEW n \in Requests, Leave(n),
             UNCHANGED faults
      PROVE  Joined'
  BY <1>19, TogetherAt DEF Leave
<1>20. ASSUME NEW n \in Requests, NEW r \in Ranks, Enter(n, r),
             UNCHANGED faults
      PROVE  Joined'
  BY <1>20, MoveAt DEF Enter
<1>21. ASSUME NEW n \in Requests, NEW r \in Ranks, Refused(n, r),
             UNCHANGED faults
      PROVE  Joined'
  BY <1>21, MoveAt DEF Refused
<1>22. ASSUME NEW n \in Requests, NEW r \in Ranks, Preflight(n, r),
             UNCHANGED faults
      PROVE  Joined'
  BY <1>22, MoveAt DEF Preflight
<1>23. ASSUME NEW n \in Requests, NEW r \in Ranks, Setup(n, r),
             UNCHANGED faults
      PROVE  Joined'
  BY <1>23, MoveAt DEF Setup, Local
<1>24. ASSUME NEW n \in Requests, NEW r \in Ranks, TrainBegin(n, r),
             UNCHANGED faults
      PROVE  Joined'
  BY <1>24, MoveAt DEF TrainBegin, Local
<1>25. ASSUME NEW n \in Requests, NEW r \in Ranks, Write(n, r),
             UNCHANGED faults
      PROVE  Joined'
  BY <1>25, MoveAt DEF Write, Local
<1>26. ASSUME NEW n \in Requests, LauncherFails(n) PROVE Joined'
  BY <1>26 DEF LauncherFails, TypeOK
<1>27. ASSUME NEW n \in Requests, LauncherDies(n) PROVE Joined'
  BY <1>27 DEF LauncherDies, TypeOK
<1>28. ASSUME NEW n \in Requests, NEW r \in Ranks, RankFails(n, r)
      PROVE  Joined'
  BY <1>28, MoveAt DEF RankFails, Alive, Gone
<1>29. ASSUME NEW n \in Requests, NEW r \in Ranks, RankHangs(n, r)
      PROVE  Joined'
  BY <1>29, MoveAt DEF RankHangs, Alive, Gone
<1>30. ASSUME NEW n \in Requests, NEW r \in Ranks, RankCores(n, r)
      PROVE  Joined'
  BY <1>30, MoveAt DEF RankCores, Alive, Gone
<1>31. ASSUME NEW n \in Requests, NEW r \in Ranks, RankDies(n, r)
      PROVE  Joined'
  BY <1>31, MoveAt DEF RankDies, Alive, Gone
<1>32. CASE UNCHANGED vars
  BY <1>32 DEF vars, notebook, call, group, files
<1>33. QED
  BY <1>1, <1>2, <1>3, <1>4, <1>5, <1>6, <1>7, <1>8, <1>9, <1>10, <1>11,
     <1>12, <1>13, <1>14, <1>15, <1>16, <1>17, <1>18, <1>19, <1>20, <1>21,
     <1>22, <1>23, <1>24, <1>25, <1>26, <1>27, <1>28, <1>29, <1>30, <1>31,
     <1>32
  DEF Next, Coordinate, Join, RanksGoOn, Collective, RankStep, Fault

\* A step in which no rank takes a device.
LEMMA StillExclusive ==
  ASSUME Exclusive,
         \A m \in Requests, q \in Ranks :
           /\ place'[m][q] \in Held => place[m][q] \in Held
           /\ place'[m][q] \in Active => place[m][q] \in Active
  PROVE  Exclusive'
  BY DEF Exclusive, Requests

\* Every step keeps a device with one process.
LEMMA ExclusiveStep ==
  TypeOK /\ Opened /\ Exclusive /\ [Next]_vars
    => Exclusive'
<1> SUFFICES ASSUME TypeOK, Opened, Exclusive, [Next]_vars PROVE Exclusive'
  OBVIOUS
<1> USE DEF notebook, call, group, files
<1>1. ASSUME NEW f \in Flaws, Call(f) PROVE Exclusive'
  BY <1>1 DEF Call, Exclusive
<1>2. CASE Beat
  BY <1>2 DEF Beat, Exclusive
<1>3. CASE Silence
  BY <1>3 DEF Silence, Exclusive
<1>4. CASE Exited
  BY <1>4 DEF Exited, Exclusive
<1>5. CASE Terminate
  BY <1>5 DEF Terminate, Exclusive
<1>6. CASE Reaped
  BY <1>6 DEF Reaped, Exclusive
<1>7. CASE KillGroup
  <2>1. ASSUME NEW m \in Requests, NEW q \in Ranks
        PROVE  /\ place'[m][q] \in Held => place[m][q] \in Held
               /\ place'[m][q] \in Active => place[m][q] \in Active
    BY <1>7, KillAt, CurrentIsRequest DEF Alive, Active, Held, KillGroup
  <2>2. QED
    BY <2>1, StillExclusive
<1>8. CASE Fail
  BY <1>8 DEF Fail, Exclusive
<1>9. CASE ReadSummary
  BY <1>9 DEF ReadSummary, Exclusive
<1>10. CASE Publish
  BY <1>10 DEF Publish, Exclusive
<1>11. CASE Interrupt
  BY <1>11 DEF Interrupt, Exclusive
<1>12. CASE KernelDies
  BY <1>12 DEF KernelDies, Exclusive
<1>13. ASSUME NEW n \in Requests, Spawn(n) PROVE Exclusive'
  <2>1. ASSUME NEW m \in Requests, NEW q \in Ranks
        PROVE  /\ place'[m][q] \in Held => place[m][q] \in Held
               /\ place'[m][q] \in Active => place[m][q] \in Active
    BY <1>13, SpawnAt DEF Held, Active
  <2>2. QED
    BY <2>1, StillExclusive
<1>14. ASSUME NEW n \in Requests, JoinOk(n) PROVE Exclusive'
  BY <1>14 DEF JoinOk, Exclusive
<1>15. ASSUME NEW n \in Requests, JoinError(n) PROVE Exclusive'
  BY <1>15 DEF JoinError, Exclusive
<1>16. ASSUME NEW n \in Requests, Probe(n), UNCHANGED faults
      PROVE  Exclusive'
  <2>1. /\ \A r \in Ranks :
             /\ place[n][r] = "entered"
             /\ place'[n][r] = "probed"
        /\ \A m \in Requests \ {n}, q \in Ranks : place'[m][q] = place[m][q]
    BY <1>16, TogetherAt DEF Probe
  <2>2. ASSUME NEW m \in Requests, NEW q \in Ranks
        PROVE  /\ place'[m][q] \in Held => place[m][q] \in Held
               /\ place'[m][q] \in Active => place[m][q] \in Active
    BY <2>1 DEF Held, Active
  <2>3. QED
    BY <2>2, StillExclusive
<1>17. ASSUME NEW n \in Requests, Update(n), UNCHANGED faults
      PROVE  Exclusive'
  <2>1. /\ \A r \in Ranks :
             /\ place[n][r] = "training"
             /\ place'[n][r] = "training"
        /\ \A m \in Requests \ {n}, q \in Ranks : place'[m][q] = place[m][q]
    BY <1>17, TogetherAt DEF Update
  <2>2. ASSUME NEW m \in Requests, NEW q \in Ranks
        PROVE  /\ place'[m][q] \in Held => place[m][q] \in Held
               /\ place'[m][q] \in Active => place[m][q] \in Active
    BY <2>1 DEF Held, Active
  <2>3. QED
    BY <2>2, StillExclusive
<1>18. ASSUME NEW n \in Requests, Timing(n), UNCHANGED faults
      PROVE  Exclusive'
  <2>1. /\ \A r \in Ranks :
             /\ place[n][r] = "training"
             /\ place'[n][r] = "timed"
        /\ \A m \in Requests \ {n}, q \in Ranks : place'[m][q] = place[m][q]
    BY <1>18, TogetherAt DEF Timing
  <2>2. ASSUME NEW m \in Requests, NEW q \in Ranks
        PROVE  /\ place'[m][q] \in Held => place[m][q] \in Held
               /\ place'[m][q] \in Active => place[m][q] \in Active
    BY <2>1 DEF Held, Active
  <2>3. QED
    BY <2>2, StillExclusive
<1>19. ASSUME NEW n \in Requests, Leave(n), UNCHANGED faults
      PROVE  Exclusive'
  <2>1. /\ \A r \in Ranks :
             /\ place[n][r] = (IF kind[n] = "probe" THEN "probed" ELSE "written")
             /\ place'[n][r] = "done"
        /\ \A m \in Requests \ {n}, q \in Ranks : place'[m][q] = place[m][q]
    BY <1>19, TogetherAt DEF Leave
  <2>2. ASSUME NEW m \in Requests, NEW q \in Ranks
        PROVE  /\ place'[m][q] \in Held => place[m][q] \in Held
               /\ place'[m][q] \in Active => place[m][q] \in Active
    BY <2>1 DEF Held, Active
  <2>3. QED
    BY <2>2, StillExclusive
<1>20. ASSUME NEW n \in Requests, NEW r \in Ranks, Enter(n, r),
             UNCHANGED faults
      PROVE  Exclusive'
  <2>1. /\ place[n][r] = "spawned" /\ place'[n][r] = "entered" /\ Free(n, r)
        /\ \A m \in Requests, q \in Ranks :
             m # n \/ q # r => place'[m][q] = place[m][q]
    BY <1>20, MoveAt DEF Enter
  <2>2. ASSUME NEW m \in Requests, NEW k \in Requests, NEW q \in Ranks, m < k,
               place'[k][q] \in Held
        PROVE  place'[m][q] \notin Active
    <3>1. CASE k = n /\ q = r
      BY <2>1, <2>2, <3>1 DEF Free, Gone, Fresh, Active, Requests
    <3>2. CASE m = n /\ q = r
      BY <2>1, <2>2, <3>2 DEF Free, Fresh, Held, Active, Requests
    <3>3. CASE ~ (k = n /\ q = r) /\ ~ (m = n /\ q = r)
      BY <2>1, <2>2, <3>3 DEF Exclusive
    <3>4. QED
      BY <3>1, <3>2, <3>3
  <2>3. QED
    BY <2>2 DEF Exclusive
<1>21. ASSUME NEW n \in Requests, NEW r \in Ranks, Refused(n, r),
             UNCHANGED faults
      PROVE  Exclusive'
  <2>1. /\ place[n][r] = "spawned" /\ place'[n][r] = "failed"
        /\ \A m \in Requests, q \in Ranks :
             m # n \/ q # r => place'[m][q] = place[m][q]
    BY <1>21, MoveAt DEF Refused
  <2>2. ASSUME NEW m \in Requests, NEW q \in Ranks
        PROVE  /\ place'[m][q] \in Held => place[m][q] \in Held
               /\ place'[m][q] \in Active => place[m][q] \in Active
    BY <2>1 DEF Held, Active
  <2>3. QED
    BY <2>2, StillExclusive
<1>22. ASSUME NEW n \in Requests, NEW r \in Ranks, Preflight(n, r),
             UNCHANGED faults
      PROVE  Exclusive'
  <2>1. /\ place[n][r] = "probed" /\ place'[n][r] = "written"
        /\ \A m \in Requests, q \in Ranks :
             m # n \/ q # r => place'[m][q] = place[m][q]
    BY <1>22, MoveAt DEF Preflight
  <2>2. ASSUME NEW m \in Requests, NEW q \in Ranks
        PROVE  /\ place'[m][q] \in Held => place[m][q] \in Held
               /\ place'[m][q] \in Active => place[m][q] \in Active
    BY <2>1 DEF Held, Active
  <2>3. QED
    BY <2>2, StillExclusive
<1>23. ASSUME NEW n \in Requests, NEW r \in Ranks, Setup(n, r),
             UNCHANGED faults
      PROVE  Exclusive'
  <2>1. /\ place[n][r] = "probed"
        /\ place'[n][r] = (IF Sound(n) THEN "built" ELSE "failed")
        /\ \A m \in Requests, q \in Ranks :
             m # n \/ q # r => place'[m][q] = place[m][q]
    BY <1>23, MoveAt DEF Setup, Local
  <2>2. ASSUME NEW m \in Requests, NEW q \in Ranks
        PROVE  /\ place'[m][q] \in Held => place[m][q] \in Held
               /\ place'[m][q] \in Active => place[m][q] \in Active
    BY <2>1 DEF Held, Active
  <2>3. QED
    BY <2>2, StillExclusive
<1>24. ASSUME NEW n \in Requests, NEW r \in Ranks, TrainBegin(n, r),
             UNCHANGED faults
      PROVE  Exclusive'
  <2>1. /\ place[n][r] = "built" /\ place'[n][r] = "training"
        /\ \A m \in Requests, q \in Ranks :
             m # n \/ q # r => place'[m][q] = place[m][q]
    BY <1>24, MoveAt DEF TrainBegin, Local
  <2>2. ASSUME NEW m \in Requests, NEW q \in Ranks
        PROVE  /\ place'[m][q] \in Held => place[m][q] \in Held
               /\ place'[m][q] \in Active => place[m][q] \in Active
    BY <2>1 DEF Held, Active
  <2>3. QED
    BY <2>2, StillExclusive
<1>25. ASSUME NEW n \in Requests, NEW r \in Ranks, Write(n, r),
             UNCHANGED faults
      PROVE  Exclusive'
  <2>1. /\ place[n][r] = "timed" /\ place'[n][r] = "written"
        /\ \A m \in Requests, q \in Ranks :
             m # n \/ q # r => place'[m][q] = place[m][q]
    BY <1>25, MoveAt DEF Write, Local
  <2>2. ASSUME NEW m \in Requests, NEW q \in Ranks
        PROVE  /\ place'[m][q] \in Held => place[m][q] \in Held
               /\ place'[m][q] \in Active => place[m][q] \in Active
    BY <2>1 DEF Held, Active
  <2>3. QED
    BY <2>2, StillExclusive
<1>26. ASSUME NEW n \in Requests, LauncherFails(n) PROVE Exclusive'
  BY <1>26 DEF LauncherFails, Exclusive
<1>27. ASSUME NEW n \in Requests, LauncherDies(n) PROVE Exclusive'
  BY <1>27 DEF LauncherDies, Exclusive
<1>28. ASSUME NEW n \in Requests, NEW r \in Ranks, RankFails(n, r)
      PROVE  Exclusive'
  <2>1. /\ place[n][r] = place[n][r] /\ place'[n][r] = "failed"
        /\ \A m \in Requests, q \in Ranks :
             m # n \/ q # r => place'[m][q] = place[m][q]
    BY <1>28, MoveAt DEF RankFails
  <2>2. ASSUME NEW m \in Requests, NEW q \in Ranks
        PROVE  /\ place'[m][q] \in Held => place[m][q] \in Held
               /\ place'[m][q] \in Active => place[m][q] \in Active
    BY <2>1 DEF Held, Active
  <2>3. QED
    BY <2>2, StillExclusive
<1>29. ASSUME NEW n \in Requests, NEW r \in Ranks, RankHangs(n, r)
      PROVE  Exclusive'
  <2>1. /\ place[n][r] = place[n][r] /\ place'[n][r] = "hung"
        /\ \A m \in Requests, q \in Ranks :
             m # n \/ q # r => place'[m][q] = place[m][q]
    BY <1>29, MoveAt DEF RankHangs
  <2>2. ASSUME NEW m \in Requests, NEW q \in Ranks
        PROVE  /\ place'[m][q] \in Held => place[m][q] \in Held
               /\ place'[m][q] \in Active => place[m][q] \in Active
    BY <2>1 DEF Held, Active
  <2>3. QED
    BY <2>2, StillExclusive
<1>30. ASSUME NEW n \in Requests, NEW r \in Ranks, RankCores(n, r)
      PROVE  Exclusive'
  <2>1. /\ place[n][r] = place[n][r] /\ place'[n][r] = "cored"
        /\ \A m \in Requests, q \in Ranks :
             m # n \/ q # r => place'[m][q] = place[m][q]
    BY <1>30, MoveAt DEF RankCores
  <2>2. ASSUME NEW m \in Requests, NEW q \in Ranks
        PROVE  /\ place'[m][q] \in Held => place[m][q] \in Held
               /\ place'[m][q] \in Active => place[m][q] \in Active
    BY <2>1 DEF Held, Active
  <2>3. QED
    BY <2>2, StillExclusive
<1>31. ASSUME NEW n \in Requests, NEW r \in Ranks, RankDies(n, r)
      PROVE  Exclusive'
  <2>1. /\ place[n][r] = place[n][r] /\ place'[n][r] = "killed"
        /\ \A m \in Requests, q \in Ranks :
             m # n \/ q # r => place'[m][q] = place[m][q]
    BY <1>31, MoveAt DEF RankDies
  <2>2. ASSUME NEW m \in Requests, NEW q \in Ranks
        PROVE  /\ place'[m][q] \in Held => place[m][q] \in Held
               /\ place'[m][q] \in Active => place[m][q] \in Active
    BY <2>1 DEF Held, Active
  <2>3. QED
    BY <2>2, StillExclusive
<1>32. CASE UNCHANGED vars
  BY <1>32 DEF vars, notebook, call, group, files, Exclusive
<1>33. QED
  BY <1>1, <1>2, <1>3, <1>4, <1>5, <1>6, <1>7, <1>8, <1>9, <1>10, <1>11,
     <1>12, <1>13, <1>14, <1>15, <1>16, <1>17, <1>18, <1>19, <1>20, <1>21,
     <1>22, <1>23, <1>24, <1>25, <1>26, <1>27, <1>28, <1>29, <1>30, <1>31,
     <1>32
  DEF Next, Coordinate, Join, RanksGoOn, Collective, RankStep, Fault

\* A rank that moves keeps InStep when the place it comes to fits its request.
LEMMA MoveInStep ==
  ASSUME TypeOK, InStep, NEW n \in Requests, NEW r \in Ranks, NEW from,
         NEW to, Move(n, r, from, to),
         step[n] > 0 => to \notin Early,
         kind[n] = "train" /\ to \in {"timed", "written", "done"}
           => step[n] = Steps,
         to \in {"built", "training", "timed"} => kind[n] = "train"
  PROVE  InStep'
<1>1. /\ place'[n][r] = to /\ step' = step /\ kind' = kind
      /\ \A m \in Requests, q \in Ranks :
           m # n \/ q # r => place'[m][q] = place[m][q]
  BY MoveAt
<1>2. ASSUME NEW m \in Requests, NEW q \in Ranks
      PROVE  /\ step'[m] > 0 => place'[m][q] \notin Early
             /\ kind'[m] = "train"
                /\ place'[m][q] \in {"timed", "written", "done"}
                  => step'[m] = Steps
             /\ place'[m][q] \in {"built", "training", "timed"}
                  => kind'[m] = "train"
  <2>1. CASE m = n /\ q = r
    BY <1>1, <2>1
  <2>2. CASE m # n \/ q # r
    BY <1>1, <2>2 DEF InStep
  <2>3. QED
    BY <2>1, <2>2
<1>3. QED
  BY <1>2 DEF InStep, Early

\* Every step keeps the places of a request with its updates.
LEMMA InStepStep ==
  TypeOK /\ Opened /\ Joined /\ InStep /\ [Next]_vars
    => InStep'
<1> SUFFICES ASSUME TypeOK, Opened, Joined, InStep, [Next]_vars PROVE InStep'
  OBVIOUS
<1> USE LaunchAssumption DEF notebook, call, group, files, InStep, Early, Joined
<1>1. ASSUME NEW f \in Flaws, Call(f) PROVE InStep'
  BY <1>1 DEF Call
<1>2. CASE Beat
  BY <1>2 DEF Beat
<1>3. CASE Silence
  BY <1>3 DEF Silence
<1>4. CASE Exited
  BY <1>4 DEF Exited
<1>5. CASE Terminate
  BY <1>5 DEF Terminate
<1>6. CASE Reaped
  BY <1>6 DEF Reaped
<1>7. CASE KillGroup
  BY <1>7, KillAt, CurrentIsRequest DEF KillGroup, Alive, Gone
<1>8. CASE Fail
  BY <1>8 DEF Fail
<1>9. CASE ReadSummary
  BY <1>9 DEF ReadSummary
<1>10. CASE Publish
  BY <1>10 DEF Publish
<1>11. CASE Interrupt
  BY <1>11 DEF Interrupt
<1>12. CASE KernelDies
  BY <1>12 DEF KernelDies
<1>13. ASSUME NEW n \in Requests, Spawn(n) PROVE InStep'
  BY <1>13, SpawnAt DEF Spawn
<1>14. ASSUME NEW n \in Requests, JoinOk(n) PROVE InStep'
  BY <1>14 DEF JoinOk
<1>15. ASSUME NEW n \in Requests, JoinError(n) PROVE InStep'
  BY <1>15 DEF JoinError
<1>16. ASSUME NEW n \in Requests, Probe(n),
             UNCHANGED faults
      PROVE  InStep'
  BY <1>16, TogetherAt DEF Probe
<1>17. ASSUME NEW n \in Requests, Update(n), UNCHANGED faults
      PROVE  InStep'
  BY <1>17, TogetherAt DEF Update, TypeOK, LaunchAssumption
<1>18. ASSUME NEW n \in Requests, Timing(n), UNCHANGED faults
      PROVE  InStep'
  BY <1>18, TogetherAt DEF Timing, TypeOK, LaunchAssumption
<1>19. ASSUME NEW n \in Requests, Leave(n),
             UNCHANGED faults
      PROVE  InStep'
  BY <1>19, TogetherAt DEF Leave
<1>20. ASSUME NEW n \in Requests, NEW r \in Ranks, Enter(n, r),
             UNCHANGED faults
      PROVE  InStep'
  <2>1. Move(n, r, "spawned", "entered")
    BY <1>20 DEF Enter
  <2>2. place[n][r] = "spawned"
    BY <2>1 DEF Move
  <2>3. QED
    BY <2>1, <2>2, MoveInStep DEF InStep, Early
<1>21. ASSUME NEW n \in Requests, NEW r \in Ranks, Refused(n, r),
             UNCHANGED faults
      PROVE  InStep'
  <2>1. Move(n, r, "spawned", "failed")
    BY <1>21 DEF Refused
  <2>2. place[n][r] = "spawned"
    BY <2>1 DEF Move
  <2>3. QED
    BY <2>1, <2>2, MoveInStep DEF InStep, Early
<1>22. ASSUME NEW n \in Requests, NEW r \in Ranks, Preflight(n, r),
             UNCHANGED faults
      PROVE  InStep'
  <2>1. /\ Move(n, r, "probed", "written")
        /\ kind[n] # "train"
    BY <1>22 DEF Preflight
  <2>2. place[n][r] = "probed"
    BY <2>1 DEF Move
  <2>3. QED
    BY <2>1, <2>2, MoveInStep DEF InStep, Early
<1>23. ASSUME NEW n \in Requests, NEW r \in Ranks, Setup(n, r),
             UNCHANGED faults
      PROVE  InStep'
  <2>1. /\ Move(n, r, "probed", IF Sound(n) THEN "built" ELSE "failed")
        /\ kind[n] = "train"
    BY <1>23 DEF Setup, Local
  <2>2. place[n][r] = "probed"
    BY <2>1 DEF Move
  <2>3. QED
    BY <2>1, <2>2, MoveInStep DEF InStep, Early
<1>24. ASSUME NEW n \in Requests, NEW r \in Ranks, TrainBegin(n, r),
             UNCHANGED faults
      PROVE  InStep'
  <2>1. /\ Move(n, r, "built", "training")
        /\ kind[n] = "train"
    BY <1>24 DEF TrainBegin, Local
  <2>2. place[n][r] = "built"
    BY <2>1 DEF Move
  <2>3. QED
    BY <2>1, <2>2, MoveInStep DEF InStep, Early
<1>25. ASSUME NEW n \in Requests, NEW r \in Ranks, Write(n, r),
             UNCHANGED faults
      PROVE  InStep'
  <2>1. /\ Move(n, r, "timed", "written")
        /\ kind[n] = "train"
    BY <1>25 DEF Write, Local
  <2>2. place[n][r] = "timed"
    BY <2>1 DEF Move
  <2>3. QED
    BY <2>1, <2>2, MoveInStep DEF InStep, Early
<1>26. ASSUME NEW n \in Requests, LauncherFails(n) PROVE InStep'
  BY <1>26 DEF LauncherFails
<1>27. ASSUME NEW n \in Requests, LauncherDies(n) PROVE InStep'
  BY <1>27 DEF LauncherDies
<1>28. ASSUME NEW n \in Requests, NEW r \in Ranks, RankFails(n, r)
      PROVE  InStep'
  <2>1. Move(n, r, place[n][r], "failed")
    BY <1>28 DEF RankFails
  <2>2. QED
    BY <2>1, MoveInStep DEF Early
<1>29. ASSUME NEW n \in Requests, NEW r \in Ranks, RankHangs(n, r)
      PROVE  InStep'
  <2>1. Move(n, r, place[n][r], "hung")
    BY <1>29 DEF RankHangs
  <2>2. QED
    BY <2>1, MoveInStep DEF Early
<1>30. ASSUME NEW n \in Requests, NEW r \in Ranks, RankCores(n, r)
      PROVE  InStep'
  <2>1. Move(n, r, place[n][r], "cored")
    BY <1>30 DEF RankCores
  <2>2. QED
    BY <2>1, MoveInStep DEF Early
<1>31. ASSUME NEW n \in Requests, NEW r \in Ranks, RankDies(n, r)
      PROVE  InStep'
  <2>1. Move(n, r, place[n][r], "killed")
    BY <1>31 DEF RankDies
  <2>2. QED
    BY <2>1, MoveInStep DEF Early
<1>32. CASE UNCHANGED vars
  BY <1>32 DEF vars, notebook, call, group, files
<1>33. QED
  BY <1>1, <1>2, <1>3, <1>4, <1>5, <1>6, <1>7, <1>8, <1>9, <1>10, <1>11,
     <1>12, <1>13, <1>14, <1>15, <1>16, <1>17, <1>18, <1>19, <1>20, <1>21,
     <1>22, <1>23, <1>24, <1>25, <1>26, <1>27, <1>28, <1>29, <1>30, <1>31,
     <1>32
  DEF Next, Coordinate, Join, RanksGoOn, Collective, RankStep, Fault


\* The request whose rank 0 has its device is the only one that answers.
LEMMA Alone ==
  ASSUME Opened, Joined, Exclusive, NEW n \in Requests,
         place[n][0] \in Active, NEW m \in Requests \ {n}
  PROVE  /\ place[m][0] \notin Active
         /\ ~ (place[m][0] = "done" /\ m = Current)
<1>1. 0 \in Ranks /\ Requests \subseteq Nat
  BY LaunchAssumption DEF LaunchAssumption, Requests
<1>2. CASE m < n
  <2>1. place[m][0] \notin Active
    BY <1>1, <1>2 DEF Exclusive, Held
  <2>2. ~ (n <= m)
    BY <1>1, <1>2
  <2>3. n <= Current
    BY <1>1 DEF Opened, Joined, Active
  <2>4. QED
    BY <2>1, <2>2, <2>3
<1>3. CASE n < m
  BY <1>1, <1>3 DEF Exclusive, Held
<1>4. QED
  BY <1>1, <1>2, <1>3

\* Nobody wrote a file, and no rank 0 came to where it answers.
LEMMA StillAnswered ==
  ASSUME Answered, Current' = Current,
         UNCHANGED <<metrics, summary, step, kind>>,
         \A m \in Requests :
           \/ place'[m][0] = place[m][0]
           \/ /\ place'[m][0] \notin {"training", "timed"}
              /\ kind[m] = "train" => place'[m][0] \notin {"written", "done"}
  PROVE  Answered'
  BY DEF Answered, Lines

\* Every step keeps the files those of the request at the device.
LEMMA AnsweredStep ==
  TypeOK /\ Opened /\ Joined /\ Exclusive /\ InStep /\ Answered
     /\ Current' = Current /\ [Next]_vars
    => Answered'
<1> SUFFICES ASSUME TypeOK, Opened, Joined, Exclusive, InStep, Answered,
                    Current' = Current, [Next]_vars
             PROVE  Answered'
  OBVIOUS
<1> USE DEF notebook, call, group, files
<1>1. ASSUME NEW f \in Flaws, Call(f) PROVE Answered'
  BY <1>1, CallAt, RequestsFinite
<1>2. CASE Beat
  BY <1>2, StillAnswered DEF Beat
<1>3. CASE Silence
  BY <1>3, StillAnswered DEF Silence
<1>4. CASE Exited
  BY <1>4, StillAnswered DEF Exited
<1>5. CASE Terminate
  BY <1>5, StillAnswered DEF Terminate
<1>6. CASE Reaped
  BY <1>6, StillAnswered DEF Reaped
<1>7. CASE KillGroup
  <2>1. ASSUME NEW m \in Requests
        PROVE  \/ place'[m][0] = place[m][0]
               \/ /\ place'[m][0] \notin {"training", "timed"}
                  /\ kind[m] = "train"
                       => place'[m][0] \notin {"written", "done"}
    BY <1>7, KillAt, CurrentIsRequest, LaunchAssumption
    DEF KillGroup, LaunchAssumption
  <2>2. UNCHANGED <<metrics, summary, step, kind>>
    BY <1>7 DEF KillGroup
  <2>3. QED
    BY <2>1, <2>2, StillAnswered
<1>8. CASE Fail
  BY <1>8, StillAnswered DEF Fail
<1>9. CASE ReadSummary
  BY <1>9, StillAnswered DEF ReadSummary
<1>10. CASE Publish
  BY <1>10, StillAnswered DEF Publish
<1>11. CASE Interrupt
  BY <1>11, StillAnswered DEF Interrupt
<1>12. CASE KernelDies
  BY <1>12, StillAnswered DEF KernelDies
<1>13. ASSUME NEW n \in Requests, Spawn(n) PROVE Answered'
  <2>1. ASSUME NEW m \in Requests
        PROVE  \/ place'[m][0] = place[m][0]
               \/ /\ place'[m][0] \notin {"training", "timed"}
                  /\ kind[m] = "train"
                       => place'[m][0] \notin {"written", "done"}
    BY <1>13, SpawnAt, LaunchAssumption DEF LaunchAssumption
  <2>2. UNCHANGED <<metrics, summary, step, kind>>
    BY <1>13, SpawnAt DEF Spawn
  <2>3. QED
    BY <2>1, <2>2, StillAnswered
<1>14. ASSUME NEW n \in Requests, JoinOk(n) PROVE Answered'
  BY <1>14, StillAnswered DEF JoinOk
<1>15. ASSUME NEW n \in Requests, JoinError(n) PROVE Answered'
  BY <1>15, StillAnswered DEF JoinError
<1>16. ASSUME NEW n \in Requests, Probe(n), UNCHANGED faults
      PROVE  Answered'
  <2>1. ASSUME NEW m \in Requests
        PROVE  \/ place'[m][0] = place[m][0]
               \/ /\ place'[m][0] \notin {"training", "timed"}
                  /\ kind[m] = "train"
                       => place'[m][0] \notin {"written", "done"}
    BY <1>16, TogetherAt, LaunchAssumption DEF Probe, LaunchAssumption
  <2>2. UNCHANGED <<metrics, summary, step, kind>>
    BY <1>16, TogetherAt DEF Probe
  <2>3. QED
    BY <2>1, <2>2, StillAnswered
<1>17. ASSUME NEW n \in Requests, Update(n), UNCHANGED faults
      PROVE  Answered'
  <2>1. /\ \A r \in Ranks :
             /\ place[n][r] = "training"
             /\ place'[n][r] = "training"
        /\ \A m \in Requests \ {n}, q \in Ranks : place'[m][q] = place[m][q]
        /\ UNCHANGED <<summary, kind>> /\ 0 \in Ranks
    BY <1>17, TogetherAt, LaunchAssumption DEF Update, LaunchAssumption
  <2>2. /\ step[n] \in Nat /\ step' = [step EXCEPT ![n] = step[n] + 1]
        /\ metrics' = Append(metrics, n)
    BY <1>17 DEF Update, TypeOK
  <2>3. step'[n] = step[n] + 1
    BY <2>2 DEF TypeOK
  <2>4. metrics' = Lines(n)'
    <3>1. metrics = [i \in 1 .. step[n] |-> n]
      BY <2>1 DEF Answered, Lines
    <3>2. Append(metrics, n) = [i \in 1 .. step[n] + 1 |-> n]
      BY <2>2, <3>1, AppendLine
    <3>3. QED
      BY <2>2, <2>3, <3>2 DEF Lines
  <2>5. ASSUME NEW m \in Requests \ {n}
        PROVE  /\ place'[m][0] \notin Active
               /\ ~ (place'[m][0] = "done" /\ m = Current)
    BY <2>1, Alone DEF Active
  <2>6. QED
    BY <2>1, <2>4, <2>5 DEF Answered, Active
<1>18. ASSUME NEW n \in Requests, Timing(n), UNCHANGED faults
      PROVE  Answered'
  <2>1. /\ \A r \in Ranks :
             /\ place[n][r] = "training"
             /\ place'[n][r] = "timed"
        /\ \A m \in Requests \ {n}, q \in Ranks : place'[m][q] = place[m][q]
        /\ UNCHANGED <<metrics, summary, step, kind>> /\ 0 \in Ranks
    BY <1>18, TogetherAt, LaunchAssumption DEF Timing, LaunchAssumption
  <2>2. QED
    BY <2>1 DEF Answered, Lines
<1>19. ASSUME NEW n \in Requests, Leave(n), UNCHANGED faults
      PROVE  Answered'
  <2>1. /\ \A r \in Ranks :
             /\ place[n][r] = (IF kind[n] = "probe" THEN "probed" ELSE "written")
             /\ place'[n][r] = "done"
        /\ \A m \in Requests \ {n}, q \in Ranks : place'[m][q] = place[m][q]
        /\ UNCHANGED <<metrics, summary, step, kind>> /\ 0 \in Ranks
    BY <1>19, TogetherAt, LaunchAssumption DEF Leave, LaunchAssumption
  <2>2. QED
    BY <2>1 DEF Answered, Lines
<1>20. ASSUME NEW n \in Requests, NEW r \in Ranks, Enter(n, r),
             UNCHANGED faults
      PROVE  Answered'
  <2>1. ASSUME NEW m \in Requests
        PROVE  \/ place'[m][0] = place[m][0]
               \/ /\ place'[m][0] \notin {"training", "timed"}
                  /\ kind[m] = "train"
                       => place'[m][0] \notin {"written", "done"}
    BY <1>20, MoveAt, LaunchAssumption
    DEF Enter, LaunchAssumption
  <2>2. UNCHANGED <<metrics, summary, step, kind>>
    BY <1>20, MoveAt DEF Enter
  <2>3. QED
    BY <2>1, <2>2, StillAnswered
<1>21. ASSUME NEW n \in Requests, NEW r \in Ranks, Refused(n, r),
             UNCHANGED faults
      PROVE  Answered'
  <2>1. ASSUME NEW m \in Requests
        PROVE  \/ place'[m][0] = place[m][0]
               \/ /\ place'[m][0] \notin {"training", "timed"}
                  /\ kind[m] = "train"
                       => place'[m][0] \notin {"written", "done"}
    BY <1>21, MoveAt, LaunchAssumption
    DEF Refused, LaunchAssumption
  <2>2. UNCHANGED <<metrics, summary, step, kind>>
    BY <1>21, MoveAt DEF Refused
  <2>3. QED
    BY <2>1, <2>2, StillAnswered
<1>22. ASSUME NEW n \in Requests, NEW r \in Ranks, Preflight(n, r),
             UNCHANGED faults
      PROVE  Answered'
  <2>1. ASSUME NEW m \in Requests
        PROVE  \/ place'[m][0] = place[m][0]
               \/ /\ place'[m][0] \notin {"training", "timed"}
                  /\ kind[m] = "train"
                       => place'[m][0] \notin {"written", "done"}
    BY <1>22, MoveAt, LaunchAssumption
    DEF Preflight, LaunchAssumption
  <2>2. UNCHANGED <<metrics, summary, step, kind>>
    BY <1>22, MoveAt DEF Preflight
  <2>3. QED
    BY <2>1, <2>2, StillAnswered
<1>23. ASSUME NEW n \in Requests, NEW r \in Ranks, Setup(n, r),
             UNCHANGED faults
      PROVE  Answered'
  <2>1. ASSUME NEW m \in Requests
        PROVE  \/ place'[m][0] = place[m][0]
               \/ /\ place'[m][0] \notin {"training", "timed"}
                  /\ kind[m] = "train"
                       => place'[m][0] \notin {"written", "done"}
    BY <1>23, MoveAt, LaunchAssumption
    DEF Setup, Local, LaunchAssumption
  <2>2. UNCHANGED <<metrics, summary, step, kind>>
    BY <1>23, MoveAt DEF Setup, Local
  <2>3. QED
    BY <2>1, <2>2, StillAnswered
<1>24. ASSUME NEW n \in Requests, NEW r \in Ranks, TrainBegin(n, r),
             UNCHANGED faults
      PROVE  Answered'
  <2>1. /\ place[n][r] = "built" /\ place'[n][r] = "training"
        /\ \A m \in Requests, q \in Ranks :
             m # n \/ q # r => place'[m][q] = place[m][q]
        /\ UNCHANGED <<summary, step, kind>>
        /\ metrics' = IF r = 0 THEN <<>> ELSE metrics
    BY <1>24, MoveAt DEF TrainBegin, Local
  <2>2. CASE r # 0
    <3>1. \A m \in Requests : place'[m][0] = place[m][0]
      BY <2>1, <2>2, LaunchAssumption DEF LaunchAssumption
    <3>2. QED
      BY <2>1, <2>2, <3>1, StillAnswered
  <2>3. CASE r = 0
    <3>1. step[n] = 0
      BY <2>1 DEF InStep, Early, TypeOK
    <3>2. metrics' = Lines(n)'
      BY <2>1, <2>3, <3>1 DEF Lines
    <3>3. ASSUME NEW m \in Requests \ {n}
          PROVE  /\ place'[m][0] \notin Active
                 /\ ~ (place'[m][0] = "done" /\ m = Current)
      BY <2>1, <2>3, Alone DEF Active
    <3>4. QED
      BY <2>1, <2>3, <3>2, <3>3 DEF Answered, Active
  <2>4. QED
    BY <2>2, <2>3
<1>25. ASSUME NEW n \in Requests, NEW r \in Ranks, Write(n, r),
             UNCHANGED faults
      PROVE  Answered'
  <2>1. /\ place[n][r] = "timed" /\ place'[n][r] = "written"
        /\ \A m \in Requests, q \in Ranks :
             m # n \/ q # r => place'[m][q] = place[m][q]
        /\ UNCHANGED <<metrics, step, kind>>
        /\ summary' = IF r = 0 THEN n ELSE summary
    BY <1>25, MoveAt DEF Write, Local
  <2>2. CASE r # 0
    <3>1. \A m \in Requests : place'[m][0] = place[m][0]
      BY <2>1, <2>2, LaunchAssumption DEF LaunchAssumption
    <3>2. QED
      BY <2>1, <2>2, <3>1, StillAnswered
  <2>3. CASE r = 0
    <3>1. metrics' = Lines(n)' /\ summary' = n
      BY <2>1, <2>3 DEF Lines, Answered
    <3>2. ASSUME NEW m \in Requests \ {n}
          PROVE  /\ place'[m][0] \notin Active
                 /\ ~ (place'[m][0] = "done" /\ m = Current)
      BY <2>1, <2>3, Alone DEF Active
    <3>3. QED
      BY <2>1, <2>3, <3>1, <3>2 DEF Answered, Active
  <2>4. QED
    BY <2>2, <2>3
<1>26. ASSUME NEW n \in Requests, LauncherFails(n) PROVE Answered'
  BY <1>26, StillAnswered DEF LauncherFails
<1>27. ASSUME NEW n \in Requests, LauncherDies(n) PROVE Answered'
  BY <1>27, StillAnswered DEF LauncherDies
<1>28. ASSUME NEW n \in Requests, NEW r \in Ranks, RankFails(n, r)
      PROVE  Answered'
  <2>1. ASSUME NEW m \in Requests
        PROVE  \/ place'[m][0] = place[m][0]
               \/ /\ place'[m][0] \notin {"training", "timed"}
                  /\ kind[m] = "train"
                       => place'[m][0] \notin {"written", "done"}
    BY <1>28, MoveAt, LaunchAssumption
    DEF RankFails, LaunchAssumption
  <2>2. UNCHANGED <<metrics, summary, step, kind>>
    BY <1>28, MoveAt DEF RankFails
  <2>3. QED
    BY <2>1, <2>2, StillAnswered
<1>29. ASSUME NEW n \in Requests, NEW r \in Ranks, RankHangs(n, r)
      PROVE  Answered'
  <2>1. ASSUME NEW m \in Requests
        PROVE  \/ place'[m][0] = place[m][0]
               \/ /\ place'[m][0] \notin {"training", "timed"}
                  /\ kind[m] = "train"
                       => place'[m][0] \notin {"written", "done"}
    BY <1>29, MoveAt, LaunchAssumption
    DEF RankHangs, LaunchAssumption
  <2>2. UNCHANGED <<metrics, summary, step, kind>>
    BY <1>29, MoveAt DEF RankHangs
  <2>3. QED
    BY <2>1, <2>2, StillAnswered
<1>30. ASSUME NEW n \in Requests, NEW r \in Ranks, RankCores(n, r)
      PROVE  Answered'
  <2>1. ASSUME NEW m \in Requests
        PROVE  \/ place'[m][0] = place[m][0]
               \/ /\ place'[m][0] \notin {"training", "timed"}
                  /\ kind[m] = "train"
                       => place'[m][0] \notin {"written", "done"}
    BY <1>30, MoveAt, LaunchAssumption
    DEF RankCores, LaunchAssumption
  <2>2. UNCHANGED <<metrics, summary, step, kind>>
    BY <1>30, MoveAt DEF RankCores
  <2>3. QED
    BY <2>1, <2>2, StillAnswered
<1>31. ASSUME NEW n \in Requests, NEW r \in Ranks, RankDies(n, r)
      PROVE  Answered'
  <2>1. ASSUME NEW m \in Requests
        PROVE  \/ place'[m][0] = place[m][0]
               \/ /\ place'[m][0] \notin {"training", "timed"}
                  /\ kind[m] = "train"
                       => place'[m][0] \notin {"written", "done"}
    BY <1>31, MoveAt, LaunchAssumption
    DEF RankDies, LaunchAssumption
  <2>2. UNCHANGED <<metrics, summary, step, kind>>
    BY <1>31, MoveAt DEF RankDies
  <2>3. QED
    BY <2>1, <2>2, StillAnswered
<1>32. CASE UNCHANGED vars
  BY <1>32 DEF vars, notebook, call, group, files, Answered, Lines
<1>33. QED
  BY <1>1, <1>2, <1>3, <1>4, <1>5, <1>6, <1>7, <1>8, <1>9, <1>10, <1>11,
     <1>12, <1>13, <1>14, <1>15, <1>16, <1>17, <1>18, <1>19, <1>20, <1>21,
     <1>22, <1>23, <1>24, <1>25, <1>26, <1>27, <1>28, <1>29, <1>30, <1>31,
     <1>32
  DEF Next, Coordinate, Join, RanksGoOn, Collective, RankStep, Fault

\* A new request has answered nothing yet.
LEMMA AnsweredCall ==
  ASSUME TypeOK, Opened, Joined, Answered, NEW f \in Flaws, Call(f)
  PROVE  Answered'
<1>1. /\ Current' = Current + 1 /\ Current + 1 \in Requests
      /\ place[Current + 1][0] = "none"
  BY CallAt, LaunchAssumption DEF Joined, LaunchAssumption
<1>2. UNCHANGED <<kind, place, step, summary, metrics>>
  BY DEF Call
<1>3. QED
  BY <1>1, <1>2 DEF Answered, Lines


\* What a request that went through has left stays.
LEMMA OkStays ==
  ASSUME TypeOK, Opened, Joined, [Next]_vars
  PROVE  \A n \in Requests : launcher[n] = "ok" =>
            /\ launcher'[n] = "ok"
            /\ \A r \in Ranks : place[n][r] = "done" => place'[n][r] = "done"
<1> DEFINE Stays ==
      \A n \in Requests : launcher[n] = "ok" =>
        /\ launcher'[n] = "ok"
        /\ \A r \in Ranks : place[n][r] = "done" => place'[n][r] = "done"
<1> SUFFICES Stays
  OBVIOUS
<1> USE DEF notebook, call, group, files
<1>1. ASSUME NEW f \in Flaws, Call(f) PROVE Stays
  BY <1>1, CallAt DEF Call, TypeOK
<1>2. CASE Beat
  BY <1>2 DEF Beat
<1>3. CASE Silence
  BY <1>3 DEF Silence
<1>4. CASE Exited
  BY <1>4 DEF Exited
<1>5. CASE Terminate
  BY <1>5 DEF Terminate
<1>6. CASE Reaped
  BY <1>6 DEF Reaped
<1>7. CASE KillGroup
  BY <1>7, KillAt, CurrentIsRequest DEF KillGroup, Alive, Gone, Ended
<1>8. CASE Fail
  BY <1>8 DEF Fail
<1>9. CASE ReadSummary
  BY <1>9 DEF ReadSummary
<1>10. CASE Publish
  BY <1>10 DEF Publish
<1>11. CASE Interrupt
  BY <1>11 DEF Interrupt
<1>12. CASE KernelDies
  BY <1>12 DEF KernelDies
<1>13. ASSUME NEW n \in Requests, Spawn(n) PROVE Stays
  BY <1>13, SpawnAt DEF Spawn, TypeOK
<1>14. ASSUME NEW n \in Requests, JoinOk(n) PROVE Stays
  BY <1>14 DEF JoinOk, TypeOK
<1>15. ASSUME NEW n \in Requests, JoinError(n) PROVE Stays
  BY <1>15 DEF JoinError, TypeOK
<1>16. ASSUME NEW n \in Requests, Probe(n), UNCHANGED faults PROVE Stays
  BY <1>16, TogetherAt DEF Probe
<1>17. ASSUME NEW n \in Requests, Update(n), UNCHANGED faults PROVE Stays
  BY <1>17, TogetherAt DEF Update
<1>18. ASSUME NEW n \in Requests, Timing(n), UNCHANGED faults PROVE Stays
  BY <1>18, TogetherAt DEF Timing
<1>19. ASSUME NEW n \in Requests, Leave(n), UNCHANGED faults PROVE Stays
  BY <1>19, TogetherAt DEF Leave
<1>20. ASSUME NEW n \in Requests, NEW r \in Ranks, Enter(n, r),
             UNCHANGED faults
      PROVE  Stays
  BY <1>20, MoveAt DEF Enter
<1>21. ASSUME NEW n \in Requests, NEW r \in Ranks, Refused(n, r),
             UNCHANGED faults
      PROVE  Stays
  BY <1>21, MoveAt DEF Refused
<1>22. ASSUME NEW n \in Requests, NEW r \in Ranks, Preflight(n, r),
             UNCHANGED faults
      PROVE  Stays
  BY <1>22, MoveAt DEF Preflight
<1>23. ASSUME NEW n \in Requests, NEW r \in Ranks, Setup(n, r),
             UNCHANGED faults
      PROVE  Stays
  BY <1>23, MoveAt DEF Setup, Local
<1>24. ASSUME NEW n \in Requests, NEW r \in Ranks, TrainBegin(n, r),
             UNCHANGED faults
      PROVE  Stays
  BY <1>24, MoveAt DEF TrainBegin, Local
<1>25. ASSUME NEW n \in Requests, NEW r \in Ranks, Write(n, r),
             UNCHANGED faults
      PROVE  Stays
  BY <1>25, MoveAt DEF Write, Local
<1>26. ASSUME NEW n \in Requests, LauncherFails(n) PROVE Stays
  BY <1>26 DEF LauncherFails, TypeOK
<1>27. ASSUME NEW n \in Requests, LauncherDies(n) PROVE Stays
  BY <1>27 DEF LauncherDies, TypeOK
<1>28. ASSUME NEW n \in Requests, NEW r \in Ranks, RankFails(n, r)
      PROVE  Stays
  BY <1>28, MoveAt DEF RankFails, Alive, Gone
<1>29. ASSUME NEW n \in Requests, NEW r \in Ranks, RankHangs(n, r)
      PROVE  Stays
  BY <1>29, MoveAt DEF RankHangs, Alive, Gone
<1>30. ASSUME NEW n \in Requests, NEW r \in Ranks, RankCores(n, r)
      PROVE  Stays
  BY <1>30, MoveAt DEF RankCores, Alive, Gone
<1>31. ASSUME NEW n \in Requests, NEW r \in Ranks, RankDies(n, r)
      PROVE  Stays
  BY <1>31, MoveAt DEF RankDies, Alive, Gone
<1>32. CASE UNCHANGED vars
  BY <1>32 DEF vars, notebook, call, group, files
<1>33. QED
  BY <1>1, <1>2, <1>3, <1>4, <1>5, <1>6, <1>7, <1>8, <1>9, <1>10, <1>11,
     <1>12, <1>13, <1>14, <1>15, <1>16, <1>17, <1>18, <1>19, <1>20, <1>21,
     <1>22, <1>23, <1>24, <1>25, <1>26, <1>27, <1>28, <1>29, <1>30, <1>31,
     <1>32
  DEF Next, Coordinate, Join, RanksGoOn, Collective, RankStep, Fault

\* Every step keeps core dumps of the last request in its log.
LEMMA MarkedStep ==
  TypeOK /\ Opened /\ Marked /\ Current' = Current /\ [Next]_vars
    => Marked'
<1> SUFFICES ASSUME TypeOK, Opened, Marked, Current' = Current, [Next]_vars
             PROVE  Marked'
  OBVIOUS
<1> USE DEF notebook, call, group, files, Marked
<1>1. ASSUME NEW f \in Flaws, Call(f) PROVE Marked'
  BY <1>1, CallAt, RequestsFinite
<1>2. CASE Beat
  BY <1>2 DEF Beat
<1>3. CASE Silence
  BY <1>3 DEF Silence
<1>4. CASE Exited
  BY <1>4 DEF Exited
<1>5. CASE Terminate
  BY <1>5 DEF Terminate
<1>6. CASE Reaped
  BY <1>6 DEF Reaped
<1>7. CASE KillGroup
  BY <1>7, KillAt, CurrentIsRequest DEF KillGroup
<1>8. CASE Fail
  BY <1>8 DEF Fail
<1>9. CASE ReadSummary
  BY <1>9 DEF ReadSummary
<1>10. CASE Publish
  BY <1>10 DEF Publish
<1>11. CASE Interrupt
  BY <1>11 DEF Interrupt
<1>12. CASE KernelDies
  BY <1>12 DEF KernelDies
<1>13. ASSUME NEW n \in Requests, Spawn(n) PROVE Marked'
  BY <1>13, SpawnAt DEF Spawn
<1>14. ASSUME NEW n \in Requests, JoinOk(n) PROVE Marked'
  BY <1>14 DEF JoinOk
<1>15. ASSUME NEW n \in Requests, JoinError(n) PROVE Marked'
  BY <1>15 DEF JoinError
<1>16. ASSUME NEW n \in Requests, Probe(n),
             UNCHANGED faults
      PROVE  Marked'
  BY <1>16, TogetherAt DEF Probe
<1>17. ASSUME NEW n \in Requests, Update(n), UNCHANGED faults
      PROVE  Marked'
  BY <1>17, TogetherAt DEF Update
<1>18. ASSUME NEW n \in Requests, Timing(n), UNCHANGED faults
      PROVE  Marked'
  BY <1>18, TogetherAt DEF Timing
<1>19. ASSUME NEW n \in Requests, Leave(n),
             UNCHANGED faults
      PROVE  Marked'
  BY <1>19, TogetherAt DEF Leave
<1>20. ASSUME NEW n \in Requests, NEW r \in Ranks, Enter(n, r),
             UNCHANGED faults
      PROVE  Marked'
  BY <1>20, MoveAt DEF Enter
<1>21. ASSUME NEW n \in Requests, NEW r \in Ranks, Refused(n, r),
             UNCHANGED faults
      PROVE  Marked'
  BY <1>21, MoveAt DEF Refused
<1>22. ASSUME NEW n \in Requests, NEW r \in Ranks, Preflight(n, r),
             UNCHANGED faults
      PROVE  Marked'
  BY <1>22, MoveAt DEF Preflight
<1>23. ASSUME NEW n \in Requests, NEW r \in Ranks, Setup(n, r),
             UNCHANGED faults
      PROVE  Marked'
  BY <1>23, MoveAt DEF Setup, Local
<1>24. ASSUME NEW n \in Requests, NEW r \in Ranks, TrainBegin(n, r),
             UNCHANGED faults
      PROVE  Marked'
  BY <1>24, MoveAt DEF TrainBegin, Local
<1>25. ASSUME NEW n \in Requests, NEW r \in Ranks, Write(n, r),
             UNCHANGED faults
      PROVE  Marked'
  BY <1>25, MoveAt DEF Write, Local
<1>26. ASSUME NEW n \in Requests, LauncherFails(n) PROVE Marked'
  BY <1>26 DEF LauncherFails
<1>27. ASSUME NEW n \in Requests, LauncherDies(n) PROVE Marked'
  BY <1>27 DEF LauncherDies
<1>28. ASSUME NEW n \in Requests, NEW r \in Ranks, RankFails(n, r)
      PROVE  Marked'
  BY <1>28, MoveAt DEF RankFails
<1>29. ASSUME NEW n \in Requests, NEW r \in Ranks, RankHangs(n, r)
      PROVE  Marked'
  BY <1>29, MoveAt DEF RankHangs
<1>30. ASSUME NEW n \in Requests, NEW r \in Ranks, RankCores(n, r)
      PROVE  Marked'
  BY <1>30, MoveAt DEF RankCores
<1>31. ASSUME NEW n \in Requests, NEW r \in Ranks, RankDies(n, r)
      PROVE  Marked'
  BY <1>31, MoveAt DEF RankDies
<1>32. CASE UNCHANGED vars
  BY <1>32 DEF vars, notebook, call, group, files
<1>33. QED
  BY <1>1, <1>2, <1>3, <1>4, <1>5, <1>6, <1>7, <1>8, <1>9, <1>10, <1>11,
     <1>12, <1>13, <1>14, <1>15, <1>16, <1>17, <1>18, <1>19, <1>20, <1>21,
     <1>22, <1>23, <1>24, <1>25, <1>26, <1>27, <1>28, <1>29, <1>30, <1>31,
     <1>32
  DEF Next, Coordinate, Join, RanksGoOn, Collective, RankStep, Fault

\* A new call keeps them too.
LEMMA MarkedCall ==
  ASSUME TypeOK, Opened, Joined, NEW f \in Flaws, Call(f)
  PROVE  Marked'
<1>1. /\ Current' = Current + 1 /\ Current + 1 \in Requests
      /\ \A r \in Ranks : place[Current + 1][r] = "none"
  BY CallAt DEF Joined
<1>2. UNCHANGED place
  BY DEF Call
<1>3. QED
  BY <1>1, <1>2 DEF Marked

\* Where pc comes to read, and to publish.
LEMMA Reads ==
  ASSUME [Next]_vars, TypeOK
  PROVE  /\ kind' = kind
         /\ pc' \in {"read", "publish"} =>
              \/ pc' = pc /\ got' = got
              \/ Exited
              \/ ReadSummary
<1> DEFINE Either ==
      /\ kind' = kind
      /\ pc' \in {"read", "publish"} =>
           \/ pc' = pc /\ got' = got
           \/ Exited
           \/ ReadSummary
<1> SUFFICES Either
  OBVIOUS
<1> USE DEF notebook, call, group, files
<1>1. ASSUME NEW f \in Flaws, Call(f) PROVE Either
  BY <1>1 DEF Call
<1>2. CASE Beat
  BY <1>2 DEF Beat
<1>3. CASE Silence
  BY <1>3 DEF Silence
<1>4. CASE Exited
  BY <1>4 DEF Exited
<1>5. CASE Terminate
  BY <1>5 DEF Terminate
<1>6. CASE Reaped
  BY <1>6 DEF Reaped, AfterReap, Failing
<1>7. CASE KillGroup
  BY <1>7 DEF KillGroup, AfterReap, Failing
<1>8. CASE Fail
  BY <1>8 DEF Fail
<1>9. CASE ReadSummary
  BY <1>9 DEF ReadSummary
<1>10. CASE Publish
  BY <1>10 DEF Publish
<1>11. CASE Interrupt
  BY <1>11 DEF Interrupt
<1>12. CASE KernelDies
  BY <1>12 DEF KernelDies
<1>13. ASSUME NEW n \in Requests, Spawn(n) PROVE Either
  BY <1>13 DEF Spawn
<1>14. ASSUME NEW n \in Requests, JoinOk(n) PROVE Either
  BY <1>14 DEF JoinOk
<1>15. ASSUME NEW n \in Requests, JoinError(n) PROVE Either
  BY <1>15 DEF JoinError
<1>16. ASSUME NEW n \in Requests, Probe(n), UNCHANGED faults PROVE Either
  BY <1>16, TogetherAt DEF Probe
<1>17. ASSUME NEW n \in Requests, Update(n), UNCHANGED faults PROVE Either
  BY <1>17, TogetherAt DEF Update
<1>18. ASSUME NEW n \in Requests, Timing(n), UNCHANGED faults PROVE Either
  BY <1>18, TogetherAt DEF Timing
<1>19. ASSUME NEW n \in Requests, Leave(n), UNCHANGED faults PROVE Either
  BY <1>19, TogetherAt DEF Leave
<1>20. ASSUME NEW n \in Requests, NEW r \in Ranks, Enter(n, r),
             UNCHANGED faults
      PROVE  Either
  BY <1>20, MoveAt DEF Enter
<1>21. ASSUME NEW n \in Requests, NEW r \in Ranks, Refused(n, r),
             UNCHANGED faults
      PROVE  Either
  BY <1>21, MoveAt DEF Refused
<1>22. ASSUME NEW n \in Requests, NEW r \in Ranks, Preflight(n, r),
             UNCHANGED faults
      PROVE  Either
  BY <1>22, MoveAt DEF Preflight
<1>23. ASSUME NEW n \in Requests, NEW r \in Ranks, Setup(n, r),
             UNCHANGED faults
      PROVE  Either
  BY <1>23, MoveAt DEF Setup, Local
<1>24. ASSUME NEW n \in Requests, NEW r \in Ranks, TrainBegin(n, r),
             UNCHANGED faults
      PROVE  Either
  BY <1>24, MoveAt DEF TrainBegin, Local
<1>25. ASSUME NEW n \in Requests, NEW r \in Ranks, Write(n, r),
             UNCHANGED faults
      PROVE  Either
  BY <1>25, MoveAt DEF Write, Local
<1>26. ASSUME NEW n \in Requests, LauncherFails(n) PROVE Either
  BY <1>26 DEF LauncherFails
<1>27. ASSUME NEW n \in Requests, LauncherDies(n) PROVE Either
  BY <1>27 DEF LauncherDies
<1>28. ASSUME NEW n \in Requests, NEW r \in Ranks, RankFails(n, r)
      PROVE  Either
  BY <1>28, MoveAt DEF RankFails
<1>29. ASSUME NEW n \in Requests, NEW r \in Ranks, RankHangs(n, r)
      PROVE  Either
  BY <1>29, MoveAt DEF RankHangs
<1>30. ASSUME NEW n \in Requests, NEW r \in Ranks, RankCores(n, r)
      PROVE  Either
  BY <1>30, MoveAt DEF RankCores
<1>31. ASSUME NEW n \in Requests, NEW r \in Ranks, RankDies(n, r)
      PROVE  Either
  BY <1>31, MoveAt DEF RankDies
<1>32. CASE UNCHANGED vars
  BY <1>32 DEF vars, notebook, call, group, files
<1>33. QED
  BY <1>1, <1>2, <1>3, <1>4, <1>5, <1>6, <1>7, <1>8, <1>9, <1>10, <1>11,
     <1>12, <1>13, <1>14, <1>15, <1>16, <1>17, <1>18, <1>19, <1>20, <1>21,
     <1>22, <1>23, <1>24, <1>25, <1>26, <1>27, <1>28, <1>29, <1>30, <1>31,
     <1>32
  DEF Next, Coordinate, Join, RanksGoOn, Collective, RankStep, Fault

\* Every step keeps what the coordinator has read when it returns.
LEMMA ReturningStep ==
  IInv /\ [Next]_vars /\ Current' = Current => Returning'
<1> SUFFICES ASSUME IInv, [Next]_vars, Current' = Current,
                    pc' \in {"read", "publish"}
             PROVE  /\ kind'[Current] = "train" /\ launcher'[Current] = "ok"
                    /\ \A r \in Ranks : place'[Current][r] = "done"
                    /\ pc' = "publish" => got' = Current
  BY DEF Returning
<1>1. /\ kind' = kind
      /\ \/ pc' = pc /\ got' = got
         \/ Exited
         \/ ReadSummary
  BY Reads DEF IInv
<1>2. pc # "idle" /\ Current \in Requests
  <2>1. pc # "idle"
    BY <1>1 DEF Exited, ReadSummary, Waiting
  <2>2. QED
    BY <2>1, CurrentIsRequest DEF IInv
<1>3. ASSUME kind[Current] = "train", launcher[Current] = "ok",
             \A r \in Ranks : place[Current][r] = "done",
             pc' = "publish" => got' = Current
      PROVE  /\ kind'[Current] = "train" /\ launcher'[Current] = "ok"
             /\ \A r \in Ranks : place'[Current][r] = "done"
             /\ pc' = "publish" => got' = Current
  BY <1>1, <1>2, <1>3, OkStays DEF IInv
<1>4. CASE pc' = pc /\ got' = got
  BY <1>3, <1>4 DEF IInv, Returning
<1>5. CASE Exited
  <2>1. /\ launcher[Current] = "ok" /\ ~ marker /\ kind[Current] = "train"
        /\ pc' = "read"
    BY <1>5 DEF Exited, AfterExit, Failing
  <2>2. \A r \in Ranks : place[Current][r] = "done"
    BY <1>2, <2>1 DEF IInv, Joined, Marked
  <2>3. QED
    BY <1>3, <2>1, <2>2
<1>6. CASE ReadSummary
  <2>1. /\ kind[Current] = "train" /\ launcher[Current] = "ok"
        /\ \A r \in Ranks : place[Current][r] = "done"
    BY <1>6 DEF ReadSummary, IInv, Returning
  <2>2. got' = Current
    BY <1>2, <1>6, <2>1, LaunchAssumption
    DEF ReadSummary, IInv, Answered, LaunchAssumption
  <2>3. QED
    BY <1>3, <2>1, <2>2
<1>7. QED
  BY <1>1, <1>4, <1>5, <1>6

\* A record is written by Fail and by Publish.
LEMMA Records ==
  ASSUME [Next]_vars, TypeOK
  PROVE  record' = record \/ Fail \/ Publish
<1> DEFINE Either == record' = record \/ Fail \/ Publish
<1> SUFFICES Either
  OBVIOUS
<1> USE DEF notebook, call, group, files
<1>1. ASSUME NEW f \in Flaws, Call(f) PROVE Either
  BY <1>1 DEF Call
<1>2. CASE Beat
  BY <1>2 DEF Beat
<1>3. CASE Silence
  BY <1>3 DEF Silence
<1>4. CASE Exited
  BY <1>4 DEF Exited
<1>5. CASE Terminate
  BY <1>5 DEF Terminate
<1>6. CASE Reaped
  BY <1>6 DEF Reaped
<1>7. CASE KillGroup
  BY <1>7 DEF KillGroup
<1>8. CASE Fail
  BY <1>8 DEF Fail
<1>9. CASE ReadSummary
  BY <1>9 DEF ReadSummary
<1>10. CASE Publish
  BY <1>10 DEF Publish
<1>11. CASE Interrupt
  BY <1>11 DEF Interrupt
<1>12. CASE KernelDies
  BY <1>12 DEF KernelDies
<1>13. ASSUME NEW n \in Requests, Spawn(n) PROVE Either
  BY <1>13 DEF Spawn
<1>14. ASSUME NEW n \in Requests, JoinOk(n) PROVE Either
  BY <1>14 DEF JoinOk
<1>15. ASSUME NEW n \in Requests, JoinError(n) PROVE Either
  BY <1>15 DEF JoinError
<1>16. ASSUME NEW n \in Requests, Probe(n), UNCHANGED faults PROVE Either
  BY <1>16, TogetherAt DEF Probe
<1>17. ASSUME NEW n \in Requests, Update(n), UNCHANGED faults PROVE Either
  BY <1>17, TogetherAt DEF Update
<1>18. ASSUME NEW n \in Requests, Timing(n), UNCHANGED faults PROVE Either
  BY <1>18, TogetherAt DEF Timing
<1>19. ASSUME NEW n \in Requests, Leave(n), UNCHANGED faults PROVE Either
  BY <1>19, TogetherAt DEF Leave
<1>20. ASSUME NEW n \in Requests, NEW r \in Ranks, Enter(n, r),
             UNCHANGED faults
      PROVE  Either
  BY <1>20, MoveAt DEF Enter
<1>21. ASSUME NEW n \in Requests, NEW r \in Ranks, Refused(n, r),
             UNCHANGED faults
      PROVE  Either
  BY <1>21, MoveAt DEF Refused
<1>22. ASSUME NEW n \in Requests, NEW r \in Ranks, Preflight(n, r),
             UNCHANGED faults
      PROVE  Either
  BY <1>22, MoveAt DEF Preflight
<1>23. ASSUME NEW n \in Requests, NEW r \in Ranks, Setup(n, r),
             UNCHANGED faults
      PROVE  Either
  BY <1>23, MoveAt DEF Setup, Local
<1>24. ASSUME NEW n \in Requests, NEW r \in Ranks, TrainBegin(n, r),
             UNCHANGED faults
      PROVE  Either
  BY <1>24, MoveAt DEF TrainBegin, Local
<1>25. ASSUME NEW n \in Requests, NEW r \in Ranks, Write(n, r),
             UNCHANGED faults
      PROVE  Either
  BY <1>25, MoveAt DEF Write, Local
<1>26. ASSUME NEW n \in Requests, LauncherFails(n) PROVE Either
  BY <1>26 DEF LauncherFails
<1>27. ASSUME NEW n \in Requests, LauncherDies(n) PROVE Either
  BY <1>27 DEF LauncherDies
<1>28. ASSUME NEW n \in Requests, NEW r \in Ranks, RankFails(n, r)
      PROVE  Either
  BY <1>28, MoveAt DEF RankFails
<1>29. ASSUME NEW n \in Requests, NEW r \in Ranks, RankHangs(n, r)
      PROVE  Either
  BY <1>29, MoveAt DEF RankHangs
<1>30. ASSUME NEW n \in Requests, NEW r \in Ranks, RankCores(n, r)
      PROVE  Either
  BY <1>30, MoveAt DEF RankCores
<1>31. ASSUME NEW n \in Requests, NEW r \in Ranks, RankDies(n, r)
      PROVE  Either
  BY <1>31, MoveAt DEF RankDies
<1>32. CASE UNCHANGED vars
  BY <1>32 DEF vars, notebook, call, group, files
<1>33. QED
  BY <1>1, <1>2, <1>3, <1>4, <1>5, <1>6, <1>7, <1>8, <1>9, <1>10, <1>11,
     <1>12, <1>13, <1>14, <1>15, <1>16, <1>17, <1>18, <1>19, <1>20, <1>21,
     <1>22, <1>23, <1>24, <1>25, <1>26, <1>27, <1>28, <1>29, <1>30, <1>31,
     <1>32
  DEF Next, Coordinate, Join, RanksGoOn, Collective, RankStep, Fault

\* A recorded success stays that of a launcher that ended well.
LEMMA RecordedStep ==
  IInv /\ [Next]_vars => Recorded' /\ CompletedIsOurs'
<1> SUFFICES ASSUME IInv, [Next]_vars, record'.status = "completed"
             PROVE  /\ record'.run \in Requests
                    /\ launcher'[record'.run] = "ok"
                    /\ record'.worker = record'.run
                    /\ record'.metrics = [i \in 1 .. Steps |-> record'.run]
                    /\ \A r \in Ranks : place'[record'.run][r] = "done"
  BY DEF Recorded, CompletedIsOurs
<1>1. CASE record' = record
  <2>1. /\ record.run \in Requests /\ launcher[record.run] = "ok"
        /\ record.worker = record.run
        /\ record.metrics = [i \in 1 .. Steps |-> record.run]
        /\ \A r \in Ranks : place[record.run][r] = "done"
    BY <1>1 DEF IInv, Recorded, CompletedIsOurs
  <2>2. QED
    BY <1>1, <2>1, OkStays DEF IInv
<1>2. CASE Fail
  BY <1>2 DEF Fail, NoRecord
<1>3. CASE Publish
  <2>1. /\ pc = "publish" /\ UNCHANGED <<place, launcher>>
        /\ record' = [run |-> Current, status |-> "completed", worker |-> got,
                      metrics |-> metrics]
    BY <1>3 DEF Publish, group
  <2>2. Current \in Requests
    BY <2>1, CurrentIsRequest DEF IInv
  <2>3. /\ kind[Current] = "train" /\ launcher[Current] = "ok"
        /\ \A r \in Ranks : place[Current][r] = "done"
        /\ got = Current
    BY <2>1 DEF IInv, Returning
  <2>4. metrics = Lines(Current) /\ step[Current] = Steps
    BY <2>2, <2>3, LaunchAssumption DEF IInv, Answered, InStep, LaunchAssumption
  <2>5. QED
    BY <2>1, <2>2, <2>3, <2>4 DEF Lines
<1>4. QED
  BY <1>1, <1>2, <1>3, Records DEF IInv

-----------------------------------------------------------------------------
(* Types                                                                    *)

\* The metrics are those of one training.
LEMMA Bounded ==
  ASSUME NEW n \in Requests, NEW k \in 0 .. Steps
  PROVE  [i \in 1 .. k |-> n] \in BoundedSeq(Requests, 2 * Steps)
<1>1. k \in 0 .. 2 * Steps
  BY LaunchAssumption DEF LaunchAssumption
<1>2. [i \in 1 .. k |-> n] \in [1 .. k -> Requests]
  OBVIOUS
<1>3. QED
  BY <1>1, <1>2 DEF BoundedSeq, SeqOf

\* A log may be empty.
LEMMA NoLines ==
  ASSUME NEW n \in Requests
  PROVE  <<>> \in BoundedSeq(Requests, 2 * Steps)
<1>1. <<>> = [i \in 1 .. 0 |-> n]
  OBVIOUS
<1>2. 0 \in 0 .. Steps
  BY LaunchAssumption DEF LaunchAssumption
<1>3. [i \in 1 .. 0 |-> n] \in BoundedSeq(Requests, 2 * Steps)
  BY <1>2, Bounded
<1>4. QED
  BY <1>1, <1>3

\* Every step keeps the types.
LEMMA TypeStep == TypeOK /\ Opened /\ Answered /\ [Next]_vars => TypeOK'
<1> SUFFICES ASSUME TypeOK, Opened, Answered, [Next]_vars PROVE TypeOK'
  OBVIOUS
<1> USE LaunchAssumption DEF notebook, call, group, files, TypeOK,
        LaunchAssumption
<1>1. ASSUME NEW f \in Flaws, Call(f) PROVE TypeOK'
  <2>1. UNCHANGED <<kind, place, step, termed, summary, metrics, record>>
    BY <1>1 DEF Call
  <2>2. launcher' \in [Requests -> 
          {"none", "starting", "joining", "ok", "error", "killed"}]
    BY <1>1, CallAt
  <2>3. /\ pc' = "wait" /\ cause' = "none" /\ quiet' = 0 /\ got' = 0
        /\ marker' = FALSE /\ news' \in BOOLEAN
    BY <1>1 DEF Call, Limited
  <2>4. faults' \in 0 .. MaxFaults
    BY <1>1 DEF Call, Faulty
  <2>5. flaw' \in [Requests -> Flaws]
    BY <1>1 DEF Call, Flaws
  <2>6. quiet' \in 0 .. Limit /\ got' \in 0 .. MaxRequests
    BY <2>3
  <2>7. QED
    BY <2>1, <2>2, <2>3, <2>4, <2>5, <2>6
<1>2. CASE Beat
  <2>1. quiet' \in 0 .. Limit
    BY <1>2 DEF Beat
  <2>2. UNCHANGED <<faults, call, group, files>> /\ news' = FALSE
    BY <1>2 DEF Beat
  <2>3. pc' \in {"idle", "wait", "terminate", "read", "fail"}
    BY <1>2 DEF Beat, Waiting
  <2>4. cause' \in {"none", "exit", "silence", "interrupt"}
    BY <1>2 DEF Beat
  <2>5. QED
    BY <2>1, <2>2, <2>3, <2>4
<1>3. CASE Silence
  <2>1. quiet' \in 0 .. Limit
    BY <1>3 DEF Silence
  <2>2. UNCHANGED <<faults, call, group, files>> /\ news' = FALSE
    BY <1>3 DEF Silence
  <2>3. pc' \in {"idle", "wait", "terminate", "read", "fail"}
    BY <1>3 DEF Silence
  <2>4. cause' \in {"none", "exit", "silence", "interrupt"}
    BY <1>3 DEF Silence
  <2>5. QED
    BY <2>1, <2>2, <2>3, <2>4
<1>4. CASE Exited
  <2>1. quiet' \in 0 .. Limit
    BY <1>4 DEF Exited
  <2>2. UNCHANGED <<faults, call, group, files>> /\ news' = FALSE
    BY <1>4 DEF Exited
  <2>3. pc' \in {"idle", "wait", "terminate", "read", "fail"}
    BY <1>4 DEF Exited, AfterExit, Failing
  <2>4. cause' \in {"none", "exit", "silence", "interrupt"}
    BY <1>4 DEF Exited
  <2>5. QED
    BY <2>1, <2>2, <2>3, <2>4
<1>5. CASE Terminate
  BY <1>5, CurrentIsRequest DEF Terminate
<1>6. CASE Reaped
  BY <1>6 DEF Reaped, AfterReap, Failing
<1>7. CASE KillGroup
  BY <1>7, KillAt, CurrentIsRequest DEF KillGroup, AfterReap, Failing
<1>8. CASE Fail
  BY <1>8, RequestsFinite DEF Fail, NoRecord, Opened
<1>9. CASE ReadSummary
  BY <1>9 DEF ReadSummary
<1>10. CASE Publish
  BY <1>10 DEF Publish, Opened
<1>11. CASE Interrupt
  <2>1. quiet' \in 0 .. Limit
    BY <1>11 DEF Interrupt
  <2>2. UNCHANGED <<faults, call, group, files>> /\ news' = FALSE
    BY <1>11 DEF Interrupt
  <2>3. pc' \in {"idle", "wait", "terminate", "read", "fail"}
    BY <1>11 DEF Interrupt
  <2>4. cause' \in {"none", "exit", "silence", "interrupt"}
    BY <1>11 DEF Interrupt
  <2>5. QED
    BY <2>1, <2>2, <2>3, <2>4
<1>12. CASE KernelDies
  <2>1. quiet' \in 0 .. Limit
    BY <1>12 DEF KernelDies
  <2>2. UNCHANGED <<faults, call, group, files>> /\ news' = FALSE
    BY <1>12 DEF KernelDies
  <2>3. pc' \in {"idle", "wait", "terminate", "read", "fail"}
    BY <1>12 DEF KernelDies
  <2>4. cause' \in {"none", "exit", "silence", "interrupt"}
    BY <1>12 DEF KernelDies
  <2>5. QED
    BY <2>1, <2>2, <2>3, <2>4
<1>13. ASSUME NEW n \in Requests, Spawn(n) PROVE TypeOK'
  BY <1>13, SpawnAt DEF Spawn, Logged
<1>14. ASSUME NEW n \in Requests, JoinOk(n) PROVE TypeOK'
  BY <1>14 DEF JoinOk
<1>15. ASSUME NEW n \in Requests, JoinError(n) PROVE TypeOK'
  BY <1>15 DEF JoinError
<1>16. ASSUME NEW n \in Requests, Probe(n),
             UNCHANGED faults
      PROVE  TypeOK'
  BY <1>16, TogetherAt DEF Probe, Places, Logged, Faulty
<1>17. ASSUME NEW n \in Requests, Update(n), UNCHANGED faults
      PROVE  TypeOK'
  <2>1. /\ \A r \in Ranks :
             /\ place[n][r] = "training"
             /\ place'[n][r] = "training"
        /\ place' \in [Requests -> [Ranks -> Places]]
        /\ UNCHANGED <<launcher, termed, pc, kind, flaw, got, cause,
                       quiet, summary, marker, record>> /\ 0 \in Ranks
    BY <1>17, TogetherAt, LaunchAssumption DEF Update, Places, LaunchAssumption
  <2>2. /\ step[n] \in 0 .. Steps /\ step[n] < Steps
        /\ step' = [step EXCEPT ![n] = step[n] + 1]
        /\ metrics' = Append(metrics, n)
    BY <1>17 DEF Update
  <2>3. step[n] + 1 \in 0 .. Steps /\ step[n] \in Nat
    BY <2>2, LaunchAssumption DEF LaunchAssumption
  <2>4. metrics = [i \in 1 .. step[n] |-> n]
    BY <2>1 DEF Answered, Lines
  <2>5. metrics' = [i \in 1 .. step[n] + 1 |-> n]
    BY <2>2, <2>3, <2>4, AppendLine
  <2>6. metrics' \in BoundedSeq(Requests, 2 * Steps)
    BY <2>3, <2>5, Bounded
  <2>7. news' \in BOOLEAN /\ faults' \in 0 .. MaxFaults
    BY <1>17 DEF Update, Logged
  <2>8. step' \in [Requests -> 0 .. Steps]
    BY <2>2, <2>3
  <2>9. QED
    BY <2>1, <2>6, <2>7, <2>8
<1>18. ASSUME NEW n \in Requests, Timing(n), UNCHANGED faults
      PROVE  TypeOK'
  BY <1>18, TogetherAt DEF Timing, Places, Logged, Faulty
<1>19. ASSUME NEW n \in Requests, Leave(n),
             UNCHANGED faults
      PROVE  TypeOK'
  BY <1>19, TogetherAt DEF Leave, Places, Logged, Faulty
<1>20. ASSUME NEW n \in Requests, NEW r \in Ranks, Enter(n, r),
             UNCHANGED faults
      PROVE  TypeOK'
  BY <1>20, MoveAt DEF Enter, Places, Logged, Faulty
<1>21. ASSUME NEW n \in Requests, NEW r \in Ranks, Refused(n, r),
             UNCHANGED faults
      PROVE  TypeOK'
  BY <1>21, MoveAt DEF Refused, Places, Logged, Faulty
<1>22. ASSUME NEW n \in Requests, NEW r \in Ranks, Preflight(n, r),
             UNCHANGED faults
      PROVE  TypeOK'
  BY <1>22, MoveAt DEF Preflight, Places, Logged, Faulty
<1>23. ASSUME NEW n \in Requests, NEW r \in Ranks, Setup(n, r),
             UNCHANGED faults
      PROVE  TypeOK'
  BY <1>23, MoveAt DEF Setup, Places, Logged, Faulty, Local
<1>24. ASSUME NEW n \in Requests, NEW r \in Ranks, TrainBegin(n, r),
             UNCHANGED faults
      PROVE  TypeOK'
  <2>1. /\ place' \in [Requests -> [Ranks -> Places]]
        /\ UNCHANGED <<launcher, step, termed, pc, kind, flaw, got, cause,
                       quiet, summary, marker, record>>
    BY <1>24, MoveAt DEF TrainBegin, Local, Places
  <2>2. metrics' = metrics \/ metrics' = <<>>
    BY <1>24 DEF TrainBegin
  <2>3. <<>> \in BoundedSeq(Requests, 2 * Steps)
    BY <1>24, NoLines
  <2>4. news' \in BOOLEAN /\ faults' \in 0 .. MaxFaults
    BY <1>24 DEF TrainBegin, Local, Logged
  <2>5. QED
    BY <2>1, <2>2, <2>3, <2>4
<1>25. ASSUME NEW n \in Requests, NEW r \in Ranks, Write(n, r),
             UNCHANGED faults
      PROVE  TypeOK'
  <2>1. /\ place' \in [Requests -> [Ranks -> Places]]
        /\ UNCHANGED <<launcher, step, termed, pc, kind, flaw, got, cause,
                       quiet, metrics, marker, record>>
    BY <1>25, MoveAt DEF Write, Local, Places
  <2>2. summary' \in 0 .. MaxRequests
    BY <1>25 DEF Write, Requests
  <2>3. news' \in BOOLEAN /\ faults' \in 0 .. MaxFaults
    BY <1>25 DEF Write, Local, Logged
  <2>4. QED
    BY <2>1, <2>2, <2>3
<1>26. ASSUME NEW n \in Requests, LauncherFails(n) PROVE TypeOK'
  BY <1>26 DEF LauncherFails, Faulty
<1>27. ASSUME NEW n \in Requests, LauncherDies(n) PROVE TypeOK'
  BY <1>27 DEF LauncherDies
<1>28. ASSUME NEW n \in Requests, NEW r \in Ranks, RankFails(n, r)
      PROVE  TypeOK'
  BY <1>28, MoveAt DEF RankFails, Places, Logged, Faulty
<1>29. ASSUME NEW n \in Requests, NEW r \in Ranks, RankHangs(n, r)
      PROVE  TypeOK'
  BY <1>29, MoveAt DEF RankHangs, Places, Logged, Faulty
<1>30. ASSUME NEW n \in Requests, NEW r \in Ranks, RankCores(n, r)
      PROVE  TypeOK'
  BY <1>30, MoveAt DEF RankCores, Places, Logged, Faulty
<1>31. ASSUME NEW n \in Requests, NEW r \in Ranks, RankDies(n, r)
      PROVE  TypeOK'
  BY <1>31, MoveAt DEF RankDies, Places, Logged, Faulty
<1>32. CASE UNCHANGED vars
  BY <1>32 DEF vars, notebook, call, group, files
<1>33. QED
  BY <1>1, <1>2, <1>3, <1>4, <1>5, <1>6, <1>7, <1>8, <1>9, <1>10, <1>11,
     <1>12, <1>13, <1>14, <1>15, <1>16, <1>17, <1>18, <1>19, <1>20, <1>21,
     <1>22, <1>23, <1>24, <1>25, <1>26, <1>27, <1>28, <1>29, <1>30, <1>31,
     <1>32
  DEF Next, Coordinate, Join, RanksGoOn, Collective, RankStep, Fault

-----------------------------------------------------------------------------
(* The theorems                                                             *)

\* The invariant holds before the first call.
LEMMA InitInv == Init => IInv
<1> SUFFICES ASSUME Init PROVE IInv
  OBVIOUS
<1>1. Current = 0
  <2>1. {n \in Requests : launcher[n] # "none"} = {}
    BY DEF Init
  <2>2. QED
    BY <2>1, FS_EmptySet DEF Current
<1>2. <<>> \in BoundedSeq(Requests, 2 * Steps)
  <2>1. 1 \in Requests
    BY LaunchAssumption DEF LaunchAssumption, Requests
  <2>2. QED
    BY <2>1, NoLines
<1>3. TypeOK
  <2>1. /\ kind \in [Requests -> Stages] /\ summary \in 0 .. MaxRequests
        /\ got \in 0 .. MaxRequests /\ record.run \in 0 .. MaxRequests
        /\ quiet \in 0 .. Limit /\ faults \in 0 .. MaxFaults
        /\ step \in [Requests -> 0 .. Steps]
    BY LaunchAssumption DEF Init, LaunchAssumption, Requests, NoRecord
  <2>2. /\ flaw \in [Requests -> Flaws] /\ termed \subseteq Requests
        /\ place \in [Requests -> [Ranks -> Places]]
    BY DEF Init, Flaws, Places
  <2>3. metrics \in BoundedSeq(Requests, 2 * Steps)
    BY <1>2 DEF Init
  <2>4. QED
    BY <2>1, <2>2, <2>3 DEF Init, TypeOK, NoRecord
<1>4. Opened
  BY <1>1, LaunchAssumption DEF Init, Opened, LaunchAssumption, Requests
<1>5. /\ Joined /\ Exclusive /\ InStep /\ Answered /\ Marked /\ Returning
      /\ Recorded /\ CompletedIsOurs
  BY LaunchAssumption
  DEF LaunchAssumption, Init, Joined, Exclusive, Held, Active, InStep, Answered,
      Marked, Returning, Recorded, CompletedIsOurs, NoRecord
<1>6. QED
  BY <1>3, <1>4, <1>5 DEF IInv

\* Every step keeps the invariant.
LEMMA InvStep == IInv /\ [Next]_vars => IInv'
<1> SUFFICES ASSUME IInv, [Next]_vars PROVE IInv'
  OBVIOUS
<1>1. TypeOK' /\ Opened' /\ Joined' /\ Exclusive' /\ InStep'
  BY TypeStep, OpenedStep, JoinedStep, ExclusiveStep, InStepStep DEF IInv
<1>2. Recorded' /\ CompletedIsOurs'
  BY RecordedStep
<1>3. Answered' /\ Marked' /\ Returning'
  <2>1. CASE \E f \in Flaws : Call(f)
    <3>1. PICK f \in Flaws : Call(f)
      BY <2>1
    <3>2. Answered' /\ Marked'
      BY <3>1, AnsweredCall, MarkedCall DEF IInv
    <3>3. pc' = "wait"
      BY <3>1 DEF Call
    <3>4. QED
      BY <3>2, <3>3 DEF Returning
  <2>2. CASE \A f \in Flaws : ~ Call(f)
    <3>1. Current' = Current
      BY <2>2, SameRequests DEF IInv
    <3>2. QED
      BY <3>1, AnsweredStep, MarkedStep, ReturningStep DEF IInv
  <2>3. QED
    BY <2>1, <2>2
<1>4. QED
  BY <1>1, <1>2, <1>3 DEF IInv

\* The inductive invariant holds in every behaviour.
THEOREM Inductive == Spec => []IInv
<1>1. QED
  BY InitInv, InvStep, PTL DEF Spec

\* Every variable keeps its type; in particular metrics.jsonl is never longer
\* than one training makes it.
THEOREM TypeCorrect == Spec => []TypeOK
<1>1. IInv => TypeOK
  BY DEF IInv
<1>2. QED
  BY <1>1, Inductive, PTL

\* A completed record is about its own request, whatever earlier calls and
\* orphaned ranks left in output_dir (_TPUCoordinator.run, _run_stage).
THEOREM CompletedIsAlwaysOurs == Spec => []CompletedIsOurs
<1>1. IInv => CompletedIsOurs
  BY DEF IInv
<1>2. QED
  BY <1>1, Inductive, PTL

=============================================================================
