----------------------------- MODULE PartsProofs -----------------------------
(***************************************************************************)
(* Proofs about the parts of Parts.                                        *)
(*                                                                         *)
(* TokenBudget, for every finite set of ranks, every configuration and     *)
(* whatever tokens each micro-batch holds.  Between two reductions a rank  *)
(* runs on its own, by a path that its counts do not decide: Meet says     *)
(* where that path ends, at a reduction, or outside the loop, or where it  *)
(* would have ended for a rank that raised or stopped by itself.  A step   *)
(* of one rank leaves its Meet alone and a reduction changes all of them   *)
(* alike, so they stay equal.  The tokens are followed by sums over the    *)
(* ranks, for which the few facts needed are proved by induction over the  *)
(* cardinality of a set.                                                   *)
(*                                                                         *)
(* The other parts each have an inductive invariant of their own, under    *)
(* the assumptions of Parts; the last section takes them to PartsSpec,     *)
(* where a step is a step of one part and leaves the others alone.         *)
(***************************************************************************)
EXTENDS Parts, PackedScheduleProofs, WellFoundedInduction, TLAPS

-----------------------------------------------------------------------------
(* The types                                                                *)

Places ==
  Collectives \union {"begin", "loop", "forward", "backward", "next", "commit",
                      "report", "done", "failed", "raised"}

RankType ==
  [pc : Places,
   count : Nat, micro : Nat, total : Nat, seen : Nat, global : Nat,
   stop : BOOLEAN, step : Nat, place : Nat, last : Nat]

TypeOK ==
  /\ config \in ConfigurationType
  /\ rank \in [Ranks -> RankType]

-----------------------------------------------------------------------------
(* Where a rank will next wait, or end                                      *)

\* A place that only estimates the tokens of all ranks is a rank's own.
OwnPlace(c) == c.token_lr /\ c.max_tokens = 0

\* Why all ranks leave the loop; a request to one of them does not count.
Stopping(c, step, global) ==
  \/ step >= c.max_steps
  \/ c.max_tokens > 0 /\ global >= c.max_tokens

\* From the start of a micro-batch, with `micro` of them behind.
MeetForward(c, step, micro, place) ==
  IF c.max_tokens > 0 THEN <<"tokens", step, micro + 1, FALSE, place>>
  ELSE IF ~c.exact /\ c.accumulation # 1
       THEN <<"failed", step, micro + 1, FALSE, place>>
  ELSE IF c.means THEN <<"average", step, micro + 1, FALSE, place>>
  ELSE <<"gradients", step, c.accumulation, FALSE, place>>

MeetLoop(c, step, micro, stop, place, global) ==
  IF Stopping(c, step, global) THEN <<"done", step, micro, stop, place>>
  ELSE MeetForward(c, step, 0, place)

MeetReport(c, step, micro, stop, place, global) ==
  IF c.log > 0 /\ step % c.log = 0 THEN <<"log", step, micro, stop, place>>
  ELSE MeetLoop(c, step, micro, stop, place, global)

MeetCommit(c, step, micro, stop, global) ==
  LET place == IF ~c.token_lr THEN step + 1
               ELSE IF c.max_tokens > 0 THEN global ELSE 0
  IN IF c.token_lr /\ c.max_tokens = 0 /\ c.means
     THEN <<"schedule", step + 1, micro, stop, place>>
     ELSE MeetReport(c, step + 1, micro, stop, place, global)

MeetGuard(c, step, micro, stop, place, global) ==
  IF c.guarded /\ micro # c.accumulation
  THEN <<"failed", step, micro, stop, place>>
  ELSE IF c.means THEN MeetCommit(c, step, micro, stop, global)
  ELSE <<"gradients", step, micro, stop, place>>

MeetNext(c, step, micro, stop, place, global) ==
  IF ~stop /\ c.exact /\ micro < c.accumulation
  THEN MeetForward(c, step, micro, place)
  ELSE IF c.exact /\ c.means THEN <<"stats", step, micro, stop, place>>
  ELSE MeetGuard(c, step, micro, stop, place, global)

MeetBackward(c, step, micro, stop, place, global) ==
  IF ~c.exact /\ c.accumulation # 1
  THEN <<"failed", step, micro, stop, place>>
  ELSE IF c.means THEN <<"average", step, micro, stop, place>>
  ELSE MeetNext(c, step, micro, stop, place, global)

MeetFrom(c, pc, step, micro, stop, place, global) ==
  CASE pc = "begin" ->
         IF c.max_tokens > 0 THEN <<"restore", step, micro, stop, place>>
         ELSE MeetLoop(c, step, micro, stop, place, global)
    [] pc \in {"loop", "done"} ->
         MeetLoop(c, step, micro, stop, place, global)
    [] pc \in {"forward", "raised"} -> MeetForward(c, step, micro, place)
    [] pc = "backward" -> MeetBackward(c, step, micro, stop, place, global)
    [] pc = "next"     -> MeetNext(c, step, micro, stop, place, global)
    [] pc = "commit"   -> MeetCommit(c, step, micro, stop, global)
    [] pc = "report"   -> MeetReport(c, step, micro, stop, place, global)
    [] OTHER           -> <<pc, step, micro, stop, place>>

Placed(c, me) == IF OwnPlace(c) THEN 0 ELSE me.place

Meet(c, me) ==
  MeetFrom(c, me.pc, me.step, me.micro, me.stop, Placed(c, me), me.global)

-----------------------------------------------------------------------------
(* The inductive invariant                                                  *)

\* How far into an update a rank is, and what it knows there.
Sane(c, me) ==
  /\ c.max_tokens = 0 => ~me.stop
  /\ me.pc \in {"restore", "tokens"} => c.max_tokens > 0
  /\ me.pc \in {"begin", "restore"} => me.last = 0
  /\ me.pc \in {"forward", "tokens"} =>
       ~me.stop /\ (c.max_tokens > 0 => me.global < c.max_tokens)
  /\ me.pc = "forward" =>
       me.micro < c.accumulation /\ (~c.exact => me.micro = 0)
  /\ me.pc \in {"tokens", "backward", "average", "next"} =>
       /\ me.micro \in 1 .. c.accumulation
       /\ ~c.exact => me.micro = 1
  /\ me.pc = "backward" /\ c.max_tokens > 0 => c.exact
  /\ me.pc \in {"average", "next"} /\ ~c.exact => c.accumulation = 1
  /\ me.pc \in {"backward", "average", "next"} /\ ~me.stop
       /\ c.max_tokens > 0 => me.global < c.max_tokens
  /\ me.pc \in {"stats", "average"} => c.means
  /\ me.pc = "gradients" => ~c.means
  /\ c.max_tokens > 0 /\ me.last > 0 => me.global < c.max_tokens + me.last

EachSane == \A r \in Ranks : Sane(config, rank[r])

\* All ranks are under way to the same meeting, and read the same counter.
SameMeet ==
  \A r, q \in Ranks :
    /\ Meet(config, rank[r]) = Meet(config, rank[q])
    /\ rank[r].global = rank[q].global

\* A rank in the middle of an update was not asked to stop before it.
InUpdate == {"forward", "tokens", "backward", "average", "next", "stats",
             "gradients", "commit", "failed"}
EachAsked == \A r \in Ranks :
  rank[r].pc \in InUpdate => rank[r].step < config.stop_at[r]

\* A schedule placed by a reduction is placed alike wherever it is not being
\* placed anew.
SamePlace ==
  OwnPlace(config) /\ config.means =>
    \A r, q \in Ranks :
      rank[r].pc # "schedule" /\ rank[q].pc # "schedule"
        => rank[r].place = rank[q].place

\* The tokens of a rank that the global counter holds.
Counted(me) ==
  me.seen +
    (IF me.pc = "backward" THEN me.total + me.count
     ELSE IF me.pc \in {"forward", "raised", "tokens", "average", "next",
                        "stats", "gradients", "commit"} THEN me.total
     ELSE 0)

\* The counter holds the tokens of all ranks, in whatever place each is.
Tallied ==
  config.max_tokens > 0
  /\ (\A r \in Ranks : rank[r].pc \notin {"begin", "restore", "failed"})
    => \A r \in Ranks :
         rank[r].global = SumFunction([q \in Ranks |-> Counted(rank[q])])

IInv == TypeOK /\ EachSane /\ EachAsked /\ SameMeet /\ SamePlace /\ Tallied

-----------------------------------------------------------------------------
(* RankSums over a finite set                                                   *)

One(s) == CHOOSE x \in s : TRUE
Rest(s) == s \ {One(s)}
Up(S, n) == {s \in SUBSET S : Cardinality(s) <= n}

\* g is the sum of f on the sets of D.
RankSums(g, D, f) ==
  g = [s \in D |-> IF s = {} THEN 0 ELSE f[One(s)] + g[Rest(s)]]

\* One member less makes a finite set smaller by one.
LEMMA RestSmaller ==
  ASSUME NEW S, IsFiniteSet(S), NEW s \in SUBSET S, s # {}
  PROVE  /\ One(s) \in S /\ Rest(s) \in SUBSET S
         /\ Cardinality(s) \in Nat /\ Cardinality(Rest(s)) \in Nat
         /\ Cardinality(s) = Cardinality(Rest(s)) + 1
<1>1. One(s) \in s
  BY DEF One
<1>2. IsFiniteSet(s)
  BY FS_Subset
<1>3. QED
  BY <1>1, <1>2, FS_RemoveElement, FS_CardinalityType, FS_Subset DEF Rest

\* What holds of the empty set, and of a set when it holds of its rest, holds
\* of every subset of S.
LEMMA EverySubset ==
  ASSUME NEW S, IsFiniteSet(S), NEW T, {} \in T,
         \A s \in SUBSET S : s # {} /\ Rest(s) \in T => s \in T
  PROVE  SUBSET S \subseteq T
<1> DEFINE N == {n \in Nat : Up(S, n) \subseteq T}
<1>1. 0 \in N
  <2>1. ASSUME NEW s \in Up(S, 0) PROVE s = {}
    BY FS_Subset, FS_EmptySet, FS_CardinalityType DEF Up
  <2>2. QED
    BY <2>1, Zenon
<1>2. ASSUME NEW n \in N PROVE n + 1 \in N
  <2>1. ASSUME NEW s \in Up(S, n + 1), s # {} PROVE s \in T
    <3>1. Rest(s) \in Up(S, n)
      BY <2>1, RestSmaller DEF Up
    <3>2. QED
      BY <2>1, <3>1 DEF Up
  <2>2. QED
    BY <2>1
<1>3. Nat \subseteq N
  <2> HIDE DEF N
  <2>1. \A n \in N \cap Nat : n + 1 \in N
    BY <1>2
  <2>2. QED
    BY <1>1, <2>1, AllNumbers
<1>4. ASSUME NEW s \in SUBSET S PROVE s \in T
  <2>1. Cardinality(s) \in Nat
    BY FS_Subset, FS_CardinalityType
  <2>2. QED
    BY <1>3, <2>1 DEF Up
<1>5. QED
  BY <1>4

\* There is such a g, for every size of set and so for all of them.
LEMMA RankSumsExist ==
  ASSUME NEW S, IsFiniteSet(S), NEW f
  PROVE  \E g : RankSums(g, SUBSET S, f)
<1> DEFINE N == {n \in Nat : \E g : RankSums(g, Up(S, n), f)}
<1>1. 0 \in N
  <2>1. \A s \in Up(S, 0) : s = {}
    BY FS_Subset, FS_EmptySet, FS_CardinalityType DEF Up
  <2> DEFINE g == [s \in Up(S, 0) |-> 0]
  <2>2. RankSums(g, Up(S, 0), f)
    BY <2>1 DEF RankSums
  <2>3. QED
    BY <2>2
<1>2. ASSUME NEW n \in N PROVE n + 1 \in N
  <2>1. PICK g : RankSums(g, Up(S, n), f)
    BY <1>2
  <2> DEFINE h == [s \in Up(S, n + 1) |->
                     IF s = {} THEN 0 ELSE f[One(s)] + g[Rest(s)]]
  <2>2. \A s \in Up(S, n) : h[s] = g[s]
    <3>1. Up(S, n) \subseteq Up(S, n + 1)
      BY FS_Subset, FS_CardinalityType DEF Up
    <3>2. QED
      BY <2>1, <3>1 DEF RankSums
  <2>3. \A s \in Up(S, n + 1) : s # {} => Rest(s) \in Up(S, n)
    BY RestSmaller DEF Up
  <2>4. RankSums(h, Up(S, n + 1), f)
    <3>1. \A s \in Up(S, n + 1) : s # {} => h[Rest(s)] = g[Rest(s)]
      BY <2>2, <2>3, Zenon
    <3>2. QED
      BY <3>1 DEF RankSums
  <2>5. QED
    BY <2>4
<1>3. Nat \subseteq N
  <2> HIDE DEF N
  <2>1. \A n \in N \cap Nat : n + 1 \in N
    BY <1>2
  <2>2. QED
    BY <1>1, <2>1, AllNumbers
<1>4. Cardinality(S) \in Nat /\ Up(S, Cardinality(S)) = SUBSET S
  BY FS_Subset, FS_CardinalityType DEF Up
<1>5. QED
  BY <1>3, <1>4, Zenon

\* The sum of the community modules is one that is built member by member.
LEMMA SumFunctionIs ==
  ASSUME NEW S, IsFiniteSet(S), NEW f, DOMAIN f = S
  PROVE  \E g : RankSums(g, SUBSET S, f) /\ SumFunction(f) = g[S]
<1> DEFINE It == CHOOSE g : RankSums(g, SUBSET S, f)
<1>1. RankSums(It, SUBSET S, f)
  BY RankSumsExist, Zenon
<1>2. SumFunction(f) = It[S]
  BY DEF SumFunction, SumFunctionOnSet, FoldFunctionOnSet, MapThenFoldSet,
         RankSums, One, Rest
<1>3. QED
  BY <1>1, <1>2, Zenon

\* The sum of numbers is a number.
LEMMA SumType ==
  ASSUME NEW S, IsFiniteSet(S), NEW f \in [S -> Nat]
  PROVE  SumFunction(f) \in Nat
<1>1. PICK g : RankSums(g, SUBSET S, f) /\ SumFunction(f) = g[S]
  BY SumFunctionIs
<1> DEFINE T == {s \in SUBSET S : g[s] \in Nat}
<1>2. {} \in T
  BY <1>1 DEF RankSums
<1>3. ASSUME NEW s \in SUBSET S, s # {}, Rest(s) \in T PROVE s \in T
  BY <1>1, <1>3, RestSmaller DEF RankSums
<1>4. SUBSET S \subseteq T
  <2> HIDE DEF T
  <2>1. QED
    BY <1>2, <1>3, EverySubset
<1>5. QED
  BY <1>1, <1>4

\* A sum of sums is taken term by term.
LEMMA SumAdds ==
  ASSUME NEW S, IsFiniteSet(S), NEW f \in [S -> Nat], NEW h \in [S -> Nat],
         NEW k, k = [x \in S |-> f[x] + h[x]]
  PROVE  SumFunction(k) = SumFunction(f) + SumFunction(h)
<1>1. PICK u : RankSums(u, SUBSET S, f) /\ SumFunction(f) = u[S]
  BY SumFunctionIs, Zenon
<1>2. PICK v : RankSums(v, SUBSET S, h) /\ SumFunction(h) = v[S]
  BY SumFunctionIs, Zenon
<1>3. PICK w : RankSums(w, SUBSET S, k) /\ SumFunction(k) = w[S]
  BY SumFunctionIs, Zenon
<1> DEFINE T == {s \in SUBSET S : /\ u[s] \in Nat /\ v[s] \in Nat
                                  /\ w[s] = u[s] + v[s]}
<1>4. {} \in T
  BY <1>1, <1>2, <1>3 DEF RankSums
<1>5. ASSUME NEW s \in SUBSET S, s # {}, Rest(s) \in T PROVE s \in T
  <2>1. One(s) \in S /\ Rest(s) \in SUBSET S
    BY <1>5, RestSmaller
  <2>2. /\ u[s] = f[One(s)] + u[Rest(s)]
        /\ v[s] = h[One(s)] + v[Rest(s)]
        /\ w[s] = k[One(s)] + w[Rest(s)]
    BY <1>1, <1>2, <1>3, <1>5, Zenon DEF RankSums
  <2>3. k[One(s)] = f[One(s)] + h[One(s)]
    BY <2>1
  <2>4. f[One(s)] \in Nat /\ h[One(s)] \in Nat
    BY <2>1
  <2>5. QED
    BY <1>5, <2>2, <2>3, <2>4
<1>6. SUBSET S \subseteq T
  <2> HIDE DEF T
  <2>1. QED
    BY <1>4, <1>5, EverySubset
<1>7. QED
  BY <1>1, <1>2, <1>3, <1>6

-----------------------------------------------------------------------------
(* A step of one rank                                                       *)

\* The places of a rank, one by one.
LEMMA EachPlace ==
  /\ "begin" \in Places /\ "loop" \in Places /\ "forward" \in Places
  /\ "backward" \in Places /\ "next" \in Places /\ "commit" \in Places
  /\ "report" \in Places /\ "done" \in Places /\ "failed" \in Places
  /\ "raised" \in Places
  /\ "restore" \in Places /\ "tokens" \in Places /\ "stats" \in Places
  /\ "gradients" \in Places /\ "average" \in Places
  /\ "schedule" \in Places /\ "log" \in Places
  BY DEF Places, Collectives

\* The type of a rank, field by field.
LEMMA FieldType ==
  ASSUME NEW me \in RankType
  PROVE  /\ \A x \in Places : [me EXCEPT !.pc = x] \in RankType
         /\ \A x \in BOOLEAN : [me EXCEPT !.stop = x] \in RankType
         /\ \A x \in Nat :
              /\ [me EXCEPT !.count = x] \in RankType
              /\ [me EXCEPT !.micro = x] \in RankType
              /\ [me EXCEPT !.total = x] \in RankType
              /\ [me EXCEPT !.seen = x] \in RankType
              /\ [me EXCEPT !.global = x] \in RankType
              /\ [me EXCEPT !.step = x] \in RankType
              /\ [me EXCEPT !.place = x] \in RankType
              /\ [me EXCEPT !.last = x] \in RankType
         /\ {me.count, me.micro, me.total, me.seen, me.global, me.step,
             me.place, me.last} \subseteq Nat
  BY DEF RankType

\* The records that a step of a rank makes keep their type.
LEMMA Retyped ==
  ASSUME NEW me \in RankType, NEW p \in Places,
         NEW x \in Nat, NEW y \in Nat
  PROVE  /\ [me EXCEPT !.pc = p, !.micro = 0, !.total = 0, !.stop = FALSE]
               \in RankType
         /\ [me EXCEPT !.pc = p, !.count = x, !.micro = y] \in RankType
         /\ [me EXCEPT !.pc = p, !.total = x] \in RankType
  BY FieldType, Zenon

\* So does the record of a committed update.
LEMMA CommitType ==
  ASSUME NEW me \in RankType, NEW p \in Places,
         NEW x \in Nat, NEW y \in Nat, NEW z \in Nat
  PROVE  [me EXCEPT !.pc = p, !.step = x, !.seen = y, !.place = z]
           \in RankType
  BY FieldType, Zenon

\* What a rank may become on its own.
Quiet(c, me, new) ==
  /\ new \in RankType /\ Sane(c, new)
  /\ Meet(c, new) = Meet(c, me) /\ new.global = me.global
  /\ me.pc # "loop" /\ new.pc \in InUpdate =>
       me.pc \in InUpdate /\ new.step = me.step
  /\ OwnPlace(c) /\ c.means /\ new.pc # "schedule" =>
       me.pc # "schedule" /\ new.place = me.place
  /\ c.max_tokens > 0 /\ new.pc \notin {"begin", "restore", "failed"} =>
       /\ me.pc \notin {"begin", "restore", "failed"}
       /\ Counted(new) = Counted(me)

\* A rank that begins keeps the agreement with its peers.
LEMMA BeginQuiet ==
  ASSUME NEW c \in ConfigurationType, NEW me \in RankType, Sane(c, me),
         me.pc = "begin",
         NEW new, new = [me EXCEPT !.pc = IF c.max_tokens > 0
                                          THEN "restore" ELSE "loop"]
  PROVE  Quiet(c, me, new)
  BY EachPlace DEF Quiet, InUpdate, ConfigurationType, RankType, Sane, Meet,
         MeetFrom, Placed, OwnPlace, Counted

\* So does one that leaves the loop,
LEMMA LoopEnds ==
  ASSUME NEW c \in ConfigurationType, NEW me \in RankType, Sane(c, me),
         me.pc = "loop", NEW new, new = [me EXCEPT !.pc = "done"]
  PROVE  Quiet(c, me, new)
<1>1. new \in RankType /\ Sane(c, new)
  BY EachPlace DEF RankType, Sane
<1>2. Meet(c, new) = Meet(c, me)
  BY DEF RankType, Meet, MeetFrom, MeetLoop, Placed
<1>3. QED
  BY <1>1, <1>2 DEF Quiet, InUpdate, RankType, Counted

\* one that begins an update,
LEMMA LoopGoes ==
  ASSUME NEW c \in ConfigurationType, NEW me \in RankType, Sane(c, me),
         me.pc = "loop", ~ Stopping(c, me.step, me.global),
         NEW new, new = [me EXCEPT !.pc = "forward", !.micro = 0,
                                   !.total = 0, !.stop = FALSE]
  PROVE  Quiet(c, me, new)
<1>1. new \in RankType
  BY EachPlace, Retyped, Zenon
<1>2. Sane(c, new)
  BY DEF RankType, ConfigurationType, Sane, Stopping
<1>3. Meet(c, new) = Meet(c, me)
  BY DEF RankType, Meet, MeetFrom, MeetLoop, Placed
<1>4. QED
  BY <1>1, <1>2, <1>3 DEF Quiet, InUpdate, RankType, Counted

\* one whose batch has no token to count,
LEMMA ForwardRaises ==
  ASSUME NEW c \in ConfigurationType, NEW me \in RankType, Sane(c, me),
         me.pc = "forward", NEW new, new = [me EXCEPT !.pc = "raised"]
  PROVE  Quiet(c, me, new)
<1>1. new \in RankType /\ Sane(c, new)
  BY EachPlace DEF RankType, Sane
<1>2. Meet(c, new) = Meet(c, me)
  BY DEF RankType, Meet, MeetFrom, Placed
<1>3. QED
  BY <1>1, <1>2 DEF Quiet, InUpdate, RankType, Counted

\* one that counts the tokens of a micro-batch,
LEMMA ForwardCounts ==
  ASSUME NEW c \in ConfigurationType, NEW me \in RankType, Sane(c, me),
         me.pc = "forward", c.max_tokens > 0, NEW n \in Nat,
         NEW new, new = [me EXCEPT !.pc = "tokens", !.count = n,
                                   !.micro = me.micro + 1]
  PROVE  Quiet(c, me, new)
<1>1. new \in RankType
  <2>1. me.micro + 1 \in Nat
    BY FieldType
  <2>2. QED
    BY <2>1, EachPlace, Retyped, Zenon
<1>2. Sane(c, new)
  BY DEF RankType, ConfigurationType, Sane
<1>3. Meet(c, new) = Meet(c, me)
  BY Zenon DEF RankType, Meet, MeetFrom, MeetForward, Placed, Sane
<1>4. QED
  BY <1>1, <1>2, <1>3 DEF Quiet, InUpdate, RankType, Counted

\* Without a budget a rank may run through several micro-batches.
LEMMA ForwardGoes ==
  ASSUME NEW c \in ConfigurationType, NEW me \in RankType, Sane(c, me),
         me.pc = "forward", c.max_tokens = 0, NEW n \in Nat,
         NEW new, new = [me EXCEPT !.pc = "backward", !.count = n,
                                   !.micro = me.micro + 1]
  PROVE  Quiet(c, me, new)
<1>1. new \in RankType
  <2>1. me.micro + 1 \in Nat
    BY FieldType
  <2>2. QED
    BY <2>1, EachPlace, Retyped, Zenon
<1>2. Sane(c, new)
  BY DEF RankType, ConfigurationType, Sane
<1>3. Meet(c, new) = Meet(c, me)
  <2>1. Meet(c, me) = MeetForward(c, me.step, me.micro, Placed(c, me))
    BY DEF Meet, MeetFrom
  <2>2. Meet(c, new) = MeetBackward(c, me.step, me.micro + 1, FALSE,
                                    Placed(c, me), me.global)
    BY Zenon DEF RankType, ConfigurationType, Meet, MeetFrom, Placed, Sane
  <2>3. ~ c.max_tokens > 0
    OBVIOUS
  <2>4. me.micro < c.accumulation /\ (~c.exact => me.micro = 0)
    BY DEF Sane
  <2>5. CASE ~c.exact
    <3>1. CASE c.accumulation # 1 \/ c.means
      BY <2>3, <2>1, <2>2, <2>5, <3>1, Zenon DEF MeetForward, MeetBackward
    <3>2. CASE c.accumulation = 1 /\ ~c.means
      <4>1. me.micro + 1 = 1
        BY <2>4, <2>5
      <4>2. QED
        BY <2>3, <2>1, <2>2, <2>5, <3>2, <4>1, Zenon DEF MeetForward,
           MeetBackward, MeetNext, MeetGuard
    <3>3. QED
      BY <3>1, <3>2
  <2>6. CASE c.exact /\ c.means
    BY <2>3, <2>1, <2>2, <2>6, Zenon DEF MeetForward, MeetBackward
  <2>7. CASE c.exact /\ ~c.means
    <3>1. MeetForward(c, me.step, me.micro, Placed(c, me))
            = <<"gradients", me.step, c.accumulation, FALSE, Placed(c, me)>>
      BY <2>3, <2>7, Zenon DEF MeetForward
    <3>2. MeetBackward(c, me.step, me.micro + 1, FALSE, Placed(c, me),
                       me.global)
            = MeetNext(c, me.step, me.micro + 1, FALSE, Placed(c, me),
                       me.global)
      BY <2>7 DEF MeetBackward
    <3>3. CASE me.micro + 1 < c.accumulation
      BY <2>1, <2>2, <2>7, <3>1, <3>2, <3>3, Zenon DEF MeetNext, MeetForward
    <3>4. CASE ~ me.micro + 1 < c.accumulation
      <4>1. me.micro + 1 = c.accumulation
        BY <2>4, <3>4 DEF RankType, ConfigurationType
      <4>2. QED
        BY <2>1, <2>2, <2>7, <3>1, <3>2, <3>4, <4>1, Zenon DEF MeetNext,
           MeetGuard
    <3>5. QED
      BY <3>3, <3>4
  <2>8. QED
    BY <2>5, <2>6, <2>7
<1>4. QED
  BY <1>1, <1>2, <1>3 DEF Quiet, InUpdate, RankType, ConfigurationType, OwnPlace

\* one that accumulates without counting tokens, which fails,
LEMMA BackwardFails ==
  ASSUME NEW c \in ConfigurationType, NEW me \in RankType, Sane(c, me),
         me.pc = "backward", ~c.exact, c.accumulation # 1,
         NEW new, new = [me EXCEPT !.pc = "failed"]
  PROVE  Quiet(c, me, new)
<1>1. new \in RankType /\ Sane(c, new)
  BY EachPlace DEF RankType, Sane
<1>2. Meet(c, new) = Meet(c, me)
  BY DEF RankType, Meet, MeetFrom, MeetBackward, Placed
<1>3. QED
  BY <1>1, <1>2 DEF Quiet, InUpdate, RankType, Counted

\* one that has its gradients,
LEMMA BackwardGoes ==
  ASSUME NEW c \in ConfigurationType, NEW me \in RankType, Sane(c, me),
         me.pc = "backward", c.exact \/ c.accumulation = 1,
         NEW to, to = IF c.means THEN "average" ELSE "next",
         NEW new, new = [me EXCEPT !.pc = to, !.total = me.total + me.count]
  PROVE  Quiet(c, me, new)
<1>1. new \in RankType
  <2>1. me.total + me.count \in Nat
    BY FieldType
  <2>2. to \in Places
    BY EachPlace
  <2>3. QED
    BY <2>1, <2>2, Retyped, Zenon
<1>2. Sane(c, new)
  BY DEF RankType, ConfigurationType, Sane
<1>3. Meet(c, new) = Meet(c, me)
  BY DEF RankType, ConfigurationType, Meet, MeetFrom, MeetBackward, Placed
<1>4. QED
  BY <1>1, <1>2, <1>3 DEF Quiet, InUpdate, RankType, ConfigurationType, Counted

\* Where the guard sends a rank, as Meet sees it.
LEMMA GuardMeets ==
  ASSUME NEW c \in ConfigurationType, NEW me \in RankType,
         NEW to, to = IF c.guarded /\ me.micro # c.accumulation THEN "failed"
                      ELSE IF c.means THEN "commit" ELSE "gradients",
         NEW new, new = [me EXCEPT !.pc = to]
  PROVE  Meet(c, new) = MeetGuard(c, me.step, me.micro, me.stop,
                                  Placed(c, me), me.global)
  BY DEF RankType, Meet, MeetFrom, MeetGuard, Placed, OwnPlace

\* one that goes to the next micro-batch or ends the update,
LEMMA NextQuiet ==
  ASSUME NEW c \in ConfigurationType, NEW me \in RankType, Sane(c, me),
         me.pc = "next",
         NEW to,
         to = IF ~me.stop /\ c.exact /\ me.micro < c.accumulation
              THEN "forward"
              ELSE IF c.exact /\ c.means THEN "stats"
              ELSE IF c.guarded /\ me.micro # c.accumulation THEN "failed"
              ELSE IF c.means THEN "commit" ELSE "gradients",
         NEW new, new = [me EXCEPT !.pc = to]
  PROVE  Quiet(c, me, new)
<1>1. Meet(c, new) = Meet(c, me)
  <2>1. CASE ~me.stop /\ c.exact /\ me.micro < c.accumulation
    BY <2>1 DEF RankType, Meet, MeetFrom, MeetNext, Placed, OwnPlace, Sane,
                MeetForward, ConfigurationType
  <2>2. CASE ~(~me.stop /\ c.exact /\ me.micro < c.accumulation)
             /\ c.exact /\ c.means
    BY <2>2 DEF RankType, Meet, MeetFrom, MeetNext, Placed, OwnPlace
  <2>3. CASE ~(~me.stop /\ c.exact /\ me.micro < c.accumulation)
             /\ ~(c.exact /\ c.means)
    <3>1. to = IF c.guarded /\ me.micro # c.accumulation THEN "failed"
               ELSE IF c.means THEN "commit" ELSE "gradients"
      BY <2>3
    <3>2. Meet(c, new) = MeetGuard(c, me.step, me.micro, me.stop,
                                   Placed(c, me), me.global)
      BY <3>1, GuardMeets
    <3>3. Meet(c, me) = MeetNext(c, me.step, me.micro, me.stop,
                                 Placed(c, me), me.global)
      BY DEF Meet, MeetFrom
    <3>4. QED
      BY <2>3, <3>2, <3>3 DEF MeetNext
  <2>4. QED
    BY <2>1, <2>2, <2>3
<1>2. new \in RankType /\ Sane(c, new)
  BY EachPlace DEF RankType, Sane, ConfigurationType
<1>3. QED
  BY <1>1, <1>2 DEF Quiet, InUpdate, RankType, Counted

\* one that commits it,
LEMMA CommitQuiet ==
  ASSUME NEW c \in ConfigurationType, NEW me \in RankType, Sane(c, me),
         me.pc = "commit",
         NEW w \in Nat,
         NEW p, p = IF ~c.token_lr THEN me.step + 1
                    ELSE IF c.max_tokens > 0 THEN me.global
                    ELSE (me.seen + me.total) * w,
         NEW to, to = IF c.token_lr /\ c.max_tokens = 0 /\ c.means
                      THEN "schedule" ELSE "report",
         NEW new, new = [me EXCEPT !.pc = to, !.step = me.step + 1,
                                   !.seen = me.seen + me.total, !.place = p]
  PROVE  Quiet(c, me, new)
<1>1. new \in RankType
  <2>1. me.seen + me.total \in Nat /\ me.step + 1 \in Nat
    BY FieldType
  <2>2. p \in Nat
    <3>1. (me.seen + me.total) * w \in Nat
      BY <2>1
    <3>2. QED
      BY <2>1, <3>1, FieldType
  <2>3. to \in Places
    BY EachPlace
  <2>4. QED
    BY <2>1, <2>2, <2>3, CommitType, Zenon
<1>2. /\ new.pc = to /\ new.step = me.step + 1 /\ new.place = p
      /\ new.seen = me.seen + me.total /\ new.micro = me.micro
      /\ new.stop = me.stop /\ new.last = me.last /\ new.global = me.global
  BY DEF RankType
<1>3. Sane(c, new)
  BY <1>2 DEF Sane
<1>4. Meet(c, new) = Meet(c, me)
  <2>1. Meet(c, me) = MeetCommit(c, me.step, me.micro, me.stop, me.global)
    BY DEF Meet, MeetFrom
  <2>2. CASE to = "schedule"
    BY <1>2, <2>1, <2>2
    DEF ConfigurationType, Meet, MeetFrom, MeetCommit, Placed, OwnPlace
  <2>3. CASE to = "report"
    BY <1>2, <2>1, <2>3
    DEF ConfigurationType, Meet, MeetFrom, MeetCommit, Placed, OwnPlace
  <2>4. QED
    BY <2>2, <2>3
<1>5. Counted(new) = Counted(me)
  <2>1. Counted(me) = me.seen + me.total
    BY DEF Counted
  <2>2. Counted(new) = me.seen + me.total + 0
    BY <1>2 DEF Counted
  <2>3. me.seen + me.total \in Nat
    BY FieldType
  <2>4. QED
    BY <2>1, <2>2, <2>3
<1>6. QED
  BY <1>1, <1>2, <1>3, <1>4, <1>5 DEF Quiet, InUpdate, ConfigurationType, OwnPlace

\* and one that logs it or not.
LEMMA ReportQuiet ==
  ASSUME NEW c \in ConfigurationType, NEW me \in RankType, Sane(c, me),
         me.pc = "report",
         NEW new, new = [me EXCEPT !.pc = IF c.log > 0 /\ me.step % c.log = 0
                                          THEN "log" ELSE "loop"]
  PROVE  Quiet(c, me, new)
  BY EachPlace DEF Quiet, InUpdate, ConfigurationType, RankType, Sane, Meet,
         MeetFrom, MeetReport, Placed, OwnPlace, Counted

-----------------------------------------------------------------------------
(* The invariant is kept                                                    *)

\* The invariant holds before the ranks begin.
LEMMA InitIInv ==
  ASSUME Init
  PROVE  IInv
<1>1. config \in ConfigurationType
  BY LoopAssumption DEF LoopAssumption, Init
<1>2. \A r \in Ranks :
        rank[r] = [pc |-> "begin", count |-> 0, micro |-> 0, total |-> 0,
                   seen |-> config.seen[r], global |-> 0, stop |-> FALSE,
                   step |-> 0, place |-> 0, last |-> 0]
  BY DEF Init, Started
<1>3. \A r \in Ranks :
        /\ rank[r].pc = "begin" /\ rank[r].micro = 0 /\ rank[r].step = 0
        /\ rank[r].global = 0 /\ rank[r].place = 0 /\ rank[r].last = 0
        /\ rank[r].stop = FALSE
  <2> TAKE r \in Ranks
  <2> DEFINE first == [pc |-> "begin", count |-> 0, micro |-> 0, total |-> 0,
                       seen |-> config.seen[r], global |-> 0,
                       stop |-> FALSE, step |-> 0, place |-> 0, last |-> 0]
  <2>1. /\ first.pc = "begin" /\ first.micro = 0 /\ first.step = 0
        /\ first.global = 0 /\ first.place = 0 /\ first.last = 0
        /\ first.stop = FALSE
    OBVIOUS
  <2>2. rank[r] = first
    BY <1>2
  <2> HIDE DEF first
  <2>3. QED
    BY <2>1, <2>2
<1>4. TypeOK
  <2>1. ASSUME NEW n \in Nat
        PROVE  [pc |-> "begin", count |-> 0, micro |-> 0, total |-> 0,
                seen |-> n, global |-> 0, stop |-> FALSE, step |-> 0,
                place |-> 0, last |-> 0] \in RankType
    BY EachPlace DEF RankType
  <2>2. \A r \in Ranks : config.seen[r] \in Nat
    BY <1>1 DEF ConfigurationType
  <2>3. rank \in [Ranks -> RankType]
    BY <2>1, <2>2 DEF Init, Started
  <2>4. QED
    BY <1>1, <2>3 DEF TypeOK
<1>5. EachSane /\ EachAsked
  BY <1>3 DEF EachSane, Sane, EachAsked, InUpdate
<1>6. SameMeet
  BY <1>3, Zenon DEF SameMeet, Meet, Placed
<1>7. SamePlace /\ Tallied
  BY <1>3 DEF SamePlace, Tallied
<1>8. QED
  BY <1>4, <1>5, <1>6, <1>7 DEF IInv

\* A step that keeps the agreement keeps the invariant.
LEMMA QuietKeeps ==
  ASSUME IInv, NEW r \in Ranks, NEW new, config' = config,
         rank' = [rank EXCEPT ![r] = new], Quiet(config, rank[r], new),
         rank[r].pc = "loop" /\ new.pc \in InUpdate =>
           new.step < config.stop_at[r]
  PROVE  IInv'
<1>1. /\ rank'[r] = new
      /\ \A q \in Ranks : q # r => rank'[q] = rank[q]
  BY DEF IInv, TypeOK
<1>2. TypeOK'
  BY DEF IInv, TypeOK, Quiet
<1>3. EachSane'
  BY <1>1 DEF IInv, EachSane, Quiet
<1>4. SameMeet'
  <2>1. \A q \in Ranks : /\ Meet(config, rank'[q]) = Meet(config, rank[q])
                         /\ rank'[q].global = rank[q].global
    BY <1>1 DEF Quiet
  <2>2. QED
    BY <2>1 DEF IInv, SameMeet
<1>5. SamePlace'
  <2>1. ASSUME OwnPlace(config), config.means, NEW q \in Ranks,
               rank'[q].pc # "schedule"
        PROVE  rank[q].pc # "schedule" /\ rank'[q].place = rank[q].place
    BY <1>1, <2>1 DEF Quiet
  <2>2. QED
    BY <2>1 DEF IInv, SamePlace
<1>6. Tallied'
  <2> SUFFICES ASSUME config.max_tokens > 0,
                      \A q \in Ranks : rank'[q].pc
                        \notin {"begin", "restore", "failed"},
                      NEW p \in Ranks
               PROVE  rank'[p].global
                        = SumFunction([q \in Ranks |-> Counted(rank'[q])])
    BY DEF Tallied
  <2>1. \A q \in Ranks : /\ rank[q].pc \notin {"begin", "restore", "failed"}
                         /\ Counted(rank'[q]) = Counted(rank[q])
                         /\ rank'[q].global = rank[q].global
    BY <1>1 DEF Quiet
  <2>2. [q \in Ranks |-> Counted(rank'[q])]
          = [q \in Ranks |-> Counted(rank[q])]
    BY <2>1
  <2>3. rank[p].global = SumFunction([q \in Ranks |-> Counted(rank[q])])
    BY <2>1 DEF IInv, Tallied
  <2>4. QED
    BY <2>1, <2>2, <2>3
<1>7. EachAsked'
  <2> SUFFICES ASSUME NEW q \in Ranks, rank'[q].pc \in InUpdate
               PROVE  rank'[q].step < config.stop_at[q]
    BY DEF EachAsked, InUpdate
  <2>1. CASE q = r /\ rank[r].pc # "loop"
    BY <1>1, <2>1 DEF IInv, EachAsked, Quiet
  <2>2. CASE q = r /\ rank[r].pc = "loop"
    BY <1>1, <2>2
  <2>3. CASE q # r
    BY <1>1, <2>3 DEF IInv, EachAsked
  <2>4. QED
    BY <2>1, <2>2, <2>3
<1>8. QED
  BY <1>2, <1>3, <1>4, <1>5, <1>6, <1>7 DEF IInv

\* Every step of one rank keeps the invariant.
LEMMA StepKeeps ==
  ASSUME IInv, NEW r \in Ranks, Step(r)
  PROVE  IInv'
<1> DEFINE me == rank[r]
<1>1. config \in ConfigurationType /\ me \in RankType /\ Sane(config, me)
  BY DEF IInv, TypeOK, EachSane
<1>2. ASSUME NEW new, Become(r, new), Quiet(config, me, new),
             me.pc = "loop" /\ new.pc \in InUpdate =>
               new.step < config.stop_at[r]
      PROVE  IInv'
  BY <1>2, QuietKeeps, Zenon DEF Become
<1>3. CASE BeginTraining(r)
  <2> DEFINE new == [me EXCEPT !.pc = IF config.max_tokens > 0
                                      THEN "restore" ELSE "loop"]
  <2>1. me.pc = "begin" /\ Become(r, new)
    BY <1>3 DEF BeginTraining, Goto, Budget
  <2>2. Quiet(config, me, new)
    BY <1>1, <2>1, BeginQuiet
  <2>3. QED
    BY <1>2, <2>1, <2>2
<1>4. CASE Loop(r)
  <2>1. me.pc = "loop"
    BY <1>4 DEF Loop
  <2>2. CASE ShouldStop(r)
    <3> DEFINE new == [me EXCEPT !.pc = "done"]
    <3>1. Become(r, new)
      BY <1>4, <2>2 DEF Loop, Goto
    <3>2. Quiet(config, me, new)
      BY <1>1, <2>1, LoopEnds
    <3>3. new.pc = "done"
      BY <1>1 DEF RankType
    <3>4. QED
      BY <1>2, <3>1, <3>2, <3>3 DEF InUpdate
  <2>3. CASE ~ShouldStop(r)
    <3> DEFINE new == [me EXCEPT !.pc = "forward", !.micro = 0,
                                 !.total = 0, !.stop = FALSE]
    <3>1. Become(r, new)
      BY <1>4, <2>3 DEF Loop
    <3>2. ~ Stopping(config, me.step, me.global)
      BY <2>3 DEF ShouldStop, Spent, Stopping, Budget
    <3>3. Quiet(config, me, new)
      BY <1>1, <2>1, <3>2, LoopGoes, Zenon
    <3>4. new.step = me.step
      BY <1>1 DEF RankType
    <3>5. me.step < config.stop_at[r]
      <4>1. me.step \in Nat /\ config.stop_at[r] \in Nat
        BY <1>1, FieldType DEF ConfigurationType
      <4>2. ~ me.step >= config.stop_at[r]
        BY <2>3 DEF ShouldStop
      <4>3. QED
        BY <4>1, <4>2
    <3> HIDE DEF new
    <3>6. QED
      BY <1>2, <3>1, <3>3, <3>4, <3>5
  <2>4. QED
    BY <2>2, <2>3
<1>5. CASE Forward(r)
  <2>1. me.pc = "forward" /\ me.micro + 1 \in Nat
    BY <1>1, <1>5, FieldType DEF Forward
  <2>2. PICK n \in Nat :
          Become(r, [me EXCEPT !.pc = IF Budget THEN "tokens" ELSE "backward",
                               !.count = n, !.micro = me.micro + 1])
    <3>1. PICK n \in Counts :
            Become(r, [me EXCEPT
              !.pc = IF Budget THEN "tokens" ELSE "backward",
              !.count = IF config.exact THEN n ELSE 0,
              !.micro = me.micro + 1])
      BY <1>5, Zenon DEF Forward, Budget
    <3>2. (IF config.exact THEN n ELSE 0) \in Nat
      BY LoopAssumption DEF LoopAssumption
    <3>3. QED
      BY <3>1, <3>2, Zenon
  <2>3. CASE Budget
    <3> DEFINE new == [me EXCEPT !.pc = "tokens", !.count = n,
                                 !.micro = me.micro + 1]
    <3>1. Become(r, new)
      BY <2>2, <2>3
    <3>2. Quiet(config, me, new)
      BY <1>1, <2>1, <2>3, ForwardCounts, Zenon DEF Budget
    <3>3. QED
      BY <1>2, <2>1, <3>1, <3>2
  <2>4. CASE ~Budget
    <3> DEFINE new == [me EXCEPT !.pc = "backward", !.count = n,
                                 !.micro = me.micro + 1]
    <3>1. Become(r, new)
      BY <2>2, <2>4
    <3>2. config.max_tokens = 0
      BY <1>1, <2>4 DEF Budget, ConfigurationType
    <3>3. Quiet(config, me, new)
      BY <1>1, <2>1, <3>2, ForwardGoes, Zenon
    <3>4. QED
      BY <1>2, <2>1, <3>1, <3>3
  <2>5. QED
    BY <2>3, <2>4
<1>6. CASE Backward(r)
  <2>1. me.pc = "backward"
    BY <1>6 DEF Backward
  <2>2. CASE ~config.exact /\ config.accumulation # 1
    <3> DEFINE new == [me EXCEPT !.pc = "failed"]
    <3>1. Become(r, new)
      BY <1>6, <2>2 DEF Backward, Goto
    <3>2. Quiet(config, me, new)
      BY <1>1, <2>1, <2>2, BackwardFails
    <3>3. QED
      BY <1>2, <2>1, <3>1, <3>2
  <2>3. CASE config.exact \/ config.accumulation = 1
    <3> DEFINE to == IF config.means THEN "average" ELSE "next"
               new == [me EXCEPT !.pc = to, !.total = me.total + me.count]
    <3>1. Become(r, new)
      BY <1>6, <2>3 DEF Backward
    <3>2. Quiet(config, me, new)
      BY <1>1, <2>1, <2>3, BackwardGoes, Zenon
    <3>3. QED
      BY <1>2, <2>1, <3>1, <3>2
  <2>4. QED
    BY <2>2, <2>3
<1>7. CASE NextMicrobatch(r)
  <2> DEFINE to == IF ~me.stop /\ config.exact
                      /\ me.micro < config.accumulation
                   THEN "forward"
                   ELSE IF config.exact /\ config.means THEN "stats"
                   ELSE IF config.guarded /\ me.micro # config.accumulation
                   THEN "failed"
                   ELSE IF config.means THEN "commit" ELSE "gradients"
             new == [me EXCEPT !.pc = to]
  <2>1. me.pc = "next" /\ Become(r, new)
    BY <1>7 DEF NextMicrobatch, Goto, Guard
  <2>2. Quiet(config, me, new)
    BY <1>1, <2>1, NextQuiet
  <2>3. QED
    BY <1>2, <2>1, <2>2
<1>8. CASE Commit(r)
  <2> DEFINE p == IF ~config.token_lr THEN me.step + 1
                  ELSE IF config.max_tokens > 0 THEN me.global
                  ELSE (me.seen + me.total) * World
             to == IF config.token_lr /\ config.max_tokens = 0 /\ config.means
                   THEN "schedule" ELSE "report"
             new == [me EXCEPT !.pc = to, !.step = me.step + 1,
                               !.seen = me.seen + me.total, !.place = p]
  <2>1. me.pc = "commit" /\ World \in Nat
    BY <1>8, FS_CardinalityType, LoopAssumption
    DEF Commit, World, LoopAssumption
  <2>2. Become(r, new)
    <3>1. ~Budget <=> config.max_tokens = 0
      BY <1>1 DEF Budget, ConfigurationType
    <3>2. QED
      BY <1>8, <3>1, Zenon DEF Commit, Budget
  <2>3. Quiet(config, me, new)
    BY <1>1, <2>1, CommitQuiet, Zenon
  <2>4. QED
    BY <1>2, <2>1, <2>2, <2>3
<1>9. CASE Report(r)
  <2> DEFINE new == [me EXCEPT !.pc = IF config.log > 0
                                         /\ me.step % config.log = 0
                                      THEN "log" ELSE "loop"]
  <2>1. me.pc = "report" /\ Become(r, new)
    BY <1>9 DEF Report, Goto
  <2>2. Quiet(config, me, new)
    BY <1>1, <2>1, ReportQuiet
  <2>3. QED
    BY <1>2, <2>1, <2>2
<1>10. CASE BatchRaises(r)
  <2> DEFINE new == [me EXCEPT !.pc = "raised"]
  <2>1. me.pc = "forward" /\ Become(r, new)
    BY <1>10 DEF BatchRaises, Goto
  <2>2. Quiet(config, me, new)
    BY <1>1, <2>1, ForwardRaises
  <2>3. QED
    BY <1>2, <2>1, <2>2
<1>11. QED
  BY <1>3, <1>4, <1>5, <1>6, <1>7, <1>8, <1>9, <1>10 DEF Step

-----------------------------------------------------------------------------
(* A reduction                                                              *)

\* Meet looks at nothing but these.
LEMMA SameControl ==
  ASSUME NEW c, NEW a, NEW b, a.pc = b.pc, a.step = b.step,
         a.micro = b.micro, a.stop = b.stop, a.global = b.global,
         Placed(c, a) = Placed(c, b)
  PROVE  Meet(c, a) = Meet(c, b)
  BY DEF Meet

\* Ranks that wait for the same reduction are at the same point of the loop.
LEMMA MetAlike ==
  ASSUME IInv, NEW kind \in Collectives, \A r \in Ranks : rank[r].pc = kind
  PROVE  \A r, q \in Ranks :
           /\ rank[r].step = rank[q].step /\ rank[r].micro = rank[q].micro
           /\ rank[r].stop = rank[q].stop
           /\ rank[r].global = rank[q].global
           /\ Placed(config, rank[r]) = Placed(config, rank[q])
<1> TAKE r, q \in Ranks
<1>1. ASSUME NEW x \in Ranks
      PROVE  Meet(config, rank[x])
               = <<kind, rank[x].step, rank[x].micro, rank[x].stop,
                   Placed(config, rank[x])>>
  BY DEF Meet, MeetFrom, Collectives
<1>2. Meet(config, rank[r]) = Meet(config, rank[q])
      /\ rank[r].global = rank[q].global
  BY DEF IInv, SameMeet
<1>3. QED
  BY <1>1, <1>2

\* What remains to be shown of a reduction.
LEMMA AlikeKeeps ==
  ASSUME IInv, config' = config, rank' \in [Ranks -> RankType],
         \A r \in Ranks : Sane(config, rank'[r]),
         \A r, q \in Ranks :
           /\ rank'[r].pc = rank'[q].pc /\ rank'[r].step = rank'[q].step
           /\ rank'[r].micro = rank'[q].micro
           /\ rank'[r].stop = rank'[q].stop
           /\ rank'[r].global = rank'[q].global
           /\ Placed(config, rank'[r]) = Placed(config, rank'[q]),
         \A r \in Ranks : rank'[r].pc \in InUpdate =>
           rank[r].pc \in InUpdate /\ rank'[r].step = rank[r].step,
         SamePlace', Tallied'
  PROVE  IInv'
<1>1. TypeOK'
  BY DEF IInv, TypeOK
<1>2. EachSane'
  BY DEF EachSane
<1>3. SameMeet'
  <2>1. \A r, q \in Ranks :
          Meet(config, rank'[r]) = Meet(config, rank'[q])
    BY SameControl
  <2>2. QED
    BY <2>1 DEF SameMeet
<1>4. EachAsked'
  <2>1. \A r \in Ranks :
          rank'[r].pc \in InUpdate => rank'[r].step < config.stop_at[r]
    BY Zenon DEF IInv, EachAsked
  <2>2. QED
    BY <2>1, Zenon DEF EachAsked, InUpdate
<1>5. QED
  BY <1>1, <1>2, <1>3, <1>4 DEF IInv

\* Where a rank knows nothing of the update it is in.
LEMMA SanePlain ==
  ASSUME NEW c \in ConfigurationType, NEW me, NEW new, Sane(c, me),
         new.pc \in {"failed", "commit", "loop", "report"},
         new.stop = me.stop, new.last = me.last, new.last \in Nat,
         new.global = me.global \/ new.last = 0
  PROVE  Sane(c, new)
  BY DEF Sane

\* A rank stays sound behind the average of the gradients.
LEMMA SaneNext ==
  ASSUME NEW c, NEW me, NEW new, Sane(c, me), me.pc = "average",
         new.pc = "next", new.micro = me.micro, new.stop = me.stop,
         new.last = me.last, new.global = me.global
  PROVE  Sane(c, new)
  BY DEF Sane

\* A reduction that changes nothing but where the ranks are.
LEMMA MoveTogether ==
  ASSUME IInv, NEW kind \in Collectives, \A r \in Ranks : rank[r].pc = kind,
         config' = config, NEW to \in Places,
         \A r \in Ranks :
           /\ rank'[r].pc = to /\ rank'[r].step = rank[r].step
           /\ rank'[r].micro = rank[r].micro
           /\ rank'[r].stop = rank[r].stop
           /\ rank'[r].global = rank[r].global
           /\ rank'[r].place = rank[r].place
           /\ rank'[r].last = rank[r].last
           /\ rank'[r].seen = rank[r].seen
           /\ rank'[r].total = rank[r].total,
         rank' \in [Ranks -> RankType],
         \/ kind = "average" /\ to = "next"
         \/ kind = "stats" /\ to \in {"failed", "commit"}
         \/ kind = "gradients" /\ to = "commit"
         \/ kind = "log" /\ to = "loop"
  PROVE  IInv'
<1>1. \A r \in Ranks : Sane(config, rank'[r])
  <2> TAKE r \in Ranks
  <2>1. Sane(config, rank[r])
    BY DEF IInv, EachSane
  <2>2. CASE kind = "average" /\ to = "next"
    BY <2>1, <2>2, SaneNext
  <2>3. CASE to \in {"failed", "commit", "loop"}
    <3>1. config \in ConfigurationType /\ rank'[r].last \in Nat
      BY FieldType DEF IInv, TypeOK
    <3>2. QED
      BY <2>1, <2>3, <3>1, SanePlain
  <2>4. QED
    BY <2>2, <2>3
<1>2. SamePlace'
  BY DEF IInv, SamePlace, Collectives
<1>3. Tallied'
  <2> SUFFICES ASSUME config.max_tokens > 0,
                      \A q \in Ranks : rank'[q].pc
                        \notin {"begin", "restore", "failed"},
                      NEW p \in Ranks
               PROVE  rank'[p].global
                        = SumFunction([q \in Ranks |-> Counted(rank'[q])])
    BY DEF Tallied
  <2>1. to # "failed"
    OBVIOUS
  <2>2. \A q \in Ranks : Counted(rank'[q]) = Counted(rank[q])
    BY <2>1 DEF Counted
  <2>3. [q \in Ranks |-> Counted(rank'[q])]
          = [q \in Ranks |-> Counted(rank[q])]
    BY <2>2
  <2>4. rank[p].global = SumFunction([q \in Ranks |-> Counted(rank[q])])
    BY Zenon DEF IInv, Tallied
  <2>5. QED
    BY <2>3, <2>4
<1>4. \A r \in Ranks : Placed(config, rank'[r]) = Placed(config, rank[r])
  BY DEF Placed
<1>5. \A r \in Ranks : rank'[r].pc \in InUpdate => rank[r].pc \in InUpdate
  BY DEF InUpdate, Collectives
<1>6. QED
  BY <1>1, <1>2, <1>3, <1>4, <1>5, MetAlike, AlikeKeeps

\* The reduction of restored counters keeps the invariant.
LEMMA RestoreKeeps ==
  ASSUME IInv, \A r \in Ranks : rank[r].pc = "restore",
         config' = config, NEW S \in Nat,
         S = SumFunction([q \in Ranks |-> rank[q].seen]),
         rank' \in [Ranks -> RankType],
         \A r \in Ranks :
           /\ rank'[r].pc = "loop" /\ rank'[r].step = rank[r].step
           /\ rank'[r].micro = rank[r].micro
           /\ rank'[r].stop = rank[r].stop
           /\ rank'[r].global = S
           /\ rank'[r].place = rank[r].place
           /\ rank'[r].last = rank[r].last
           /\ rank'[r].seen = rank[r].seen
  PROVE  IInv'
<1>1. \A r \in Ranks : Sane(config, rank'[r])
  <2> TAKE r \in Ranks
  <2>1. Sane(config, rank[r])
    BY DEF IInv, EachSane
  <2>2. rank'[r].last = 0
    BY <2>1 DEF Sane
  <2>3. config \in ConfigurationType
    BY DEF IInv, TypeOK
  <2>4. QED
    BY <2>1, <2>2, <2>3, SanePlain
<1>2. SamePlace'
  BY DEF IInv, SamePlace
<1>3. Tallied'
  <2>1. \A q \in Ranks : Counted(rank'[q]) = rank[q].seen
    <3> TAKE q \in Ranks
    <3>1. Counted(rank'[q]) = rank'[q].seen + 0
      BY DEF Counted
    <3>2. rank'[q].seen \in Nat
      BY FieldType
    <3>3. QED
      BY <3>1, <3>2
  <2>2. [q \in Ranks |-> Counted(rank'[q])] = [q \in Ranks |-> rank[q].seen]
    BY <2>1
  <2>3. QED
    BY <2>2 DEF Tallied
<1>4. \A r \in Ranks : Placed(config, rank'[r]) = Placed(config, rank[r])
  BY DEF Placed
<1>5. QED
  BY <1>1, <1>2, <1>3, <1>4, MetAlike, AlikeKeeps
  DEF Collectives, InUpdate

\* So does that of the tokens a schedule is placed by.
LEMMA ScheduleKeeps ==
  ASSUME IInv, \A r \in Ranks : rank[r].pc = "schedule",
         config' = config, NEW S \in Nat,
         rank' \in [Ranks -> RankType],
         \A r \in Ranks :
           /\ rank'[r].pc = "report" /\ rank'[r].step = rank[r].step
           /\ rank'[r].micro = rank[r].micro
           /\ rank'[r].stop = rank[r].stop
           /\ rank'[r].global = rank[r].global
           /\ rank'[r].place = S
           /\ rank'[r].last = rank[r].last
           /\ rank'[r].seen = rank[r].seen
  PROVE  IInv'
<1>1. \A r \in Ranks : Sane(config, rank'[r])
  <2> TAKE r \in Ranks
  <2>1. Sane(config, rank[r])
    BY DEF IInv, EachSane
  <2>2. config \in ConfigurationType /\ rank'[r].last \in Nat
    BY FieldType DEF IInv, TypeOK
  <2>3. QED
    BY <2>1, <2>2, SanePlain
<1>2. SamePlace'
  BY DEF SamePlace
<1>3. Tallied'
  <2>1. \A q \in Ranks : Counted(rank'[q]) = Counted(rank[q])
    BY DEF Counted
  <2>2. [q \in Ranks |-> Counted(rank'[q])]
          = [q \in Ranks |-> Counted(rank[q])]
    BY <2>1
  <2>3. config.max_tokens > 0 => \A r \in Ranks :
          rank[r].global = SumFunction([q \in Ranks |-> Counted(rank[q])])
    BY Zenon DEF IInv, Tallied
  <2>4. QED
    BY <2>2, <2>3, Zenon DEF Tallied
<1>4. \A r, q \in Ranks : Placed(config, rank'[r]) = Placed(config, rank'[q])
  BY DEF Placed
<1>5. QED
  BY <1>1, <1>2, <1>3, <1>4, MetAlike, AlikeKeeps
  DEF Collectives, InUpdate

\* A rank stays sound behind the reduction of the token counts.
LEMMA SaneTokens ==
  ASSUME NEW c \in ConfigurationType, NEW me \in RankType,
         NEW new \in RankType, Sane(c, me), me.pc = "tokens", c.exact,
         NEW n \in Nat, n # 0, new.pc = "backward", new.micro = me.micro,
         new.global = me.global + n, new.last = n,
         new.stop = (me.global + n >= c.max_tokens)
  PROVE  Sane(c, new)
<1>1. me.global \in Nat /\ c.max_tokens \in Nat
  BY DEF RankType, ConfigurationType
<1>2. /\ c.max_tokens > 0 /\ me.global < c.max_tokens
      /\ me.micro \in 1 .. c.accumulation /\ (~c.exact => me.micro = 1)
  BY <1>1 DEF Sane
<1>3. me.global + n < c.max_tokens + n
  BY <1>1, <1>2
<1>4. ~new.stop => new.global < c.max_tokens
  <2>1. CASE me.global + n >= c.max_tokens
    <3>1. new.stop = TRUE
      BY <2>1, Zenon
    <3>2. QED
      BY <3>1
  <2>2. CASE ~ me.global + n >= c.max_tokens
    BY <1>1, <2>2
  <2>3. QED
    BY <2>1, <2>2
<1>5. QED
  BY <1>1, <1>2, <1>3, <1>4 DEF Sane

\* The tokens of a micro-batch are reduced: the counter grows by what all
\* ranks counted, and every rank sees whether the budget is met.
LEMMA TokensKeep ==
  ASSUME IInv, \A r \in Ranks : rank[r].pc = "tokens",
         config' = config, config.exact, NEW n \in Nat, n # 0,
         n = SumFunction([q \in Ranks |-> rank[q].count]),
         rank' \in [Ranks -> RankType],
         \A r \in Ranks :
           /\ rank'[r].pc = "backward" /\ rank'[r].step = rank[r].step
           /\ rank'[r].micro = rank[r].micro
           /\ rank'[r].stop = (rank[r].global + n >= config.max_tokens)
           /\ rank'[r].global = rank[r].global + n
           /\ rank'[r].place = rank[r].place
           /\ rank'[r].last = n
           /\ rank'[r].seen = rank[r].seen
           /\ rank'[r].total = rank[r].total
           /\ rank'[r].count = rank[r].count
  PROVE  IInv'
<1>1. \A r \in Ranks : Sane(config, rank'[r])
  BY SaneTokens DEF IInv, TypeOK, EachSane
<1>2. SamePlace'
  BY DEF IInv, SamePlace
<1>3. Tallied'
  <2> SUFFICES ASSUME config.max_tokens > 0, NEW p \in Ranks
               PROVE  rank'[p].global
                        = SumFunction([q \in Ranks |-> Counted(rank'[q])])
    BY DEF Tallied
  <2> DEFINE f == [q \in Ranks |-> Counted(rank[q])]
             h == [q \in Ranks |-> rank[q].count]
             k == [q \in Ranks |-> Counted(rank'[q])]
  <2>1. ASSUME NEW q \in Ranks
        PROVE  /\ rank[q].count \in Nat /\ Counted(rank[q]) \in Nat
               /\ Counted(rank'[q]) = Counted(rank[q]) + rank[q].count
    <3>1. {rank[q].seen, rank[q].total, rank[q].count} \subseteq Nat
      BY FieldType DEF IInv, TypeOK
    <3>2. Counted(rank[q]) = rank[q].seen + rank[q].total
      BY DEF Counted
    <3>3. Counted(rank'[q])
            = rank[q].seen + (rank[q].total + rank[q].count)
      BY DEF Counted
    <3>4. QED
      BY <3>1, <3>2, <3>3
  <2>2. f \in [Ranks -> Nat] /\ h \in [Ranks -> Nat]
    BY <2>1
  <2>3. k = [q \in Ranks |-> f[q] + h[q]]
    BY <2>1
  <2>4. rank[p].global = SumFunction(f)
    BY Zenon DEF IInv, Tallied
  <2>5. n = SumFunction(h)
    OBVIOUS
  <2> HIDE DEF f, h, k
  <2>6. SumFunction(k) = SumFunction(f) + SumFunction(h)
    BY <2>2, <2>3, SumAdds, LoopAssumption DEF LoopAssumption
  <2>7. rank'[p].global = SumFunction(k)
    BY <2>4, <2>5, <2>6, Zenon
  <2>8. QED
    BY <2>7, Zenon DEF k
<1>4. \A r \in Ranks : Placed(config, rank'[r]) = Placed(config, rank[r])
  BY DEF Placed
<1>5. \A r, q \in Ranks : rank[r].global = rank[q].global
  BY DEF IInv, SameMeet
<1>6. QED
  BY <1>1, <1>2, <1>3, <1>4, <1>5, MetAlike, AlikeKeeps
  DEF Collectives, InUpdate

\* Nothing was counted: every rank raises.
LEMMA TokensFail ==
  ASSUME IInv, \A r \in Ranks : rank[r].pc = "tokens", config' = config,
         rank' \in [Ranks -> RankType],
         \A r \in Ranks :
           /\ rank'[r].pc = "failed" /\ rank'[r].step = rank[r].step
           /\ rank'[r].micro = rank[r].micro
           /\ rank'[r].stop = rank[r].stop
           /\ rank'[r].global = rank[r].global
           /\ rank'[r].place = rank[r].place
           /\ rank'[r].last = rank[r].last
  PROVE  IInv'
<1>1. \A r \in Ranks : Sane(config, rank'[r])
  <2> TAKE r \in Ranks
  <2>1. Sane(config, rank[r])
    BY DEF IInv, EachSane
  <2>2. config \in ConfigurationType /\ rank'[r].last \in Nat
    BY FieldType DEF IInv, TypeOK
  <2>3. QED
    BY <2>1, <2>2, SanePlain
<1>2. SamePlace'
  BY DEF IInv, SamePlace
<1>3. Tallied'
  BY DEF Tallied
<1>4. \A r \in Ranks : Placed(config, rank'[r]) = Placed(config, rank[r])
  BY DEF Placed
<1>5. QED
  BY <1>1, <1>2, <1>3, <1>4, MetAlike, AlikeKeeps
  DEF Collectives, InUpdate

\* The fields of a rank that a reduction writes to.
LEMMA PcWritten ==
  ASSUME NEW me \in RankType, NEW to \in Places,
         NEW new, new = [me EXCEPT !.pc = to]
  PROVE  /\ new \in RankType /\ new.pc = to /\ new.step = me.step
         /\ new.micro = me.micro /\ new.stop = me.stop
         /\ new.global = me.global /\ new.place = me.place
         /\ new.last = me.last /\ new.seen = me.seen
         /\ new.total = me.total
  BY DEF RankType

\* Every reduction keeps the invariant.
LEMMA ReduceKeeps ==
  ASSUME IInv, Reduce
  PROVE  IInv'
<1>1. PICK kind \in Collectives :
        /\ \A r \in Ranks : rank[r].pc = kind
        /\ rank' = [r \in Ranks |-> Reduced(kind, rank[r])]
        /\ config' = config
  BY DEF Reduce
<1>2. \A r \in Ranks : rank[r] \in RankType /\ rank[r].pc = kind
  BY <1>1 DEF IInv, TypeOK
<1>3. \A r \in Ranks : rank'[r] = Reduced(kind, rank[r])
  BY <1>1
<1>4. rank' \in [Ranks -> RankType]
        <=> \A r \in Ranks : rank'[r] \in RankType
  BY <1>1
<1>5. ASSUME NEW to \in Places,
             \A r \in Ranks : Reduced(kind, rank[r])
                                = [rank[r] EXCEPT !.pc = to],
             \/ kind = "average" /\ to = "next"
             \/ kind = "stats" /\ to \in {"failed", "commit"}
             \/ kind = "gradients" /\ to = "commit"
             \/ kind = "log" /\ to = "loop"
      PROVE  IInv'
  <2>1. ASSUME NEW r \in Ranks
        PROVE  /\ rank'[r] \in RankType /\ rank'[r].pc = to
               /\ rank'[r].step = rank[r].step
               /\ rank'[r].micro = rank[r].micro
               /\ rank'[r].stop = rank[r].stop
               /\ rank'[r].global = rank[r].global
               /\ rank'[r].place = rank[r].place
               /\ rank'[r].last = rank[r].last
               /\ rank'[r].seen = rank[r].seen
               /\ rank'[r].total = rank[r].total
    <3>1. rank[r] \in RankType
      BY <1>2
    <3>2. rank'[r] = [rank[r] EXCEPT !.pc = to]
      BY <1>3, <1>5
    <3>3. QED
      BY <3>1, <3>2, PcWritten
  <2>2. QED
    BY <1>1, <1>4, <1>5, <2>1, MoveTogether
<1>6. SumOf("seen") = SumFunction([q \in Ranks |-> rank[q].seen])
      /\ SumOf("count") = SumFunction([q \in Ranks |-> rank[q].count])
  BY DEF SumOf
<1>7. SumOf("seen") \in Nat /\ SumOf("count") \in Nat
  <2>1. \A q \in Ranks : rank[q].seen \in Nat /\ rank[q].count \in Nat
    BY <1>2, FieldType
  <2>2. /\ [q \in Ranks |-> rank[q].seen] \in [Ranks -> Nat]
        /\ [q \in Ranks |-> rank[q].count] \in [Ranks -> Nat]
    BY <2>1
  <2>3. QED
    BY <1>6, <2>2, SumType, LoopAssumption DEF LoopAssumption
<1>8. CASE kind = "average"
  BY <1>5, <1>8, EachPlace DEF Reduced
<1>9. CASE kind = "gradients"
  BY <1>5, <1>9, EachPlace DEF Reduced
<1>10. CASE kind = "log"
  BY <1>5, <1>10, EachPlace DEF Reduced
<1>11. CASE kind = "stats"
  <2>1. CASE \A r \in Ranks :
               config.guarded /\ rank[r].micro # config.accumulation
    BY <1>5, <1>11, <2>1, EachPlace DEF Reduced, Guard
  <2>2. CASE \E r \in Ranks :
               ~(config.guarded /\ rank[r].micro # config.accumulation)
    <3>1. \A r \in Ranks :
            ~(config.guarded /\ rank[r].micro # config.accumulation)
      BY <1>1, <2>2, MetAlike
    <3>2. \A r \in Ranks : config.means
      BY <1>2, <1>11 DEF IInv, EachSane, Sane
    <3>3. \A r \in Ranks : Reduced(kind, rank[r])
                             = [rank[r] EXCEPT !.pc = "commit"]
      BY <1>11, <3>1, <3>2 DEF Reduced, Guard
    <3>4. QED
      BY <1>5, <1>11, <3>3, EachPlace
  <2>3. QED
    BY <2>1, <2>2
<1>12. CASE kind = "restore"
  <2>1. \A r \in Ranks :
          rank'[r] = [rank[r] EXCEPT !.pc = "loop", !.global = SumOf("seen")]
    BY <1>3, <1>12, Zenon DEF Reduced, Restored
  <2>2. ASSUME NEW r \in Ranks
        PROVE  /\ rank'[r] \in RankType
               /\ rank'[r].pc = "loop" /\ rank'[r].step = rank[r].step
               /\ rank'[r].micro = rank[r].micro
               /\ rank'[r].stop = rank[r].stop
               /\ rank'[r].global = SumOf("seen")
               /\ rank'[r].place = rank[r].place
               /\ rank'[r].last = rank[r].last
               /\ rank'[r].seen = rank[r].seen
    <3>1. rank[r] \in RankType /\ "loop" \in Places
      BY <1>2, EachPlace
    <3>2. rank'[r]
            = [rank[r] EXCEPT !.pc = "loop", !.global = SumOf("seen")]
      BY <2>1, Zenon
    <3>3. PICK me \in RankType : me = rank[r]
      BY <3>1
    <3>4. PICK x \in Nat : x = SumOf("seen")
      BY <1>7
    <3>5. PICK new : new = rank'[r]
      OBVIOUS
    <3>6. new = [me EXCEPT !.pc = "loop", !.global = x]
      BY <3>2, <3>3, <3>4, <3>5
    <3>7. /\ new \in RankType /\ new.pc = "loop" /\ new.step = me.step
          /\ new.micro = me.micro /\ new.stop = me.stop
          /\ new.global = x /\ new.place = me.place
          /\ new.last = me.last /\ new.seen = me.seen
      BY <3>1, <3>6, Zenon DEF RankType
    <3>8. QED
      BY <3>3, <3>4, <3>5, <3>7
  <2>3. QED
    BY <1>1, <1>4, <1>6, <1>7, <1>12, <2>2, RestoreKeeps
<1>13. CASE kind = "schedule"
  <2>1. \A r \in Ranks :
          rank'[r] = [rank[r] EXCEPT !.pc = "report", !.place = SumOf("seen")]
    BY <1>3, <1>13, Zenon DEF Reduced
  <2>2. ASSUME NEW r \in Ranks
        PROVE  /\ rank'[r] \in RankType
               /\ rank'[r].pc = "report" /\ rank'[r].step = rank[r].step
               /\ rank'[r].micro = rank[r].micro
               /\ rank'[r].stop = rank[r].stop
               /\ rank'[r].global = rank[r].global
               /\ rank'[r].place = SumOf("seen")
               /\ rank'[r].last = rank[r].last
               /\ rank'[r].seen = rank[r].seen
    <3>1. rank[r] \in RankType /\ "report" \in Places
      BY <1>2, EachPlace
    <3>2. rank'[r]
            = [rank[r] EXCEPT !.pc = "report", !.place = SumOf("seen")]
      BY <2>1, Zenon
    <3>3. PICK me \in RankType : me = rank[r]
      BY <3>1
    <3>4. PICK x \in Nat : x = SumOf("seen")
      BY <1>7
    <3>5. PICK new : new = rank'[r]
      OBVIOUS
    <3>6. new = [me EXCEPT !.pc = "report", !.place = x]
      BY <3>2, <3>3, <3>4, <3>5
    <3>7. /\ new \in RankType /\ new.pc = "report" /\ new.step = me.step
          /\ new.micro = me.micro /\ new.stop = me.stop
          /\ new.global = me.global /\ new.place = x
          /\ new.last = me.last /\ new.seen = me.seen
      BY <3>1, <3>6, Zenon DEF RankType
    <3>8. QED
      BY <3>3, <3>4, <3>5, <3>7
  <2>3. QED
    BY <1>1, <1>4, <1>7, <1>13, <2>2, ScheduleKeeps
<1>14. CASE kind = "tokens" /\ (~config.exact \/ SumOf("count") = 0)
  <2>1. \A r \in Ranks : rank'[r] = [rank[r] EXCEPT !.pc = "failed"]
    BY <1>3, <1>14, Zenon DEF Reduced
  <2>2. ASSUME NEW r \in Ranks
        PROVE  /\ rank'[r] \in RankType
               /\ rank'[r].pc = "failed" /\ rank'[r].step = rank[r].step
               /\ rank'[r].micro = rank[r].micro
               /\ rank'[r].stop = rank[r].stop
               /\ rank'[r].global = rank[r].global
               /\ rank'[r].place = rank[r].place
               /\ rank'[r].last = rank[r].last
    <3>1. rank[r] \in RankType /\ "failed" \in Places
      BY <1>2, EachPlace
    <3>2. rank'[r]
            = [rank[r] EXCEPT !.pc = "failed"]
      BY <2>1
    <3>3. QED
      BY <3>1, <3>2, PcWritten
  <2>3. QED
    BY <1>1, <1>4, <1>14, <2>2, TokensFail
<1>15. CASE kind = "tokens" /\ config.exact /\ SumOf("count") # 0
  <2> DEFINE n == SumOf("count")
  <2>1. ASSUME NEW r \in Ranks
        PROVE  rank'[r] = [rank[r] EXCEPT
                 !.pc = "backward", !.global = rank[r].global + n, !.last = n,
                 !.stop = (rank[r].global + n >= config.max_tokens)]
    <3>1. rank'[r] = [rank[r] EXCEPT
                 !.pc = "backward", !.global = rank[r].global + n, !.last = n,
                 !.stop = Met(rank[r], n)]
      BY <1>3, <1>15, Zenon DEF Reduced
    <3>2. QED
      BY <3>1 DEF Met
  <2>2. ASSUME NEW r \in Ranks
        PROVE  /\ rank'[r] \in RankType
               /\ rank'[r].pc = "backward" /\ rank'[r].step = rank[r].step
               /\ rank'[r].micro = rank[r].micro
               /\ rank'[r].stop = (rank[r].global + n >= config.max_tokens)
               /\ rank'[r].global = rank[r].global + n
               /\ rank'[r].place = rank[r].place
               /\ rank'[r].last = n
               /\ rank'[r].seen = rank[r].seen
               /\ rank'[r].total = rank[r].total
               /\ rank'[r].count = rank[r].count
    <3>1. n \in Nat /\ rank[r].global + n \in Nat
      BY <1>2, <1>7, FieldType
    <3>2. (rank[r].global + n >= config.max_tokens) \in BOOLEAN
      OBVIOUS
    <3>3. "backward" \in Places
      BY EachPlace
    <3>4. rank[r] \in RankType
      BY <1>2
    <3>5. rank'[r] = [rank[r] EXCEPT
            !.pc = "backward", !.global = rank[r].global + n, !.last = n,
            !.stop = (rank[r].global + n >= config.max_tokens)]
      BY <2>1, Zenon
    <3>6. PICK me \in RankType : me = rank[r]
      BY <3>4
    <3>7. PICK x \in Nat, y \in Nat, b \in BOOLEAN :
            /\ x = rank[r].global + n /\ y = n
            /\ b = (rank[r].global + n >= config.max_tokens)
      BY <3>1, <3>2, Zenon
    <3>8. PICK new : new = rank'[r]
      OBVIOUS
    <3>9. new = [me EXCEPT !.pc = "backward", !.global = x, !.last = y,
                           !.stop = b]
      BY <3>5, <3>6, <3>7, <3>8
    <3>10. new \in RankType
      BY <3>3, <3>9, FieldType, Zenon
    <3>11. /\ new.pc = "backward" /\ new.step = me.step
           /\ new.micro = me.micro /\ new.stop = b /\ new.global = x
           /\ new.place = me.place /\ new.last = y /\ new.seen = me.seen
           /\ new.total = me.total /\ new.count = me.count
      BY <3>9, <3>10 DEF RankType
    <3> HIDE DEF n
    <3>12. QED
      BY <3>6, <3>7, <3>8, <3>10, <3>11
  <2>3. n \in Nat /\ n # 0
        /\ n = SumFunction([q \in Ranks |-> rank[q].count])
    BY <1>6, <1>7, <1>15
  <2> HIDE DEF n
  <2>4. QED
    BY <1>1, <1>4, <1>15, <2>2, <2>3, TokensKeep
<1>16. QED
  BY <1>8, <1>9, <1>10, <1>11, <1>12, <1>13, <1>14, <1>15 DEF Collectives

\* Every step keeps the invariant.
LEMMA NextKeeps ==
  ASSUME IInv, [Next]_budgetVars
  PROVE  IInv'
<1>1. CASE Reduce
  BY <1>1, ReduceKeeps
<1>2. ASSUME NEW r \in Ranks, Step(r) PROVE IInv'
  BY <1>2, StepKeeps
<1>3. CASE UNCHANGED budgetVars
  BY <1>3
  DEF budgetVars, IInv, TypeOK, EachSane, EachAsked, InUpdate, SameMeet,
      SamePlace, Tallied
<1>4. QED
  BY <1>1, <1>2, <1>3 DEF Next

-----------------------------------------------------------------------------
(* The theorems                                                             *)

\* The invariant of a distributed training loop, from its start on
\* (Trainer.train on every rank).
THEOREM Inductive == Spec => []IInv
<1>1. Init => IInv
  BY InitIInv
<1>2. IInv /\ [Next]_budgetVars => IInv'
  BY NextKeeps
<1>3. QED
  BY <1>1, <1>2, PTL DEF Spec

\* A rank goes on to its next reduction without falling back, and makes no
\* update on the way to it once it has left the loop.
LEMMA MeetStep ==
  ASSUME NEW c \in ConfigurationType, NEW me \in RankType
  PROVE  /\ Meet(c, me)[2] \in Nat /\ me.step \in Nat
         /\ me.step <= Meet(c, me)[2]
         /\ me.pc \in {"done", "failed", "raised"} =>
              Meet(c, me)[2] = me.step
<1> DEFINE place == Placed(c, me)
<1>1. me.step \in Nat
  BY FieldType
<1>2. ASSUME NEW n \in Nat, NEW m, NEW p
      PROVE  MeetForward(c, n, m, p)[2] = n
  BY DEF MeetForward
<1>3. ASSUME NEW n \in Nat, NEW m, NEW b, NEW p, NEW g
      PROVE  MeetLoop(c, n, m, b, p, g)[2] = n
  BY <1>2 DEF MeetLoop
<1>4. ASSUME NEW n \in Nat, NEW m, NEW b, NEW p, NEW g
      PROVE  MeetReport(c, n, m, b, p, g)[2] = n
  BY <1>3 DEF MeetReport
<1>5. ASSUME NEW n \in Nat, NEW m, NEW b, NEW g
      PROVE  MeetCommit(c, n, m, b, g)[2] = n + 1
  BY <1>4 DEF MeetCommit
<1>6. ASSUME NEW n \in Nat, NEW m, NEW b, NEW p, NEW g
      PROVE  MeetNext(c, n, m, b, p, g)[2] \in {n, n + 1}
  BY <1>2, <1>5 DEF MeetNext, MeetGuard
<1>7. ASSUME NEW n \in Nat, NEW m, NEW b, NEW p, NEW g
      PROVE  MeetBackward(c, n, m, b, p, g)[2] \in {n, n + 1}
  BY <1>6 DEF MeetBackward
<1>8. /\ Meet(c, me)[2] \in {me.step, me.step + 1}
      /\ me.pc \in {"done", "failed", "raised"} => Meet(c, me)[2] = me.step
  <2>1. CASE me.pc \in {"loop", "done"}
    BY <1>1, <1>3, <2>1 DEF Meet, MeetFrom
  <2>2. CASE me.pc \in {"forward", "raised"}
    BY <1>1, <1>2, <2>2 DEF Meet, MeetFrom
  <2>3. CASE me.pc \in {"backward", "next", "commit", "report", "begin"}
    BY <1>1, <1>3, <1>4, <1>5, <1>6, <1>7, <2>3 DEF Meet, MeetFrom
  <2>4. CASE me.pc \notin {"loop", "done", "forward", "raised", "backward",
                           "next", "commit", "report", "begin"}
    BY <1>1, <2>4 DEF Meet, MeetFrom
  <2>5. QED
    BY <2>1, <2>2, <2>3, <2>4
<1>9. QED
  BY <1>1, <1>8

\* Where a rank outside the loop would have gone: to the end with all others,
\* or into the update it was asked not to make.
LEMMA LeftLoop ==
  ASSUME IInv, NEW r \in Ranks, rank[r].pc = "done"
  PROVE  IF Spent(rank[r]) THEN Meet(config, rank[r])[1] = "done"
         ELSE Meet(config, rank[r])[1]
                \in {"tokens", "failed", "average", "gradients"}
<1>1. Spent(rank[r])
        <=> Stopping(config, rank[r].step, rank[r].global)
  BY DEF Spent, Stopping, Budget
<1>2. QED
  BY <1>1 DEF Meet, MeetFrom, MeetLoop, MeetForward

\* However many ranks there are, whatever each of them counts and whichever
\* of them is asked to stop or meets a batch without tokens, no rank waits in
\* a reduction for one that comes for another, or for one that has left the
\* loop otherwise than by raising or being stopped alone; and without such a
\* rank all leave after the same update (Trainer._train_step, _should_stop,
\* CausalLMTask.forward).
THEOREM RanksAlwaysTogether == Spec => []RanksStayTogether
<1>1. IInv => RanksStayTogether
  <2> SUFFICES ASSUME IInv, NEW r \in Ranks, NEW q \in Ranks
               PROVE
                 /\ Waits(r) /\ Waits(q) =>
                      /\ rank[r].pc = rank[q].pc
                      /\ rank[r].step = rank[q].step
                      /\ rank[r].micro = rank[q].micro
                 /\ Finished(r) => rank[q].step <= rank[r].step
                 /\ Finished(r) /\ Waits(q) => Parted(r)
                 /\ Finished(r) /\ Finished(q) /\ ~Parted(r) /\ ~Parted(q) =>
                      /\ rank[r].pc = rank[q].pc
                      /\ rank[r].step = rank[q].step
                      /\ rank[r].global = rank[q].global
    BY DEF RanksStayTogether
  <2>1. /\ Meet(config, rank[r]) = Meet(config, rank[q])
        /\ rank[r].global = rank[q].global
    BY DEF IInv, SameMeet
  <2>2. ASSUME NEW x \in Ranks
        PROVE  /\ Meet(config, rank[x])[2] \in Nat /\ rank[x].step \in Nat
               /\ rank[x].step <= Meet(config, rank[x])[2]
               /\ Finished(x) => Meet(config, rank[x])[2] = rank[x].step
    BY MeetStep DEF IInv, TypeOK, Finished
  <2>3. ASSUME NEW x \in Ranks, Waits(x) \/ rank[x].pc = "failed"
        PROVE  Meet(config, rank[x])
                 = <<rank[x].pc, rank[x].step, rank[x].micro, rank[x].stop,
                     Placed(config, rank[x])>>
    BY <2>3 DEF Waits, Collectives, Meet, MeetFrom
  <2>4. ASSUME NEW x \in Ranks, rank[x].pc \in InUpdate
        PROVE  rank[x].step < config.stop_at[x] /\ config.stop_at[x] \in Nat
    BY <2>4 DEF IInv, EachAsked, TypeOK, ConfigurationType
  <2>5. Waits(r) /\ Waits(q) =>
          /\ rank[r].pc = rank[q].pc /\ rank[r].step = rank[q].step
          /\ rank[r].micro = rank[q].micro
    BY <2>1, <2>3
  <2>6. Finished(r) => rank[q].step <= rank[r].step
    BY <2>1, <2>2
  <2>7. ASSUME Finished(r), Waits(q)
        PROVE  Parted(r)
    <3>1. /\ Meet(config, rank[r])[1] = rank[q].pc
          /\ rank[q].pc \in Collectives
      BY <2>1, <2>3, <2>7 DEF Waits
    <3>2. CASE rank[r].pc = "raised"
      BY <3>2 DEF Parted
    <3>3. CASE rank[r].pc = "failed"
      BY <2>3, <3>1, <3>3 DEF Collectives
    <3>4. CASE rank[r].pc = "done"
      <4>1. /\ ~Spent(rank[r])
            /\ rank[q].pc \in {"tokens", "average", "gradients"}
        BY <3>1, <3>4, LeftLoop DEF Collectives
      <4>2. rank[q].step < config.stop_at[q] /\ config.stop_at[q] \in Nat
        BY <2>4, <4>1 DEF InUpdate
      <4>3. rank[q].step = rank[r].step
        <5>1. Meet(config, rank[q])[2] = rank[q].step
          BY <2>3, <2>7
        <5>2. QED
          BY <2>1, <2>2, <2>7, <5>1
      <4>4. QED
        BY <2>2, <3>4, <4>1, <4>2, <4>3 DEF Parted
    <3>5. QED
      BY <2>7, <3>2, <3>3, <3>4 DEF Finished
  <2>8. ASSUME Finished(r), Finished(q), ~Parted(r), ~Parted(q)
        PROVE  rank[r].pc = rank[q].pc /\ rank[r].step = rank[q].step
    <3>1. rank[r].step = rank[q].step
      BY <2>1, <2>2, <2>8
    <3>2. ASSUME NEW x \in Ranks, NEW y \in Ranks, Finished(x), Finished(y),
                 ~Parted(x), ~Parted(y), rank[x].step = rank[y].step,
                 Meet(config, rank[x]) = Meet(config, rank[y]),
                 rank[x].pc = "failed"
          PROVE  rank[y].pc = "failed"
      <4>1. Meet(config, rank[y])[1] = "failed"
        BY <2>3, <3>2
      <4>2. rank[y].pc # "raised"
        BY <3>2 DEF Parted
      <4>3. ASSUME rank[y].pc = "done" PROVE FALSE
        <5>1. ~Spent(rank[y])
          BY <3>2, <4>1, <4>3, LeftLoop
        <5>2. rank[x].step < config.stop_at[x] /\ config.stop_at[x] \in Nat
          BY <2>4, <3>2 DEF InUpdate
        <5>3. QED
          BY <2>2, <3>2, <4>3, <5>1, <5>2 DEF Parted
      <4>4. QED
        BY <3>2, <4>2, <4>3 DEF Finished
    <3>3. rank[r].pc = "failed" <=> rank[q].pc = "failed"
      BY <2>1, <2>8, <3>1, <3>2
    <3>4. rank[r].pc # "raised" /\ rank[q].pc # "raised"
      BY <2>8 DEF Parted
    <3>5. QED
      BY <2>8, <3>1, <3>3, <3>4 DEF Finished
  <2>9. QED
    BY <2>1, <2>5, <2>6, <2>7, <2>8
<1>2. QED
  BY <1>1, Inductive, PTL

\* Between updates the counter of every rank is the sum of the tokens all
\* ranks have seen, since the checkpoint too; a run ends within a micro-batch
\* of its budget; the ranks place a schedule alike
\* (Trainer._initialize_global_token_budget, _global_microbatch_tokens).
THEOREM BudgetAlwaysGlobal == Spec => []BudgetIsGlobal
<1>1. IInv => BudgetIsGlobal
  <2> SUFFICES ASSUME IInv,
                      \A r \in Ranks : rank[r].pc \in {"loop", "done"},
                      NEW r \in Ranks
               PROVE
                 /\ Budget => rank[r].global = SumOf("seen")
                 /\ Budget /\ rank[r].last > 0 =>
                      rank[r].global - rank[r].last < config.max_tokens
                 /\ Budget \/ config.means \/ ~config.token_lr =>
                      \A q \in Ranks : rank[r].place = rank[q].place
    BY DEF BudgetIsGlobal
  <2>1. config \in ConfigurationType
        /\ \A q \in Ranks : rank[q] \in RankType /\ Sane(config, rank[q])
    BY DEF IInv, TypeOK, EachSane
  <2>2. Budget => rank[r].global = SumOf("seen")
    <3>1. \A q \in Ranks : Counted(rank[q]) = rank[q].seen
      <4> TAKE q \in Ranks
      <4>1. Counted(rank[q]) = rank[q].seen + 0
        BY DEF Counted
      <4>2. rank[q].seen \in Nat
        BY <2>1, FieldType
      <4>3. QED
        BY <4>1, <4>2
    <3>2. [q \in Ranks |-> Counted(rank[q])] = [q \in Ranks |-> rank[q].seen]
      BY <3>1
    <3>3. SumOf("seen") = SumFunction([q \in Ranks |-> rank[q].seen])
      BY DEF SumOf
    <3>4. QED
      BY <3>2, <3>3 DEF IInv, Tallied, Budget
  <2>3. Budget /\ rank[r].last > 0 =>
          rank[r].global - rank[r].last < config.max_tokens
    <3>1. {rank[r].global, rank[r].last} \subseteq Nat
      BY <2>1, FieldType
    <3>2. config.max_tokens \in Nat
      BY <2>1 DEF ConfigurationType
    <3>3. QED
      BY <2>1, <3>1, <3>2 DEF Budget, Sane
  <2>4. ASSUME Budget \/ config.means \/ ~config.token_lr, NEW q \in Ranks
        PROVE  rank[r].place = rank[q].place
    <3>1. CASE OwnPlace(config)
      BY <2>1, <2>4, <3>1
      DEF IInv, SamePlace, OwnPlace, Budget, ConfigurationType
    <3>2. CASE ~OwnPlace(config)
      <4>1. ASSUME NEW x \in Ranks
            PROVE  Meet(config, rank[x])[5] = rank[x].place
        BY <3>2 DEF Meet, MeetFrom, MeetLoop, MeetForward, Placed
      <4>2. QED
        BY <4>1 DEF IInv, SameMeet
    <3>3. QED
      BY <3>1, <3>2
  <2>5. QED
    BY <2>2, <2>3, <2>4
<1>2. QED
  BY <1>1, Inductive, PTL

-----------------------------------------------------------------------------
(* CheckpointManifests: the lifecycle object and its writer                 *)

\* What the lifecycle object and its writer know of each other: a transaction
\* in the hands of the writer is not retained yet, has published nothing while
\* it is written and a whole manifest once it is; what is durable was named
\* last, and the writer is no longer at it.
ManifestInv ==
  /\ cmPhase \in {"idle", "in_flight", "committed", "failed", "shutdown"}
  /\ cmWriter \in {"idle", "writing", "written", "broken"}
  /\ cmTx \in Transactions \union {0}
  /\ DOMAIN cmDisk = Transactions
  /\ cmRetained \in Seq(Transactions) /\ Len(cmRetained) <= MaxRetained
  /\ \A i, j \in 1..Len(cmRetained) : cmRetained[i] = cmRetained[j] => i = j
  /\ \A i \in 1..Len(cmRetained) : Manifest!Committed(cmDisk[cmRetained[i]])
  /\ cmDurable \in BOOLEAN
  /\ cmDurable => /\ cmPhase \in {"committed", "shutdown"}
                  /\ cmWriter = "idle" \/ cmPhase = "shutdown"
                  /\ cmRetained # <<>> /\ cmRetained[Len(cmRetained)] = cmTx
  /\ cmPhase = "in_flight" => cmWriter # "idle"
  /\ cmWriter # "idle" => 
       /\ cmTx \in Transactions
       /\ cmPhase \in {"in_flight", "shutdown"}
  /\ cmWriter # "idle" =>
       \A i \in 1..Len(cmRetained) : cmRetained[i] # cmTx
  /\ cmWriter = "writing" => cmDisk[cmTx] = Manifest!Nothing
  /\ cmWriter = "written" => Manifest!Committed(cmDisk[cmTx])

\* The lifecycle object begins with nothing retained and nothing durable.
LEMMA ManifestInit ==
  ASSUME Manifest!Init
  PROVE  ManifestInv
<1>1. /\ cmRetained \in Seq(Transactions) /\ Len(cmRetained) = 0
      /\ 1..Len(cmRetained) = {}
  BY DEF Manifest!Init
<1>2. cmDurable \in BOOLEAN /\ ~cmDurable
  BY Zenon DEF Manifest!Init
<1> QED
  BY <1>1, <1>2, ManifestAssumption DEF Manifest!Init, ManifestInv

\* A save begins: what was durable is no longer claimed, and the new
\* transaction is one that was never used.
LEMMA ManifestBegin ==
  ASSUME ManifestInv, NEW t \in Transactions, Manifest!Begin(t)
  PROVE  ManifestInv'
BY ManifestAssumption, Zenon DEF Manifest!Begin, ManifestInv,
   Manifest!Nothing, Manifest!Committed

\* The writer publishes a manifest that can be constructed, or breaks.
LEMMA ManifestWrite ==
  ASSUME ManifestInv, Manifest!Write
  PROVE  ManifestInv'
BY ManifestAssumption DEF Manifest!Write, ManifestInv, Manifest!Nothing,
   Manifest!Committed

\* What retention keeps are the last of what there was, without a repetition.
LEMMA KeptIs ==
  ASSUME NEW old \in Seq(Transactions), NEW t \in Transactions,
         Len(old) <= MaxRetained,
         \A i, j \in 1..Len(old) : old[i] = old[j] => i = j,
         \A i \in 1..Len(old) : old[i] # t,
         NEW new, new = Manifest!Kept(old, t)
  PROVE  /\ new \in Seq(Transactions) /\ Len(new) <= MaxRetained
         /\ new # <<>> /\ new[Len(new)] = t
         /\ \A i, j \in 1..Len(new) : new[i] = new[j] => i = j
         /\ \A i \in 1..Len(new) :
              new[i] = t \/ \E j \in 1..Len(old) : new[i] = old[j]
<1> DEFINE all == Append(old, t)  n == Len(all)
           skip == IF n <= MaxRetained THEN 0 ELSE n - MaxRetained
<1>1. /\ Len(old) \in Nat /\ all \in Seq(Transactions) /\ n = Len(old) + 1
      /\ \A i \in 1..Len(old) : all[i] = old[i] 
      /\ all[n] = t /\ MaxRetained \in Nat \ {0}
  BY LenProperties, AppendProperties, ManifestAssumption
<1>2. \A i, j \in 1..n : all[i] = all[j] => i = j
  BY <1>1
<1>3. IF n <= MaxRetained THEN new = all ELSE new = SubSeq(all, skip + 1, n)
  BY <1>1, Zenon DEF Manifest!Kept
<1> HIDE DEF all, n
<1>4. /\ skip \in Nat /\ n - skip \in 1..MaxRetained /\ n \in Nat
      /\ n <= MaxRetained => skip = 0
  BY <1>1
<1> HIDE DEF skip
<1>5. /\ new \in Seq(Transactions) /\ Len(new) = n - skip
      /\ \A i \in 1..(n - skip) : new[i] = all[skip + i]
  <2>1. CASE n <= MaxRetained
    BY <1>1, <1>3, <1>4, <2>1 DEF n
  <2>2. CASE ~(n <= MaxRetained)
    <3>1. \A i \in (skip + 1)..n : all[i] \in Transactions
      BY <1>1, <1>4, ElementOfSeq DEF n
    <3>2. skip + 1 \in Int /\ n \in Int
      BY <1>4
    <3>3. /\ SubSeq(all, skip + 1, n) \in Seq(Transactions)
          /\ Len(SubSeq(all, skip + 1, n)) =
               IF skip + 1 <= n THEN n - (skip + 1) + 1 ELSE 0
          /\ \A i \in 1..(n - (skip + 1) + 1) :
               SubSeq(all, skip + 1, n)[i] = all[skip + 1 + i - 1]
      BY <3>1, <3>2, SubSeqProperties
    <3>4. new = SubSeq(all, skip + 1, n)
      BY <1>3, <2>2
    <3>5. /\ new \in Seq(Transactions)
          /\ Len(new) = IF skip + 1 <= n THEN n - (skip + 1) + 1 ELSE 0
          /\ \A i \in 1..(n - (skip + 1) + 1) : new[i] = all[skip + 1 + i - 1]
      BY <3>3, <3>4
    <3> QED
      BY <1>4, <3>5
  <2> QED
    BY <2>1, <2>2
<1>6. \A i \in 1..(n - skip) : skip + i \in 1..n
  BY <1>4
<1>7. new # <<>> /\ new[Len(new)] = t
  BY <1>1, <1>4, <1>5
<1>8. \A i, j \in 1..Len(new) : new[i] = new[j] => i = j
  BY <1>2, <1>4, <1>5, <1>6
<1>9. \A i \in 1..Len(new) :
        new[i] = t \/ \E j \in 1..Len(old) : new[i] = old[j]
  <2> SUFFICES ASSUME NEW i \in 1..Len(new), skip + i # n
               PROVE  \E j \in 1..Len(old) : new[i] = old[j]
    BY <1>1, <1>4, <1>5
  <2>1. i \in 1..(n - skip) /\ new[i] = all[skip + i]
    BY <1>5
  <2>2. skip + i \in 1..n
    BY <1>6, <2>1
  <2>3. skip + i \in 1..Len(old)
    BY <1>1, <1>4, <2>1, <2>2
  <2> QED
    BY <1>1, <2>1, <2>3
<1>10. Len(new) <= MaxRetained
  BY <1>1, <1>4, <1>5
<1> QED
  BY <1>5, <1>7, <1>8, <1>9, <1>10

\* complete(): the transaction is retained, what exceeds max_retained is dropped.
LEMMA ManifestComplete ==
  ASSUME ManifestInv, Manifest!Complete
  PROVE  ManifestInv'
<1>1. CASE cmPhase = "in_flight"
  <2>1. /\ cmTx \in Transactions /\ cmRetained' = Manifest!Kept(cmRetained, cmTx)
        /\ cmDisk' = cmDisk /\ cmTx' = cmTx /\ cmDurable' = TRUE
        /\ cmPhase' = "committed" /\ cmWriter' = "idle"
        /\ Manifest!Committed(cmDisk[cmTx])
    BY <1>1 DEF ManifestInv, Manifest!Complete
  <2>2. /\ cmRetained' \in Seq(Transactions) /\ Len(cmRetained') <= MaxRetained
        /\ cmRetained' # <<>> /\ cmRetained'[Len(cmRetained')] = cmTx
        /\ \A i, j \in 1..Len(cmRetained') : cmRetained'[i] = cmRetained'[j] => i = j
        /\ \A i \in 1..Len(cmRetained') :
             cmRetained'[i] = cmTx
             \/ \E j \in 1..Len(cmRetained) : cmRetained'[i] = cmRetained[j]
    BY <1>1, <2>1, KeptIs DEF ManifestInv, Manifest!Complete
  <2>3. \A i \in 1..Len(cmRetained') : Manifest!Committed(cmDisk[cmRetained'[i]])
    BY <2>1, <2>2 DEF ManifestInv
  <2> QED
    BY <2>1, <2>2, <2>3 DEF ManifestInv
<1>2. CASE cmPhase # "in_flight"
  BY <1>2 DEF ManifestInv, Manifest!Complete
<1> QED
  BY <1>1, <1>2

\* A failure, a shutdown, a restart and the planners retain nothing new.
LEMMA ManifestOther ==
  ASSUME ManifestInv,
         \/ Manifest!Fail \/ Manifest!Shutdown \/ Manifest!Restart
         \/ \E t \in Transactions : 
              \/ \E b \in Backends, w \in 1..WorldSize : Manifest!PlanResume(t, b, w)
              \/ Manifest!PlanExport(t)
         \/ UNCHANGED ManifestVars
  PROVE  ManifestInv'
<1>1. CASE Manifest!Fail \/ Manifest!Shutdown
  BY <1>1, Zenon DEF ManifestInv, Manifest!Fail, Manifest!Shutdown
<1>2. CASE Manifest!Restart
  <2>1. /\ cmRetained' \in Seq(Transactions) /\ Len(cmRetained') = 0
        /\ 1..Len(cmRetained') = {}
    BY <1>2 DEF Manifest!Restart
  <2>2. cmDurable' \in BOOLEAN /\ ~cmDurable'
    BY <1>2, Zenon DEF Manifest!Restart
  <2> QED
    BY <1>2, <2>1, <2>2, ManifestAssumption DEF ManifestInv, Manifest!Restart
<1>3. CASE \E t \in Transactions : 
              \/ \E b \in Backends, w \in 1..WorldSize : Manifest!PlanResume(t, b, w)
              \/ Manifest!PlanExport(t)
  BY <1>3 DEF ManifestInv, Manifest!PlanResume, Manifest!PlanExport
<1>4. CASE UNCHANGED ManifestVars
  BY <1>4 DEF ManifestInv, ManifestVars
<1> QED
  BY <1>1, <1>2, <1>3, <1>4

-----------------------------------------------------------------------------
(* What the writer's slips leave of a manifest *)

FileFields ==
  {"role", "path", "required", "group", "index", "count", "rank", "format"}

\* A file of a resume manifest, whatever else has slipped: its name says which
\* shard group it is in, and which rank a per-rank file may be of.
FileShape(a, i) ==
  /\ DOMAIN a = FileFields
  /\ i[1] \in Manifest!Roles /\ i[2] \in Manifest!Writers
  /\ a.group = IF i[1] \in Manifest!Sharded THEN {i[1]} ELSE {}
  /\ a.count \in Nat
  /\ i[1] \in Manifest!PerRank => a.rank \in Manifest!Writers

FilesShape(files) == \A i \in DOMAIN files : i = <<i[1], i[2]>> /\ FileShape(files[i], i)

\* A state lists files of its own name only.
StatesShape(states) ==
  \A s \in DOMAIN states : /\ DOMAIN states[s] = {"layout", "keying", "ids"}
                           /\ \A i \in states[s].ids : i[1] = s

ResumeShape(m) ==
  /\ DOMAIN m = {"kind", "status", "backend", "world", "artifacts", "states",
                 "cursors"}
  /\ m.kind = "resume" /\ m.world = WorldSize
  /\ FilesShape(m.artifacts) /\ StatesShape(m.states)

ExportShape(m) ==
  /\ DOMAIN m = {"kind", "status", "artifacts", "target", "remaining", "safe"}
  /\ m.kind = "export"

Shape(m) == ResumeShape(m) \/ ExportShape(m)

\* The manifests a writer without slips makes.
LEMMA WholeShape ==
  Shape(Manifest!WholeResume) /\ Shape(Manifest!WholeExport)
<1>1. ExportShape(Manifest!WholeExport)
  BY DEF ExportShape, Manifest!WholeExport
<1> DEFINE m == Manifest!WholeResume
    ids == Manifest!Files(Manifest!Roles, Manifest!Sharded \cup Manifest!PerRank)
<1>2. /\ DOMAIN m = {"kind", "status", "backend", "world", "artifacts", "states",
                 "cursors"}
      /\ m.kind = "resume" /\ m.world = WorldSize
      /\ m.artifacts = [i \in ids |-> Manifest!Artifact(i[1], i[2])]
      /\ m.states = [role \in Manifest!Roles |->
                    [layout |-> Manifest!Layout(role), keying |-> "canonical",
                     ids |-> {i \in ids : i[1] = role}]]
  BY DEF Manifest!WholeResume
<1>3. \A i \in ids : /\ i = <<i[1], i[2]>> /\ i[1] \in Manifest!Roles
                     /\ i[2] \in Manifest!Writers
  BY ManifestAssumption DEF Manifest!Files, Manifest!Writers, Manifest!Roles,
     Manifest!Sharded, Manifest!PerRank
<1> HIDE DEF ids, m
<1>4. \A i \in ids : FileShape(Manifest!Artifact(i[1], i[2]), i)
  BY <1>3, ManifestAssumption DEF FileShape, FileFields, Manifest!Artifact
<1>5. FilesShape(m.artifacts)
  BY <1>2, <1>3, <1>4 DEF FilesShape
<1>6. StatesShape(m.states)
  BY <1>2 DEF StatesShape
<1> QED
  BY <1>1, <1>2, <1>5, <1>6 DEF Shape, ResumeShape, m

\* A manifest keeps its shape when one of its files is put in another way.
LEMMA FileReplaced ==
  ASSUME NEW m, ResumeShape(m), NEW i \in DOMAIN m.artifacts, NEW a, FileShape(a, i)
  PROVE  ResumeShape([m EXCEPT !.artifacts[i] = a])
<1> DEFINE B == [m.artifacts EXCEPT ![i] = a]
<1>1. FilesShape(B)
  BY DEF ResumeShape, FilesShape
<1>2. [m EXCEPT !.artifacts[i] = a] = [m EXCEPT !.artifacts = B]
  OBVIOUS
<1> HIDE DEF B
<1> QED
  BY <1>1, <1>2 DEF ResumeShape

\* A slip about one file of a manifest.
LEMMA FileSlip ==
  ASSUME NEW m, ResumeShape(m), NEW x \in Manifest!FileSlips(m)
  PROVE  ResumeShape(x)
<1> DEFINE A == m.artifacts
<1>1. ASSUME NEW i \in DOMAIN A PROVE FileShape(A[i], i)
  BY <1>1 DEF ResumeShape, FilesShape
<1>2. 0 \in Manifest!Writers
  BY ManifestAssumption DEF Manifest!Writers
<1>3. CASE \E i \in DOMAIN A : x = [m EXCEPT !.artifacts = Manifest!Without(@, i)]
  BY <1>3 DEF ResumeShape, FilesShape, Manifest!Without
<1>4. ASSUME NEW i \in DOMAIN A,
             \/ x = [m EXCEPT !.artifacts[i].required = FALSE]
             \/ x = [m EXCEPT !.artifacts[i].rank = 0]
             \/ x = [m EXCEPT !.artifacts[i].index = 0]
             \/ x = [m EXCEPT !.artifacts[i].count = WorldSize + 1]
             \/ x = [m EXCEPT !.artifacts[i].role = "optimizer"]
             \/ x = [m EXCEPT !.artifacts[i].format = "pickle"]
             \/ \E j \in DOMAIN A : x = [m EXCEPT !.artifacts[i].path = A[j].path]
      PROVE  ResumeShape(x)
  <2>1. PICK f, v :
          /\ f \in {"required", "rank", "index", "count", "role", "format",
                    "path"}
          /\ x = [m EXCEPT !.artifacts[i] = [A[i] EXCEPT ![f] = v]]
          /\ (f = "rank" => v = 0) /\ (f = "count" => v = WorldSize + 1)
    BY <1>4
  <2> DEFINE a == [A[i] EXCEPT ![f] = v]
  <2>3. /\ FileShape(A[i], i) /\ DOMAIN a = DOMAIN A[i]
        /\ \A g \in DOMAIN A[i] : g # f => a[g] = A[i][g]
        /\ f \in DOMAIN A[i] /\ a[f] = v
    BY <1>1, <2>1, Zenon DEF FileShape, FileFields
  <2> HIDE DEF a
  <2>4. a.group = A[i].group
    BY <2>1, <2>3 DEF FileShape, FileFields
  <2>5. a.count \in Nat
    BY <2>1, <2>3, ManifestAssumption DEF FileShape, FileFields
  <2>6. a.rank = A[i].rank \/ a.rank = 0
    BY <2>1, <2>3 DEF FileShape, FileFields
  <2>2. FileShape(a, i)
    BY <1>2, <2>3, <2>4, <2>5, <2>6 DEF FileShape
  <2> QED
    BY <2>1, <2>2, FileReplaced DEF a
<1> QED
  BY <1>3, <1>4 DEF Manifest!FileSlips

\* A slip about one state of a manifest.
LEMMA StateSlip ==
  ASSUME NEW m, ResumeShape(m), NEW x \in Manifest!StateSlips(m)
  PROVE  ResumeShape(x)
<1> DEFINE S == m.states
<1>1. CASE \E s \in DOMAIN S : x = [m EXCEPT !.states = Manifest!Without(@, s)]
  BY <1>1 DEF ResumeShape, StatesShape, Manifest!Without
<1>2. ASSUME NEW s \in DOMAIN S,
             \/ x = [m EXCEPT !.states[s].keying = "position"]
             \/ x = [m EXCEPT !.states[s].layout = "replicated"]
             \/ \E i \in S[s].ids : x = [m EXCEPT !.states[s].ids = @ \ {i}]
      PROVE  ResumeShape(x)
  <2>1. PICK f, v :
          /\ f \in {"keying", "layout", "ids"}
          /\ x = [m EXCEPT !.states[s] = [S[s] EXCEPT ![f] = v]]
          /\ (f = "ids" => v \subseteq S[s].ids)
    BY <1>2
  <2> DEFINE T == [S EXCEPT ![s] = [S[s] EXCEPT ![f] = v]]
  <2>2. StatesShape(T)
    BY <2>1 DEF ResumeShape, StatesShape
  <2>3. x = [m EXCEPT !.states = T]
    BY <2>1
  <2> HIDE DEF T
  <2> QED
    BY <2>2, <2>3 DEF ResumeShape
<1> QED
  BY <1>1, <1>2 DEF Manifest!StateSlips

\* Any slip leaves a manifest its shape.
LEMMA SlipShape ==
  ASSUME NEW m, Shape(m), NEW x \in Manifest!Slips(m)
  PROVE  Shape(x)
<1>1. CASE ExportShape(m)
  <2>1. x.kind = "export" /\ DOMAIN x = DOMAIN m
    BY <1>1 DEF ExportShape, Manifest!Slips, Manifest!FileSlips
  <2> QED
    BY <1>1, <2>1 DEF Shape, ExportShape
<1>2. CASE ResumeShape(m)
  <2>1. CASE x = [m EXCEPT !.status = "staging"]
    BY <1>2, <2>1 DEF Shape, ResumeShape
  <2>2. CASE x \in Manifest!FileSlips(m) \/ x \in Manifest!StateSlips(m)
    BY <1>2, <2>2, FileSlip, StateSlip DEF Shape
  <2>3. CASE x \in Manifest!CursorSlips(m)
    <3>1. PICK c : x = [m EXCEPT !.cursors = c]
      BY <2>3 DEF Manifest!CursorSlips
    <3> QED
      BY <1>2, <3>1 DEF Shape, ResumeShape
  <2> QED
    BY <1>2, <2>1, <2>2, <2>3 DEF Manifest!Slips, ResumeShape
<1> QED
  BY <1>1, <1>2 DEF Shape

\* The attempts with up to n slips.
AttemptsUpTo(f, n) ==
  f = [k \in 0..n |-> IF k = 0 THEN {Manifest!WholeResume, Manifest!WholeExport}
                      ELSE f[k - 1] \cup UNION {Manifest!Slips(m) : m \in f[k - 1]}]

\* The recursive function behind Attempts exists.
LEMMA AttemptsExist == \A n \in Nat : \E f : AttemptsUpTo(f, n)
<1> DEFINE N == {n \in Nat : \E f : AttemptsUpTo(f, n)}
           more(s) == s \cup UNION {Manifest!Slips(m) : m \in s}
           none == {Manifest!WholeResume, Manifest!WholeExport}
<1>1. 0 \in N
  <2>1. AttemptsUpTo([k \in 0..0 |-> none], 0)
    BY DEF AttemptsUpTo
  <2> QED
    BY <2>1
<1>2. ASSUME NEW n \in N PROVE n + 1 \in N
  <2>1. PICK f : AttemptsUpTo(f, n)
    BY <1>2
  <2> DEFINE g == [k \in 0..(n + 1) |-> IF k = n + 1 THEN more(f[n]) ELSE f[k]]
  <2>2. /\ \A k \in 0..n : g[k] = f[k]
        /\ g[n + 1] = more(f[n])
    OBVIOUS
  <2>3. \A k \in 0..n : f[k] = IF k = 0 THEN none ELSE more(f[k - 1])
    BY <2>1, Zenon DEF AttemptsUpTo
  <2>4. g = [k \in 0..(n + 1) |-> g[k]]
    OBVIOUS
  <2> HIDE DEF g, more, none
  <2>5. \A k \in 0..(n + 1) : g[k] = IF k = 0 THEN none ELSE more(g[k - 1])
    <3> TAKE k \in 0..(n + 1)
    <3>1. k \in 0..n => k = 0 \/ k - 1 \in 0..n
      OBVIOUS
    <3>2. CASE k = n + 1
      BY <2>2, <3>2
    <3>3. CASE k # n + 1
      BY <2>2, <2>3, <3>1, <3>3
    <3> QED
      BY <3>2, <3>3
  <2>6. AttemptsUpTo(g, n + 1)
    BY <2>4, <2>5, Zenon DEF AttemptsUpTo, more, none
  <2> QED
    BY <2>6
<1>3. Nat \subseteq N
  <2> HIDE DEF N
  <2>1. \A n \in N \cap Nat : n + 1 \in N
    BY <1>2
  <2> QED
    BY <1>1, <2>1, AllNumbers
<1> QED
  BY <1>3

\* Whatever slipped, an attempt has the shape.
LEMMA AttemptShape ==
  ASSUME NEW m \in Manifest!Attempts
  PROVE  Shape(m)
<1> DEFINE f == CHOOSE f : AttemptsUpTo(f, MaxSlips)
<1>1. AttemptsUpTo(f, MaxSlips)
  BY AttemptsExist, ManifestAssumption
<1>2. Manifest!Attempts = f[MaxSlips]
  BY DEF Manifest!Attempts, AttemptsUpTo
<1> HIDE DEF f
<1> DEFINE N == {n \in Nat : n <= MaxSlips => \A x \in f[n] : Shape(x)}
<1>3. 0 \in N
  BY <1>1, WholeShape, ManifestAssumption DEF AttemptsUpTo
<1>4. ASSUME NEW n \in N, n + 1 <= MaxSlips, NEW x \in f[n + 1] PROVE Shape(x)
  <2>1. f[n + 1] = f[n] \cup UNION {Manifest!Slips(y) : y \in f[n]}
    BY <1>1, <1>4, ManifestAssumption DEF AttemptsUpTo
  <2>2. \A y \in f[n] : Shape(y)
    BY <1>4, ManifestAssumption
  <2> QED
    BY <1>4, <2>1, <2>2, SlipShape
<1>5. Nat \subseteq N
  <2>1. \A n \in N \cap Nat : n + 1 \in N
    BY <1>4
  <2> HIDE DEF N
  <2> QED
    BY <1>3, <2>1, AllNumbers
<1> QED
  BY <1>2, <1>5, ManifestAssumption

\* Every rank of the job that asked is served by a manifest that can be
\* constructed and planned, whatever slipped.
LEMMA PlannedServes ==
  ASSUME NEW m, ResumeShape(m), Manifest!ResumeConstructs(m),
         NEW b, NEW w, Manifest!Plannable(m, b, w), NEW r \in 0..(WorldSize - 1)
  PROVE  Manifest!ServesRank(m, r)
<1>1. /\ m.status = "complete" /\ m.world = WorldSize /\ WorldSize \in Nat \ {0}
      /\ Manifest!ValidArtifacts(m) /\ Manifest!ValidCursors(m)
      /\ DOMAIN m.states = Manifest!Roles
      /\ \A s \in DOMAIN m.states : Manifest!ValidState(m, s)
      /\ FilesShape(m.artifacts) /\ StatesShape(m.states)
  BY ManifestAssumption DEF ResumeShape, Manifest!ResumeConstructs,
     Manifest!Plannable
<1>2. \A s \in Manifest!Roles : 
        /\ m.states[s].ids # {}
        /\ \A i \in m.states[s].ids : /\ i \in DOMAIN m.artifacts /\ i[1] = s
                                      /\ m.artifacts[i].role = s
  BY <1>1 DEF Manifest!ValidState, StatesShape
<1>3. m.cursors[r].exact /\ m.cursors[r].state \in Manifest!FilesOfRole(m, "data")
  BY <1>1 DEF Manifest!ValidCursors
<1>4. \E i \in m.states["rng"].ids :
        i \in Manifest!FilesOfRole(m, "rng") /\ m.artifacts[i].rank = r
  <2>1. "rng" \in Manifest!Roles /\ "rng" \in Manifest!PerRank
    BY DEF Manifest!Roles, Manifest!PerRank
  <2>2. \E i \in m.states["rng"].ids : m.artifacts[i].rank = r
    <3>1. CASE WorldSize > 1
      <4>1. m.states["rng"].layout = "per_rank"
        BY <1>1, <3>1 DEF Manifest!Plannable
      <4>2. {m.artifacts[i].rank : i \in m.states["rng"].ids} = 0..(WorldSize - 1)
        BY <1>1, <2>1, <4>1 DEF Manifest!ValidState
      <4> QED
        BY <4>2
    <3>2. CASE ~(WorldSize > 1)
      <4>1. Manifest!Writers = {0} /\ r = 0
        BY <1>1, <3>2 DEF Manifest!Writers
      <4>2. \A i \in m.states["rng"].ids : m.artifacts[i].rank \in Manifest!Writers
        BY <1>1, <1>2, <2>1, Zenon DEF FilesShape, FileShape
      <4> QED
        BY <1>2, <2>1, <4>1, <4>2
    <3> QED
      BY <3>1, <3>2
  <2> QED
    BY <1>2, <2>1, <2>2 DEF Manifest!FilesOfRole
<1>5. ASSUME NEW s \in Manifest!Sharded, NEW i \in m.states[s].ids
      PROVE  \E j \in DOMAIN m.artifacts :
               /\ m.artifacts[j].group = m.artifacts[i].group
               /\ m.artifacts[j].count = WorldSize
               /\ m.artifacts[j].index = r
  <2> DEFINE files == m.artifacts
             shards == {j \in DOMAIN files : s \in files[j].group}
  <2>1. s \in Manifest!Roles /\ i \in DOMAIN files /\ i[1] = s
    BY <1>2, <1>5 DEF Manifest!Roles, Manifest!Sharded
  <2>7. \A j \in DOMAIN files : 
          /\ files[j].count \in Nat
          /\ files[j].group = IF j[1] \in Manifest!Sharded THEN {j[1]} ELSE {}
          /\ j = <<j[1], j[2]>> /\ j[2] \in Manifest!Writers
    BY <1>1 DEF FilesShape, FileShape
  <2>2. /\ files[i].group = {s}
        /\ \A j \in shards : files[j].group = {s} /\ j[1] = s
    <3>1. files[i].group = {s}
      BY <1>5, <2>1, <2>7, Zenon
    <3>2. ASSUME NEW j \in shards PROVE files[j].group = {s} /\ j[1] = s
      <4>1. j \in DOMAIN files /\ s \in files[j].group
        OBVIOUS
      <4> QED
        BY <2>7, <4>1, Zenon
    <3> QED
      BY <3>1, <3>2
  <2>3. i \in shards /\ s \in UNION {files[j].group : j \in DOMAIN files}
    BY <2>1, <2>2
  <2>4. PICK n \in {files[j].count : j \in shards} :
          /\ \A j \in shards : files[j].count = n
          /\ {files[j].index : j \in shards} = 0..(n - 1)
    BY <1>1, <2>3, Zenon DEF Manifest!ValidArtifacts
  <2>5. n = WorldSize
    <3>1. CASE WorldSize > 1
      <4>1. m.states[s].layout = "sharded"
        BY <1>1, <3>1 DEF Manifest!Plannable
      <4>2. files[i].count = WorldSize
        BY <1>1, <2>1, <3>1, <4>1 DEF Manifest!ValidState
      <4> QED
        BY <2>3, <2>4, <4>2
    <3>2. CASE ~(WorldSize > 1)
      <4>1. Manifest!Writers = {0}
        BY <1>1, <3>2 DEF Manifest!Writers
      <4>2. \A j \in shards : j = <<s, 0>>
        BY <2>2, <2>7, <4>1, Zenon
      <4>3. 0..(n - 1) = {files[i].index}
        BY <2>3, <2>4, <4>2
      <4>4. n \in Nat
        BY <2>4, <2>7, Zenon
      <4> HIDE DEF shards
      <4>5. 0 \in 0..(n - 1) /\ n > 0
        <5>1. files[i].index \in 0..(n - 1)
          BY <4>3
        <5> QED
          BY <4>4, <5>1
      <4>6. n > 1 => 1 \in 0..(n - 1)
        BY <4>4
      <4>7. ~(n > 1)
        BY <4>3, <4>5, <4>6
      <4> QED
        BY <1>1, <3>2, <4>4, <4>5, <4>7
    <3> QED
      BY <3>1, <3>2
  <2>6. PICK j \in shards : files[j].index = r
    BY <2>4, <2>5
  <2> QED
    BY <2>2, <2>4, <2>5, <2>6
<1> QED
  BY <1>3, <1>4, <1>5 DEF Manifest!ServesRank

-----------------------------------------------------------------------------
\* What is published can be constructed; a plan that is granted is over
\* something published, and is not kept while another save goes on.
GrantInv ==
  /\ DOMAIN cmDisk = Transactions
  /\ \A t \in Transactions :
       \/ cmDisk[t] = Manifest!Nothing
       \/ Shape(cmDisk[t]) /\ Manifest!Constructs(cmDisk[t])
  /\ cmPhase \in {"idle", "committed", "failed"} => cmWriter = "idle"
  /\ cmWriter # "idle" => cmGranted = Manifest!Nothing
  /\ cmGranted.kind \in {"none", "resume", "export"}
  /\ Manifest!GrantedIsWhole

\* What the writer publishes can be constructed.
LEMMA GrantWrite ==
  ASSUME GrantInv, Manifest!Write
  PROVE GrantInv'
<1>1. \A m \in Manifest!Publishable : Shape(m) /\ Manifest!Constructs(m)
  BY AttemptShape DEF Manifest!Publishable
<1> QED
  BY <1>1 DEF GrantInv, Manifest!Write, Manifest!GrantedIsWhole,
     Manifest!Nothing

\* A granted resume serves every rank.
LEMMA GrantResume ==
  ASSUME GrantInv, NEW t \in Transactions,
         NEW b \in Backends, NEW w \in 1..WorldSize, Manifest!PlanResume(t, b, w)
  PROVE GrantInv'
<1> DEFINE m == cmDisk[t]
<1>1. CASE Manifest!Plannable(m, b, w)
  <2>1. cmGranted' = [kind |-> "resume", from |-> t, backend |-> b, world |-> w]
    BY <1>1 DEF Manifest!PlanResume
  <2>2. ResumeShape(m) /\ Manifest!ResumeConstructs(m)
    BY DEF GrantInv, Manifest!PlanResume, Manifest!Constructs, Shape,
       ExportShape, Manifest!Nothing
  <2>3. \A r \in 0..(WorldSize - 1) : Manifest!ServesRank(m, r)
    BY <1>1, <2>2, PlannedServes
  <2>4. w = WorldSize /\ b = m.backend /\ m.states["optimizer"].keying = "canonical"
    BY <1>1, <2>2 DEF ResumeShape, Manifest!Plannable, Manifest!ResumeConstructs
  <2>5. Manifest!GrantedIsWhole'
    BY <2>1, <2>3, <2>4 DEF Manifest!GrantedIsWhole, Manifest!PlanResume
  <2> QED
    BY <2>1, <2>5 DEF GrantInv, Manifest!PlanResume
<1>2. CASE ~Manifest!Plannable(m, b, w)
  BY <1>2 DEF GrantInv, Manifest!PlanResume, Manifest!GrantedIsWhole,
     Manifest!Nothing
<1> QED
  BY <1>1, <1>2

\* Where nothing is granted there is nothing to hold.
LEMMA NothingGranted ==
  ASSUME cmGranted' = Manifest!Nothing
  PROVE  Manifest!GrantedIsWhole' /\ cmGranted'.kind = "none"
<1>1. cmGranted'.kind = "none"
  BY DEF Manifest!Nothing
<1> QED
  BY <1>1 DEF Manifest!GrantedIsWhole

\* A granted export holds weights only, all in one format.
LEMMA GrantExport ==
  ASSUME GrantInv, NEW t \in Transactions, Manifest!PlanExport(t)
  PROVE GrantInv'
<1> DEFINE m == cmDisk[t]
           weights == Manifest!FilesOfRole(m, "model_weights")
<1>1. /\ cmDisk' = cmDisk /\ cmPhase' = cmPhase /\ cmWriter' = cmWriter
      /\ cmWriter = "idle"
  BY DEF Manifest!PlanExport, GrantInv
<1>2. CASE m.status = "complete" /\ cmGranted' = [kind |-> "export", from |-> t]
  <2>1. Manifest!ExportConstructs(m)
    BY DEF GrantInv, Manifest!PlanExport, Manifest!Constructs, Shape,
       ExportShape, Manifest!Nothing
  <2>2. /\ {m.artifacts[i].role : i \in DOMAIN m.artifacts}
              \cap (Manifest!Roles \ {"model"}) = {}
        /\ m.remaining = {}
        /\ {m.artifacts[i].format : i \in weights} = {"safetensors"}
        /\ Manifest!Cardinality(weights) > 1
            => "weight_index" \in Manifest!RequiredRoles(m)
    BY <1>2, <2>1 DEF Manifest!ExportConstructs
  <2>3. {"optimizer", "rng", "data"} \cap Manifest!RequiredRoles(m) = {}
    BY <2>2 DEF Manifest!RequiredRoles, Manifest!Roles
  <2>4. "weight_index" \in Manifest!RequiredRoles(m)
          => Manifest!FilesOfRole(m, "weight_index") # {}
    BY DEF Manifest!RequiredRoles, Manifest!FilesOfRole
  <2>5. \A i, j \in weights : m.artifacts[i].format = m.artifacts[j].format
    <3> HIDE DEF weights
    <3>1. \A i \in weights : m.artifacts[i].format = "safetensors"
      BY <2>2, Zenon
    <3> QED
      BY <3>1
  <2>6. /\ cmGranted'.kind = "export" /\ cmDisk'[cmGranted'.from] = m
    BY <1>1, <1>2
  <2>7. Manifest!GrantedIsWhole'
    <3> HIDE DEF m
    <3> QED
    BY <2>2, <2>3, <2>4, <2>5, <2>6 DEF Manifest!GrantedIsWhole, weights
  <2> QED
    BY <1>1, <2>6, <2>7 DEF GrantInv
<1>3. CASE cmGranted' = Manifest!Nothing
  BY <1>1, <1>3, NothingGranted DEF GrantInv
<1> QED
  BY <1>2, <1>3 DEF Manifest!PlanExport

\* GrantedIsWhole, of a manifest and a grant.
Whole(m, granted) ==
     /\ granted.kind = "resume" =>
          /\ granted.world = WorldSize /\ granted.backend = m.backend
          /\ m.states["optimizer"].keying = "canonical"
          /\ \A r \in 0 .. granted.world - 1 : Manifest!ServesRank(m, r)
     /\ granted.kind = "export" =>
          /\ m.remaining = {}
          /\ {"optimizer", "rng", "data"} \cap Manifest!RequiredRoles(m) = {}
          /\ \A i, j \in Manifest!FilesOfRole(m, "model_weights") :
               m.artifacts[i].format = m.artifacts[j].format
          /\ Manifest!Cardinality(Manifest!FilesOfRole(m, "model_weights")) > 1 =>
               Manifest!FilesOfRole(m, "weight_index") # {}

\* A save, a failure and a restart grant nothing.
LEMMA GrantOther ==
  ASSUME GrantInv,
         \/ \E t \in Transactions : Manifest!Begin(t)
         \/ Manifest!Complete \/ Manifest!Fail \/ Manifest!Shutdown \/ Manifest!Restart
         \/ UNCHANGED ManifestVars
  PROVE GrantInv'
<1>1. CASE (\E t \in Transactions : Manifest!Begin(t)) \/ Manifest!Restart
  BY <1>1, NothingGranted DEF GrantInv, Manifest!Begin, Manifest!Restart
<1>2. CASE Manifest!Complete \/ Manifest!Fail \/ Manifest!Shutdown \/ UNCHANGED ManifestVars
  <2>1. cmDisk' = cmDisk /\ cmGranted' = cmGranted
    BY <1>2, Zenon DEF Manifest!Complete, Manifest!Fail, Manifest!Shutdown,
       ManifestVars
  <2>3. /\ Manifest!GrantedIsWhole = Whole(cmDisk[cmGranted.from], cmGranted)
        /\ Manifest!GrantedIsWhole' = Whole(cmDisk'[cmGranted'.from], cmGranted')
    BY DEF Manifest!GrantedIsWhole, Whole
  <2>2. Manifest!GrantedIsWhole' = Manifest!GrantedIsWhole
    BY <2>1, <2>3
  <2> QED
    BY <1>2, <2>1, <2>2, Zenon DEF GrantInv, Manifest!Complete, Manifest!Fail,
       Manifest!Shutdown, ManifestVars
<1> QED
  BY <1>1, <1>2

\* At first nothing is published and nothing granted.
LEMMA GrantInit ==
  ASSUME Manifest!Init
  PROVE  GrantInv
<1>1. cmGranted.kind = "none"
  BY DEF Manifest!Init, Manifest!Nothing
<1>2. Manifest!GrantedIsWhole
  BY <1>1 DEF Manifest!GrantedIsWhole
<1> QED
  BY <1>1, <1>2 DEF Manifest!Init, GrantInv

\* The invariant is inductive.
LEMMA GrantNext ==
  ASSUME GrantInv, Manifest!Next \/ UNCHANGED ManifestVars
  PROVE GrantInv'
BY GrantWrite, GrantResume, GrantExport, GrantOther DEF Manifest!Next

-----------------------------------------------------------------------------
(* LocalCheckpoint: the position, and what is restored                      *)

-----------------------------------------------------------------------------
(* Where a loader stands after n batches *)

Place(l) == <<l.passes, l.at>>
Following(p) ==
  IF p[2] < LoaderLength THEN <<p[1], p[2] + 1>> ELSE <<p[1] + 1, 1>>
StandsUpTo(f, n) ==
  /\ f[0] = <<0, LoaderLength>>
  /\ \A k \in 0..(n - 1) : f[k + 1] = Following(f[k])
After == CHOOSE f : StandsUpTo(f, MaxMicro)

\* The places of a loader exist as a function of the batches drawn.
LEMMA StandsExist == \A n \in Nat : \E f : StandsUpTo(f, n)
<1> DEFINE N == {n \in Nat : \E f : StandsUpTo(f, n)}
<1>1. 0 \in N
  <2>1. StandsUpTo([k \in 0..0 |-> <<0, LoaderLength>>], 0)
    BY DEF StandsUpTo
  <2> QED
    BY <2>1
<1>2. ASSUME NEW n \in N PROVE n + 1 \in N
  <2>1. PICK f : StandsUpTo(f, n)
    BY <1>2
  <2> DEFINE g == [k \in 0..(n + 1) |-> IF k = n + 1 THEN Following(f[n]) ELSE f[k]]
  <2>2. /\ \A k \in 0..n : g[k] = f[k]
        /\ g[n + 1] = Following(f[n])
    OBVIOUS
  <2> HIDE DEF g
  <2>3. \A k \in 0..n : g[k + 1] = Following(g[k])
    <3> TAKE k \in 0..n
    <3>1. CASE k = n
      BY <1>2, <2>2, <3>1
    <3>2. CASE k # n
      <4>1. k \in 0..(n - 1) /\ k + 1 \in 0..n
        BY <3>2
      <4> QED
        BY <2>1, <2>2, <4>1 DEF StandsUpTo
    <3> QED
      BY <3>1, <3>2
  <2>4. StandsUpTo(g, n + 1)
    BY <2>1, <2>2, <2>3 DEF StandsUpTo
  <2> QED
    BY <2>4
<1>3. Nat \subseteq N
  <2> HIDE DEF N
  <2>1. \A n \in N \cap Nat : n + 1 \in N
    BY <1>2
  <2> QED
    BY <1>1, <2>1, AllNumbers
<1> QED
  BY <1>3

\* The places of a loader, up to the bound on the micro-steps.
LEMMA Stands ==
  /\ After[0] = <<0, LoaderLength>>
         /\ \A k \in 0..(MaxMicro - 1) : After[k + 1] = Following(After[k])
<1>1. StandsUpTo(After, MaxMicro)
  BY StandsExist, EngineAssumption DEF After
<1> QED
  BY <1>1 DEF StandsUpTo

-----------------------------------------------------------------------------
IsLoader(l) == l = [gen |-> l.gen, passes |-> l.passes, at |-> l.at]

OwnedSource(source) == source[1] = "facade" /\ source[2] = "map"

\* What a checkpoint says of the session that saved it.
Payload(d) ==
  /\ d.micro \in 0..MaxMicro
  /\ IsLoader(d.live) /\ Place(d.live) = After[d.micro]
  /\ ~OwnedSource(d.source) => d.live.gen = Engine!Own
  /\ d.cursor => ~OwnedSource(d.source)

\* A resume restores what precedes `next', and only then the position.
PositionInv ==
  /\ lcPc \in {"begin", "loading", "resumed", "training", "refused",
               "unreadable"}
  /\ lcSession \in Sessions
  /\ lcInitial = IF Engine!Owned(lcSession) THEN lcSession.seed ELSE Engine!None
  /\ lcMicro \in 0..MaxMicro
  /\ lcDisk = Engine!Missing \/ Payload(lcDisk)
  /\ IsLoader(lcLoader)
  /\ ~Engine!Owned(lcSession) => lcLoader.gen = Engine!Own
  /\ lcPc = "begin" => lcMicro = 0
  /\ lcPc \in {"begin", "resumed", "training"} =>
       Place(lcLoader) = After[lcMicro]
  /\ lcPc = "loading" =>
       /\ Engine!Preflight(lcSession, lcLoading.flaw, lcDisk)
       /\ Payload(lcDisk)
       /\ lcLoading = [flaw |-> lcLoading.flaw, next |-> lcLoading.next,
                       left |-> lcLoading.left]
       /\ lcLoading.next \in 1..9
       /\ lcLoading.left \in 0..lcDisk.micro
       /\ lcLoading.left > 0 => lcLoading.next = 7
       /\ lcMicro = IF lcLoading.next > 4 THEN lcDisk.micro ELSE 0
       /\ Place(lcLoader) = After[IF lcLoading.next > 6
                                  THEN lcDisk.micro - lcLoading.left ELSE 0]
       /\ lcLoading.next > 5 /\ Engine!Owned(lcSession) =>
            lcLoader.gen = lcDisk.initial

\* Drawing a batch takes a loader to its next place, in the same order.
LEMMA Draw ==
  ASSUME NEW l, IsLoader(l), NEW n \in 0..(MaxMicro - 1),
         Place(l) = After[n]
  PROVE  LET k == Engine!Drawn(l)
         IN IsLoader(k) /\ k.gen = l.gen /\ Place(k) = After[n + 1]
<1>1. /\ IsLoader(Engine!Drawn(l)) /\ Engine!Drawn(l).gen = l.gen
      /\ Place(Engine!Drawn(l)) = Following(Place(l))
  BY Zenon DEF IsLoader, Engine!Drawn, Place, Following
<1> QED
  BY <1>1, Stands

\* A session begins before the first batch.
LEMMA PositionInit ==
  ASSUME Engine!Init
  PROVE  PositionInv
<1>1. Place(lcLoader) = After[lcMicro]
  BY Stands DEF Engine!Init, Place
<1> QED
  BY <1>1, EngineAssumption DEF Engine!Init, PositionInv, IsLoader

\* A micro-step draws one batch.
LEMMA PositionTrain ==
  ASSUME PositionInv, Engine!Train
  PROVE  PositionInv'
<1>1. lcMicro \in 0..(MaxMicro - 1) /\ lcMicro' = lcMicro + 1 /\ lcPc' = "training"
  BY EngineAssumption DEF PositionInv, Engine!Train
<1>2. IsLoader(lcLoader') /\ lcLoader'.gen = lcLoader.gen
      /\ Place(lcLoader') = After[lcMicro']
  BY <1>1, Draw DEF PositionInv, Engine!Train
<1> QED
  BY <1>1, <1>2, EngineAssumption DEF PositionInv, Engine!Train

\* A checkpoint names the place of the loader that was saved.
LEMMA PositionSave ==
  ASSUME PositionInv, Engine!Save
  PROVE  PositionInv'
<1>1. OwnedSource(lcDisk'.source) <=> Engine!Owned(lcSession)
  BY DEF Engine!Save, Engine!Payload, Engine!Source, OwnedSource, Engine!Owned,
     Engine!Mapped
<1>2. lcDisk'.cursor => ~Engine!Owned(lcSession)
  <2>1. lcDisk'.cursor = (Engine!Stateful(lcSession) /\ ~lcSession.workers)
    BY DEF Engine!Save, Engine!Payload
  <2> QED
    BY <2>1, Zenon DEF Engine!Stateful, Engine!Owned, Engine!Mapped
<1>3. Payload(lcDisk')
  BY <1>1, <1>2 DEF Payload, PositionInv, Engine!Save, Engine!Payload
<1> QED
  BY <1>3 DEF PositionInv, Engine!Save

\* A resume that is admitted starts on a loader that has drawn nothing.
LEMMA PositionResume ==
  ASSUME PositionInv, NEW flaw \in Flaws, Engine!Resume(flaw)
  PROVE  PositionInv'
<1>1. CASE lcPc' = "refused"
  BY <1>1 DEF PositionInv, Engine!Resume
<1>2. CASE lcPc' # "refused"
  <2>1. /\ lcPc' = "loading" /\ Engine!Preflight(lcSession, flaw, lcDisk)
        /\ lcLoading' = [flaw |-> flaw, next |-> 1, left |-> 0]
        /\ lcMicro = 0 /\ Payload(lcDisk) /\ Place(lcLoader) = After[0]
    BY <1>2 DEF PositionInv, Engine!Resume
  <2> QED
    BY <2>1 DEF PositionInv, Engine!Resume, Payload
<1> QED
  BY <1>1, <1>2

\* A replayed batch is one nearer to the saved place.
LEMMA PositionReplay ==
  ASSUME PositionInv, Engine!Replay
  PROVE  PositionInv'
<1> DEFINE n == lcDisk.micro - lcLoading.left
<1>1. /\ lcPc = "loading" /\ lcLoading.left \in 1..lcDisk.micro
      /\ lcLoading.next = 7 /\ lcDisk.micro \in 0..MaxMicro
      /\ n \in 0..(MaxMicro - 1) /\ Place(lcLoader) = After[n]
  BY EngineAssumption DEF PositionInv, Engine!Replay, Payload
<1>2. /\ IsLoader(lcLoader') /\ lcLoader'.gen = lcLoader.gen
      /\ Place(lcLoader') = After[n + 1]
  BY <1>1, Draw DEF PositionInv, Engine!Replay
<1>3. /\ lcLoading' = [flaw |-> lcLoading.flaw, next |-> 7,
                       left |-> lcLoading.left - 1]
      /\ n + 1 = lcDisk.micro - (lcLoading.left - 1)
  BY <1>1, EngineAssumption DEF PositionInv, Engine!Replay
<1> QED
  BY <1>1, <1>2, <1>3 DEF PositionInv, Engine!Replay

\* The sections of a checkpoint and their order.
LEMMA Sections ==
  /\ Engine!Components = {"model", "optimizer", "scheduler", "trainer",
                          "generator", "data", "cpu", "cuda", "runtime"}
  /\ \A i \in 1..9 :
       /\ Engine!Section(i) = CASE i = 1 -> "model" [] i = 2 -> "optimizer"
            [] i = 3 -> "scheduler" [] i = 4 -> "trainer" [] i = 5 -> "generator"
            [] i = 6 -> "data" [] i = 7 -> "cpu" [] i = 8 -> "cuda"
            [] i = 9 -> "runtime"
BY DEF Engine!Components, Engine!Section, Engine!Order

\* Restoring one section: only the generator and the cursor move the loader.
LEMMA PositionLoad ==
  ASSUME PositionInv, Engine!Load
  PROVE  PositionInv'
<1> DEFINE i == lcLoading.next
           section == Engine!Section(i)
           how == Engine!How(lcLoading.flaw, section)
<1>1. CASE Engine!Raises(section, how)
  BY <1>1 DEF PositionInv, Engine!Load
<1>2. CASE ~Engine!Raises(section, how)
  <2>1. /\ lcPc = "loading" /\ lcLoading.left = 0 /\ i \in 1..9
        /\ Engine!Preflight(lcSession, lcLoading.flaw, lcDisk) /\ Payload(lcDisk)
        /\ lcDisk' = lcDisk /\ lcSession' = lcSession /\ lcInitial' = lcInitial
    BY DEF Engine!Load, PositionInv
  <2>2. /\ lcMicro' = IF section = "trainer" THEN lcDisk.micro ELSE lcMicro
        /\ lcLoader' =
             CASE section = "generator" /\ Engine!Present(section, how) ->
                         [lcLoader EXCEPT !.gen = lcDisk.initial, !.passes = 0,
                                        !.at = LoaderLength]
                    [] section = "data" /\ Engine!Cursor(how) -> lcDisk.live
                    [] OTHER -> lcLoader
        /\ lcLoading' = [flaw |-> lcLoading.flaw, next |-> i + 1, 
             left |-> IF section = "data" /\ ~Engine!Cursor(how) THEN lcMicro
                           ELSE 0]
        /\ lcPc' = IF section = "runtime" THEN "resumed" ELSE lcPc
    <3>1. lcLoading' = [lcLoading EXCEPT
                  !.next = @ + 1,
                  !.left = IF section = "data" /\ ~Engine!Cursor(how) THEN lcMicro
                           ELSE 0]
      BY <1>2 DEF Engine!Load
    <3>2. lcLoading = [flaw |-> lcLoading.flaw, next |-> lcLoading.next,
                       left |-> lcLoading.left]
      BY <2>1 DEF PositionInv
    <3> QED
      BY <1>2, <3>1, <3>2, Zenon DEF Engine!Load
  <2>3. Engine!Owned(lcSession) => lcInitial # Engine!None
    BY EngineAssumption DEF PositionInv, Engine!None
  <2>4. CASE i \in {1, 2, 3, 4, 7, 8}
    <3>1. section \notin {"generator", "data", "runtime"} /\ (section = "trainer" <=> i = 4)
      BY <2>4, Sections
    <3> HIDE DEF section, how
    <3>2. /\ lcLoader' = lcLoader /\ lcPc' = "loading"
          /\ lcLoading' = [flaw |-> lcLoading.flaw, next |-> i + 1, left |-> 0]
      BY <2>1, <2>2, <3>1
    <3>3. lcMicro' = IF i + 1 > 4 THEN lcDisk.micro ELSE 0
      BY <2>1, <2>2, <2>4, <3>1 DEF PositionInv
    <3>4. Place(lcLoader) = After[IF i + 1 > 6 THEN lcDisk.micro - 0 ELSE 0]
      BY <2>1, <2>4 DEF PositionInv
    <3>5. i + 1 > 5 /\ Engine!Owned(lcSession) => lcLoader.gen = lcDisk.initial
      BY <2>1, <2>4 DEF PositionInv
    <3>6. i + 1 \in 1..9 /\ 0 \in 0..lcDisk.micro /\ lcMicro' \in 0..MaxMicro
      BY <2>1, <2>4, <3>3, EngineAssumption DEF Payload
    <3> HIDE DEF i
    <3> QED
      BY <2>1, <3>2, <3>3, <3>4, <3>5, <3>6 DEF PositionInv
  <2>5. CASE i = 5
    <3>1. section = "generator"
      BY <2>5, Sections
    <3>2. Engine!Owned(lcSession) => Engine!Present(section, how)
      BY <2>1, <2>3, <3>1 DEF Engine!Present, Engine!Preflight,
         Engine!AdmitsGenerator, Engine!Owned, Engine!Random
    <3>3. Engine!Present(section, how) => Engine!Owned(lcSession)
      BY <3>1 DEF Engine!Present, PositionInv
    <3>4. /\ lcPc' = "loading" /\ lcMicro' = lcDisk.micro
          /\ lcLoading' = [flaw |-> lcLoading.flaw, next |-> 6, left |-> 0]
          /\ lcLoader' = IF Engine!Owned(lcSession)
               THEN [lcLoader EXCEPT !.gen = lcDisk.initial, !.passes = 0,
                                     !.at = LoaderLength]
               ELSE lcLoader
          /\ lcMicro = lcDisk.micro /\ Place(lcLoader) = After[0]
      <4> HIDE DEF how
      <4> QED
        BY <2>1, <2>2, <2>5, <3>1, <3>2, <3>3 DEF PositionInv
    <3>5. /\ IsLoader(lcLoader') /\ Place(lcLoader') = After[0]
          /\ Engine!Owned(lcSession) => lcLoader'.gen = lcDisk.initial
          /\ ~Engine!Owned(lcSession) => lcLoader'.gen = Engine!Own
      BY <3>4, Stands, Zenon DEF PositionInv, IsLoader, Place
    <3>6. 0 \in 0..lcDisk.micro
      BY <2>1 DEF Payload
    <3> HIDE DEF i
    <3> QED
      BY <2>1, <3>4, <3>5, <3>6 DEF PositionInv
  <2>6. CASE i = 6
    <3>1. section = "data"
      BY <2>6, Sections
    <3>2. Engine!Cursor(how) => ~Engine!Owned(lcSession) /\ lcDisk.live.gen = Engine!Own
      BY <2>1, <3>1 DEF Engine!Cursor, Engine!Preflight, Engine!AdmitsCursor,
         Payload, Engine!Owned, Engine!Stateful, Engine!Mapped
    <3>3. /\ lcPc' = "loading" /\ lcMicro' = lcDisk.micro
          /\ lcMicro = lcDisk.micro
          /\ lcLoading' = [flaw |-> lcLoading.flaw, next |-> 7,
                 left |-> IF Engine!Cursor(how) THEN 0 ELSE lcDisk.micro]
          /\ lcLoader' = IF Engine!Cursor(how) THEN lcDisk.live ELSE lcLoader
          /\ Place(lcLoader) = After[0]
          /\ Engine!Owned(lcSession) => lcLoader.gen = lcDisk.initial
      <4> HIDE DEF how
      <4> QED
        BY <2>1, <2>2, <2>6, <3>1 DEF PositionInv
    <3> HIDE DEF how
    <3>4. /\ IsLoader(lcLoader')
          /\ Place(lcLoader') = After[lcDisk.micro - lcLoading'.left]
          /\ Engine!Owned(lcSession) => lcLoader'.gen = lcDisk.initial
          /\ ~Engine!Owned(lcSession) => lcLoader'.gen = Engine!Own
          /\ lcLoading'.left \in 0..lcDisk.micro
      BY <2>1, <3>2, <3>3 DEF PositionInv, Payload
    <3> HIDE DEF i
    <3> QED
      BY <2>1, <3>3, <3>4 DEF PositionInv
  <2>7. CASE i = 9
    <3>1. section = "runtime"
      BY <2>7, Sections
    <3>2. /\ lcPc' = "resumed" /\ lcMicro' = lcMicro /\ lcLoader' = lcLoader
          /\ lcMicro = lcDisk.micro /\ Place(lcLoader) = After[lcMicro]
      <4> HIDE DEF how
      <4> QED
        BY <2>1, <2>2, <2>7, <3>1 DEF PositionInv, Payload
    <3> QED
      BY <2>1, <3>2 DEF PositionInv
  <2> QED
    BY <2>1, <2>4, <2>5, <2>6, <2>7
<1> QED
  BY <1>1, <1>2

\* A new session has a loader of its own at its first place.
LEMMA PositionSession ==
  ASSUME PositionInv, Engine!NextSession
  PROVE  PositionInv'
<1>1. PICK s \in Sessions : Engine!Begin(s) /\ lcDisk' = lcDisk
  BY DEF Engine!NextSession
<1>2. /\ lcSession' = s /\ lcMicro' = 0 /\ lcPc' = "begin"
      /\ lcLoader' = [gen |-> IF Engine!Owned(s) THEN s.seed ELSE Engine!Own, passes |-> 0,
                      at |-> LoaderLength]
      /\ lcInitial' = IF Engine!Owned(s) THEN s.seed ELSE Engine!None
  BY <1>1 DEF Engine!Begin
<1>3. Place(lcLoader') = After[0] /\ IsLoader(lcLoader')
  BY <1>2, Stands DEF Place, IsLoader
<1> QED
  BY <1>1, <1>2, <1>3, EngineAssumption DEF PositionInv

\* The invariant is inductive.
LEMMA PositionNext ==
  ASSUME PositionInv, Engine!Next \/ UNCHANGED EngineVars
  PROVE  PositionInv'
<1>1. CASE UNCHANGED EngineVars
  BY <1>1 DEF PositionInv, EngineVars
<1>2. CASE Engine!Unreadable
  BY <1>2 DEF PositionInv, Engine!Unreadable
<1> QED
  BY <1>1, <1>2, PositionTrain, PositionSave, PositionLoad, PositionReplay,
     PositionSession, PositionResume DEF Engine!Next

\* ReplayIsExact: a loader at the place of the saved one, in the same order,
\* is the saved one.
LEMMA PositionExact ==
  ASSUME PositionInv
  PROVE  Engine!ReplayIsExact
<1> SUFFICES ASSUME Engine!Positioned, lcDisk.source = Engine!Source(lcSession),
                    lcDisk.initial = lcDisk.live.gen
             PROVE  lcLoader = lcDisk.live
  BY DEF Engine!ReplayIsExact
<1>1. /\ lcPc = "loading" /\ lcLoading.next > 6 /\ lcLoading.left = 0
      /\ Payload(lcDisk) /\ IsLoader(lcLoader)
  BY DEF Engine!Positioned, PositionInv
<1>2. Place(lcLoader) = Place(lcDisk.live)
  BY <1>1 DEF PositionInv, Payload
<1>3. Engine!Owned(lcSession) <=> OwnedSource(lcDisk.source)
  BY DEF Engine!Source, OwnedSource, Engine!Owned, Engine!Mapped
<1>4. lcLoader.gen = lcDisk.live.gen
  BY <1>1, <1>3 DEF PositionInv, Payload
<1> QED
  BY <1>1, <1>2, <1>4 DEF IsLoader, Payload, Place

\* What the preflight lets through does not raise before the sections it
\* leaves to the code that loads them, and holds what was saved.
LEMMA AdmittedLoads ==
  ASSUME NEW flaw, NEW c \in Engine!Components,
         Engine!Preflight(lcSession, flaw, lcDisk),
         Engine!Raises(c, Engine!How(flaw, c))
  PROVE  flaw[1] \in Engine!LateSections /\ c # "model"
<1> DEFINE how == Engine!How(flaw, c)
<1>1. c \notin {"model", "cpu"}
  BY DEF Engine!Preflight, Engine!AdmitsModel, Engine!AdmitsRandomStates,
     Engine!Raises
<1>2. c # "optimizer"
  <2> SUFFICES ASSUME c = "optimizer" PROVE FALSE
    OBVIOUS
  <2>1. /\ how \notin {"absent", "malformed"}
        /\ Engine!AdmitsOptimizer(Engine!OptimizerSection(how, lcDisk.micro))
    BY DEF Engine!Preflight
  <2>2. how \in {"merged", "longer"}
    BY <2>1 DEF Engine!Raises
  <2>3. CASE how = "merged"
    <3>1. Engine!OptimizerSection(how, lcDisk.micro).groups = <<<<1, 2>>>>
      BY <2>3 DEF Engine!OptimizerSection
    <3> QED
      BY <2>1, <3>1 DEF Engine!AdmitsOptimizer, Engine!Names
  <2>4. CASE how = "longer"
    <3>1. Engine!OptimizerSection(how, lcDisk.micro).groups[2] = <<2, 3>>
      BY <2>4 DEF Engine!OptimizerSection, Engine!Groups, Engine!Names
    <3> QED
      BY <2>1, <3>1 DEF Engine!AdmitsOptimizer, Engine!Names, Engine!Groups
  <2> QED
    BY <2>2, <2>3, <2>4
<1>3. c \in {"cuda", "runtime", "data"} /\ how # "good"
  BY <1>1, <1>2, Sections DEF Engine!Raises
<1> QED
  BY <1>3 DEF Engine!How, Engine!LateSections

\* An optimizer section that is admitted restores the shapes and the steps
\* that were saved.
LEMMA OptimizerSound ==
  ASSUME NEW how, NEW m \in Nat, Engine!AdmitsOptimizer(Engine!OptimizerSection(how, m))
  PROVE  LET o == Engine!OptimizerSection(how, m)
         IN \A g \in Engine!Groups : o.groups[g][1] \in DOMAIN o.slots =>
              /\ o.slots[o.groups[g][1]].shape = Engine!Shapes[g]
              /\ o.slots[o.groups[g][1]].step = m
<1> DEFINE o == Engine!OptimizerSection(how, m)
<1>1. Engine!Groups = {1, 2} /\ Engine!Shapes[1] = 2 /\ Engine!Shapes[2] = 1
  BY DEF Engine!Groups, Engine!Names, Engine!Shapes
<1>2. \A id \in DOMAIN o.slots : o.slots[id].step \in {m, -1}
  BY <1>1 DEF Engine!OptimizerSection
<1> HIDE DEF o
<1>3. \A g \in Engine!Groups : o.groups[g][1] \in DOMAIN o.slots =>
        /\ o.slots[o.groups[g][1]].shape = Engine!Shapes[g]
        /\ o.slots[o.groups[g][1]].step >= 0
  BY DEF Engine!AdmitsOptimizer, o
<1> QED
  BY <1>2, <1>3 DEF o

\* A scheduler section that is admitted is the one that was saved.
LEMMA SchedulerSound ==
  ASSUME NEW how, NEW m \in Nat, Engine!AdmitsScheduler(Engine!SchedulerSection(how, m))
  PROVE  Engine!SchedulerSection(how, m) = Engine!SchedulerSection("good", m)
<1>1. CASE how = "fields"
  BY <1>1 DEF Engine!SchedulerSection, Engine!AdmitsScheduler
<1>2. CASE how \in {"rates", "count", "epoch", "phases", "horizon"}
  BY <1>2 DEF Engine!SchedulerSection, Engine!AdmitsScheduler, Engine!Names
<1>3. CASE how \notin {"fields", "rates", "count", "epoch", "phases", "horizon"}
  BY <1>3 DEF Engine!SchedulerSection
<1> QED
  BY <1>1, <1>2, <1>3

\* A trainer section that is admitted is the one that was saved.
LEMMA TrainerSound ==
  ASSUME NEW how, NEW m \in Nat, Engine!AdmitsTrainer(Engine!TrainerSection(how, m))
  PROVE  Engine!TrainerSection(how, m) = Engine!TrainerSection("good", m)
<1>1. CASE how \in {"fields", "uncounted"}
  BY <1>1 DEF Engine!TrainerSection, Engine!AdmitsTrainer
<1>2. CASE how \in {"negative", "tokens"}
  BY <1>2 DEF Engine!TrainerSection, Engine!AdmitsTrainer
<1>3. CASE how \notin {"fields", "uncounted", "negative", "tokens"}
  BY <1>3 DEF Engine!TrainerSection
<1> QED
  BY <1>1, <1>2, <1>3

\* Every section that the preflight admits is sound.
LEMMA AdmittedSound ==
  ASSUME NEW flaw, NEW c \in Engine!Components, Payload(lcDisk),
         Engine!Preflight(lcSession, flaw, lcDisk)
  PROVE  Engine!Sound(c, Engine!How(flaw, c))
<1>1. lcDisk.micro \in Nat
  BY EngineAssumption DEF Payload
<1> QED
  BY <1>1, OptimizerSound, SchedulerSound, TrainerSound DEF Engine!Sound,
     Engine!Preflight

\* What a resume has restored so far, and what a refused one has left.
RestoredInv ==
  /\ DOMAIN lcEngine = Engine!Components
  /\ lcPc = "begin" => Engine!Untouched
  /\ lcPc = "loading" =>
       \A i \in 1..(lcLoading.next - 1) :
         Engine!Present(Engine!Section(i), Engine!How(lcLoading.flaw, Engine!Section(i)))
           => lcEngine[Engine!Section(i)] = "saved"
  /\ Engine!ResumeAllOrNothing

\* Restoring one section, or raising in one that may still fail so late.
LEMMA RestoredLoad ==
  ASSUME PositionInv, RestoredInv, Engine!Load
  PROVE  RestoredInv'
<1> DEFINE i == lcLoading.next
           section == Engine!Section(i)
           how == Engine!How(lcLoading.flaw, section)
           Has(c) == Engine!Present(c, Engine!How(lcLoading.flaw, c))
<1>1. /\ lcPc = "loading" /\ i \in 1..9
      /\ Engine!Preflight(lcSession, lcLoading.flaw, lcDisk) /\ Payload(lcDisk)
      /\ section \in Engine!Components
      /\ lcDisk' = lcDisk /\ lcSession' = lcSession /\ lcInitial' = lcInitial
      /\ lcLoading'.flaw = lcLoading.flaw
  <2>1. /\ lcPc = "loading" /\ i \in 1..9
        /\ Engine!Preflight(lcSession, lcLoading.flaw, lcDisk) /\ Payload(lcDisk)
        /\ lcDisk' = lcDisk /\ lcSession' = lcSession /\ lcInitial' = lcInitial
        /\ lcLoading = [flaw |-> lcLoading.flaw, next |-> lcLoading.next,
                        left |-> lcLoading.left]
    BY DEF Engine!Load, PositionInv
  <2>2. lcLoading' = lcLoading \/ \E n, l : lcLoading' = [lcLoading EXCEPT !.next = n, !.left = l]
    BY Zenon DEF Engine!Load
  <2>3. lcLoading'.flaw = lcLoading.flaw
    BY <2>1, <2>2, Zenon
  <2>4. section \in Engine!Components
    BY <2>1, Sections
  <2> QED
    BY <2>1, <2>3, <2>4
<1>2. CASE Engine!Raises(section, how)
  <2>1. lcLoading.flaw[1] \in Engine!LateSections /\ section # "model"
    BY <1>1, <1>2, AdmittedLoads
  <2> QED
    BY <1>1, <1>2, <2>1 DEF RestoredInv, Engine!Load, Engine!ResumeAllOrNothing
<1>3. CASE ~Engine!Raises(section, how)
  <2>1. Engine!Sound(section, how)
    BY <1>1, AdmittedSound
  <2>2. /\ lcEngine' = [lcEngine EXCEPT ![section] = Engine!Restored(section, how)]
        /\ lcLoading'.next = i + 1
        /\ lcPc' = IF section = "runtime" THEN "resumed" ELSE "loading"
    BY <1>1, <1>3, Zenon DEF Engine!Load, PositionInv
  <2>3. Has(section) => lcEngine'[section] = "saved"
    BY <1>1, <2>1, <2>2 DEF Engine!Restored, RestoredInv
  <2>4. \A j \in 1..(i - 1) : Engine!Section(j) # section
    BY <1>1, Sections
  <2>5. \A j \in 1..i : Has(Engine!Section(j)) => lcEngine'[Engine!Section(j)] = "saved"
    <3> HIDE DEF Has, how
    <3>1. \A j \in 1..(i - 1) : Has(Engine!Section(j)) => lcEngine[Engine!Section(j)] = "saved"
      BY <1>1 DEF RestoredInv, Has
    <3> HIDE DEF section
    <3>2. ASSUME NEW j \in 1..(i - 1), Has(Engine!Section(j)) 
          PROVE  lcEngine'[Engine!Section(j)] = "saved"
      BY <2>2, <2>4, <3>1, <3>2, Sections DEF RestoredInv
    <3>3. \A j \in 1..i : j \in 1..(i - 1) \/ j = i
      BY <1>1
    <3> QED
      BY <2>3, <3>2, <3>3 DEF section
  <2>6. \A c : Engine!Present(c, Engine!How(lcLoading.flaw, c))' <=> Has(c)
    BY <1>1 DEF Engine!Present
  <2>7. section = "runtime" <=> i = 9
    BY <1>1, Sections
  <2>8. lcPc' = "resumed" => \A c \in Engine!Components : Has(c) => lcEngine'[c] = "saved"
    <3> SUFFICES ASSUME i = 9, NEW c \in Engine!Components
                 PROVE  Has(c) => lcEngine'[c] = "saved"
      BY <2>2, <2>7
    <3>1. \E j \in 1..9 : c = Engine!Section(j)
      BY Sections
    <3> QED
      BY <2>5, <3>1
  <2> QED
    BY <1>1, <2>2, <2>5, <2>6, <2>7, <2>8 DEF RestoredInv,
       Engine!ResumeAllOrNothing
<1> QED
  BY <1>2, <1>3

\* Nothing else undoes what was restored, or does half of it.
LEMMA RestoredOther ==
  ASSUME PositionInv, RestoredInv,
         \/ Engine!Train \/ Engine!Save \/ Engine!Replay \/ Engine!Unreadable
         \/ Engine!NextSession
         \/ \E flaw \in Flaws : Engine!Resume(flaw)
         \/ UNCHANGED EngineVars
  PROVE  RestoredInv'
<1>1. CASE Engine!Train \/ Engine!Save
  BY <1>1 DEF RestoredInv, Engine!Train, Engine!Save, Engine!ResumeAllOrNothing
<1>2. CASE Engine!Replay
  <2>1. /\ lcPc = "loading" /\ lcPc' = "loading" /\ lcLoading'.next = 7 /\ lcLoading.next = 7
        /\ lcLoading'.flaw = lcLoading.flaw
        /\ UNCHANGED <<lcSession, lcInitial, lcDisk>>
        /\ \A j \in 1..6 : lcEngine'[Engine!Section(j)] = lcEngine[Engine!Section(j)]
        /\ DOMAIN lcEngine' = Engine!Components
    BY <1>2, Sections, EngineAssumption DEF Engine!Replay, Engine!Disturbed,
       PositionInv, Payload
  <2> QED
    BY <2>1 DEF RestoredInv, Engine!ResumeAllOrNothing, Engine!Present
<1>3. CASE Engine!NextSession
  BY <1>3 DEF RestoredInv, Engine!NextSession, Engine!Begin,
     Engine!ResumeAllOrNothing, Engine!Untouched
<1>4. CASE \E flaw \in Flaws : Engine!Resume(flaw)
  BY <1>4 DEF RestoredInv, Engine!Resume, Engine!ResumeAllOrNothing,
     Engine!Untouched
<1>5. CASE UNCHANGED EngineVars
  BY <1>5 DEF RestoredInv, EngineVars, Engine!ResumeAllOrNothing,
     Engine!Untouched, Engine!Present
<1>6. CASE Engine!Unreadable
  BY <1>6 DEF RestoredInv, Engine!Unreadable, Engine!Disturbed,
     Engine!ResumeAllOrNothing
<1> QED
  BY <1>1, <1>2, <1>3, <1>4, <1>5, <1>6

\* At first the engine is untouched.
LEMMA RestoredInit ==
  ASSUME Engine!Init
  PROVE  RestoredInv
BY DEF RestoredInv, Engine!Init, Engine!ResumeAllOrNothing, Engine!Untouched

-----------------------------------------------------------------------------
(* TrainingRequest: from the arguments to the worker                        *)

RequestInv ==
  /\ rqStage \in {"idle", "arguments", "facade", "request", "worker", "training",
                  "refused"}
  /\ rqStage = "idle" => rqArgs = Request!NoArguments
  /\ rqStage # "idle" => rqArgs \in Request!Arguments
  /\ rqStage \in {"idle", "arguments", "facade", "request"} =>
       rqOptions = Request!Nothing
  /\ rqStage = "facade" => Request!Supported(rqArgs)
  /\ rqStage \in {"request", "worker"} => 
       /\ rqArgs.accelerator = "tpu" /\ rqArgs.precision # "fp16"
       /\ (rqArgs.eval_data = "none") = (rqArgs.eval_steps = "none")
       /\ rqArgs.max_eval_batches # "none" => rqArgs.eval_data # "none"
  /\ rqStage = "worker" => rqOptions = Request!Asked(rqArgs)
  /\ rqStage = "training" /\ rqArgs.accelerator = "tpu" =>
       rqOptions = Request!Asked(rqArgs) /\ rqHorizon \in {0, MaxSteps}
  /\ rqStage = "refused" /\ rqOptions # Request!Nothing =>
       rqArgs.sequence_length = "one"

Options == Request!Always \union Request!IfSet

\* What goes over the command line is what was asked for.
LEMMA CommandCarries ==
  ASSUME NEW a \in Request!Arguments
  PROVE  Request!Parsed(Request!Command(a)) = Request!Asked(a)
<1> DEFINE c == Request!Command(a)
           said(o) == o \in Request!Always \/ (o \in Request!IfSet /\ a[o] # "none")
<1>1. \A o \in Options : o \in Request!IfSet => Request!Asked(a)[o] = a[o]
  BY DEF Options, Request!Asked, Request!IfSet
<1>2. ASSUME NEW p \in c PROVE said(p[1]) /\ p = <<p[1], Request!Asked(a)[p[1]]>>
  BY <1>1 DEF Request!Command, Options, Request!none
<1>3. ASSUME NEW o \in Options, said(o) PROVE <<o, Request!Asked(a)[o]>> \in c
  BY <1>1, <1>3 DEF Request!Command, Options, Request!none
<1> HIDE DEF c
<1>4. ASSUME NEW o \in Options
      PROVE  (IF \E v \in {p[2] : p \in {q \in c : q[1] = o}} : TRUE
              THEN (CHOOSE p \in c : p[1] = o)[2] ELSE Request!ParserDefault(o))
               = Request!Asked(a)[o]
  <2>1. CASE said(o)
    <3>1. \E p \in c : p[1] = o
      BY <1>3, <2>1, Zenon
    <3>2. (CHOOSE p \in c : p[1] = o) = <<o, Request!Asked(a)[o]>>
      BY <1>2, <3>1
    <3>3. \E v \in {p[2] : p \in {q \in c : q[1] = o}} : TRUE
      BY <3>1
    <3> DEFINE w == CHOOSE p \in c : p[1] = o
    <3>5. w = <<o, Request!Asked(a)[o]>>
      BY <3>2
    <3> HIDE DEF w
    <3>6. w[2] = Request!Asked(a)[o]
      BY <3>5
    <3>4. (CHOOSE p \in c : p[1] = o)[2] = Request!Asked(a)[o]
      BY <3>6 DEF w
    <3> QED
      BY <3>3, <3>4, Zenon
  <2>2. CASE ~said(o)
    <3>1. ~\E p \in c : p[1] = o
      BY <1>2, <2>2
    <3>2. Request!ParserDefault(o) = "none" /\ Request!Asked(a)[o] = "none"
      BY <1>1, <2>2 DEF Options, Request!ParserDefault, Request!IfSet,
         Request!Always, Request!none
    <3> QED
      BY <3>1, <3>2
  <2> QED
    BY <2>1, <2>2
<1>5. Request!Asked(a) = [o \in Options |-> Request!Asked(a)[o]]
  BY DEF Request!Asked, Options
<1>6. Request!Parsed(c) = [o \in Options |->
        IF \E v \in {p[2] : p \in {q \in c : q[1] = o}} : TRUE
        THEN (CHOOSE p \in c : p[1] = o)[2] ELSE Request!ParserDefault(o)]
  BY DEF Request!Parsed, Options
<1> QED
  BY <1>4, <1>5, <1>6 DEF c

\* The launch hands the worker what was asked, or is refused for a reason.
LEMMA LaunchedAsAsked ==
  ASSUME RequestInv, Request!Launch
  PROVE  RequestInv'
<1>1. /\ rqStage = "request" /\ rqArgs \in Request!Arguments
      /\ rqArgs' = rqArgs
      /\ rqArgs.accelerator = "tpu" /\ rqArgs.precision # "fp16"
      /\ (rqArgs.eval_data = "none") = (rqArgs.eval_steps = "none")
      /\ rqArgs.max_eval_batches # "none" => rqArgs.eval_data # "none"
  BY DEF RequestInv, Request!Launch
<1>2. rqOptions' = Request!Asked(rqArgs)
  BY <1>1, CommandCarries DEF Request!Launch
<1>3. /\ rqOptions'["sequence_length"] = rqArgs.sequence_length
      /\ rqOptions'["eval_data"] = rqArgs.eval_data
      /\ rqOptions'["eval_steps"] = rqArgs.eval_steps
      /\ rqOptions'["max_eval_batches"] = rqArgs.max_eval_batches
      /\ rqOptions'["precision"] = rqArgs.precision
  BY <1>2 DEF Request!Asked, Request!Always, Request!IfSet
<1>4. rqArgs.precision \in {"fp32", "bf16"}
  BY <1>1 DEF Request!Arguments, Request!Precisions
<1>5. rqArgs.sequence_length # "one" => Request!Acceptable(rqOptions')
  BY <1>1, <1>3, <1>4 DEF Request!Acceptable, Request!none
<1>6. rqStage' \in {"worker", "refused"}
      /\ (rqStage' = "refused" => rqArgs.sequence_length = "one")
  BY <1>5 DEF Request!Launch
<1> QED
  BY <1>1, <1>2, <1>6 DEF RequestInv

\* The invariant is inductive.
LEMMA RequestNext ==
  ASSUME RequestInv, Request!Next \/ UNCHANGED RequestVars
  PROVE  RequestInv'
<1>1. CASE Request!MakeArguments
  BY <1>1 DEF RequestInv, Request!MakeArguments
<1>2. CASE Request!Construct
  BY <1>2 DEF RequestInv, Request!Construct, Request!Pass, Request!Refuse
<1>3. CASE Request!LocalEngine
  <2>1. rqArgs \in Request!Arguments /\ rqArgs' = rqArgs /\ rqStage' = "training"
        /\ rqArgs.accelerator # "tpu"
    BY <1>3 DEF RequestInv, Request!LocalEngine
  <2> QED
    BY <2>1 DEF RequestInv
<1>4. CASE Request!Request
  BY <1>4 DEF RequestInv, Request!Request, Request!Pass, Request!Refuse,
     Request!Supported, Request!none
<1>5. CASE Request!Configure
  BY <1>5 DEF RequestInv, Request!Configure
<1>6. CASE UNCHANGED RequestVars
  BY <1>6 DEF RequestInv, RequestVars
<1> QED
  BY <1>1, <1>2, <1>3, <1>4, <1>5, <1>6, LaunchedAsAsked DEF Request!Next

\* At first nothing was asked.
LEMMA RequestInit ==
  ASSUME Request!Init
  PROVE  RequestInv
BY DEF RequestInv, Request!Init

\* TrainsAsAsked: what trains has the options that were asked for.
LEMMA RequestAsked ==
  ASSUME RequestInv
  PROVE  Request!TrainsAsAsked
<1>1. rqArgs # Request!NoArguments => rqStage # "idle"
  BY DEF RequestInv
<1> QED
  BY <1>1 DEF RequestInv, Request!TrainsAsAsked

-----------------------------------------------------------------------------
(* ModelTransforms: the plan and its transaction                            *)

-----------------------------------------------------------------------------
(* The first of a collection *)

\* Every finite collection has a first, by priority and then by order.
LEMMA FirstExists ==
  ASSUME NEW S, IsFiniteSet(S), S # {},
         \A x \in S : x.priority \in Int /\ x.order \in Int
  PROVE  Planner!First(S) \in S
<1> DEFINE Before(y, x) == Planner!Ahead(y, x)
<1>0. PICK n \in Nat : ExistsSurjection(1..n, S)
  BY FS_NatSurjection
<1>1. PICK f : f \in Surjection(1..n, S)
  BY <1>0 DEF ExistsSurjection
<1>2. f \in [1..n -> S] /\ \A x \in S : \E i \in 1..n : f[i] = x
  BY <1>1 DEF Surjection
<1>3. n > 0
  BY <1>0, <1>2
<1>4. \A x, y, z \in S : Before(x, y) /\ Before(y, z) => Before(x, z)
  BY DEF Planner!Ahead
<1>5. \A x \in S : ~Before(x, x)
  BY DEF Planner!Ahead
<1> HIDE DEF Before
<1> DEFINE N == {k \in Nat : k < n =>
                   \E i \in 1..(k + 1) : \A j \in 1..(k + 1) : ~Before(f[j], f[i])}
<1>6. 0 \in N
  BY <1>2, <1>3, <1>5
<1>7. ASSUME NEW k \in N PROVE k + 1 \in N
  <2> SUFFICES ASSUME k + 1 < n
               PROVE  \E i \in 1..(k + 2) : \A j \in 1..(k + 2) : ~Before(f[j], f[i])
    BY <1>7
  <2>1. k \in Nat /\ k < n
    BY <1>7, <1>0
  <2>2. PICK i \in 1..(k + 1) : \A j \in 1..(k + 1) : ~Before(f[j], f[i])
    BY <1>7, <2>1
  <2>3. \A j \in 1..(k + 2) : f[j] \in S /\ (j \in 1..(k + 1) \/ j = k + 2)
    BY <1>0, <1>2, <2>1
  <2>4. k + 2 \in 1..(k + 2) /\ i \in 1..(k + 2)
    BY <2>1
  <2>5. CASE Before(f[k + 2], f[i])
    <3>1. \A j \in 1..(k + 2) : ~Before(f[j], f[k + 2])
      BY <1>4, <1>5, <2>2, <2>3, <2>4, <2>5
    <3> QED
      BY <2>4, <3>1
  <2>6. CASE ~Before(f[k + 2], f[i])
    BY <2>2, <2>3, <2>4, <2>6
  <2> QED
    BY <2>5, <2>6
<1>8. n - 1 \in N
  <2>1. Nat \subseteq N
    <3> HIDE DEF N
    <3> QED
      BY <1>6, <1>7, AllNumbers
  <2>2. n - 1 \in Nat
    BY <1>0, <1>3
  <2> HIDE DEF N
  <2> QED
    BY <2>1, <2>2
<1>9. \E x \in S : \A y \in S : ~Before(y, x)
  <2>1. PICK i \in 1..n : \A j \in 1..n : ~Before(f[j], f[i])
    BY <1>0, <1>3, <1>8
  <2> QED
    BY <1>2, <2>1
<1> QED
  BY <1>9 DEF Planner!First, Before

-----------------------------------------------------------------------------
(* What the planner makes *)

\* A plan is a sequence of transforms; the required policy and the disabled
\* one are in its decisions.
PlanFacts(p) ==
  /\ p.transforms \in Seq(DOMAIN Transforms)
  /\ p.policy = "disabled" => p.transforms = <<>>
  /\ p.policy = "required" /\ p.status # "blocked" =>
       \A i \in DOMAIN p.decisions : p.decisions[i].status = "selected"

\* A decision under the required and under the disabled policy.
LEMMA DecisionFacts ==
  ASSUME NEW ps \in ProviderSets, NEW r, NEW m, NEW env,
         NEW policy \in {"disabled", "auto", "required"}
  PROVE  LET d == Planner!Decision(ps, r, m, env, policy)
         IN /\ d.transforms \in Seq(DOMAIN Transforms)
            /\ policy = "disabled" => d.status = "skipped"
            /\ policy = "required" => d.status \in {"blocked", "selected"}
<1> DEFINE choice == Planner!Choice(ps, r, m, env, policy)
           chosen == Planner!First(choice)
           d == Planner!Decision(ps, r, m, env, policy)
<1>1. choice \subseteq ps
  BY DEF Planner!Choice, Planner!Candidates
<1>2. choice # {} => chosen \in choice
  <2>1. IsFiniteSet(choice)
    BY <1>1, FS_Subset, PlannerAssumption
  <2> HIDE DEF choice
  <2> QED
    BY <1>1, <2>1, FirstExists, PlannerAssumption, Zenon
<1>3. policy = "required" => \A p \in choice :
        IF r.requested = "none" THEN ~p.fallback ELSE p.id = r.requested
  BY DEF Planner!Choice, Planner!None
<1>4. /\ d.status = (IF policy = "disabled" THEN "skipped"
            ELSE IF choice = {}
            THEN IF policy = "required" \/ r.requested # "none"
                 THEN "blocked" ELSE "skipped"
            ELSE IF \/ r.requested = "none" /\ chosen.fallback
                    \/ r.requested \notin {"none", chosen.id}
            THEN "fallback" ELSE "selected")
      /\ d.transforms = IF d.status \in {"selected", "fallback"}
                        THEN chosen.transforms ELSE <<>>
  BY DEF Planner!Decision, Planner!None
<1> HIDE DEF choice, chosen, d
<1>5. policy = "disabled" => d.status = "skipped"
  BY <1>4
<1>6. policy = "required" => d.status \in {"blocked", "selected"}
  BY <1>2, <1>3, <1>4
<1>7. d.status \in {"selected", "fallback"} => choice # {}
  BY <1>4
<1>8. d.transforms \in Seq(DOMAIN Transforms)
  <2>1. CASE d.status \in {"selected", "fallback"}
    <3>1. chosen \in ps
      BY <1>1, <1>2, <1>7, <2>1
    <3> QED
      BY <1>4, <2>1, <3>1, PlannerAssumption
  <2>2. CASE d.status \notin {"selected", "fallback"}
    BY <1>4, <2>2
  <2> QED
    BY <2>1, <2>2
<1> QED
  BY <1>5, <1>6, <1>8 DEF d

\* A plan is what its policy allows.
LEMMA PlanIs ==
  ASSUME NEW ps \in ProviderSets, NEW rs \in RequestLists,
         NEW m, NEW env, NEW policy \in {"disabled", "auto", "required"}
  PROVE  PlanFacts(Planner!Plan(ps, rs, m, env, policy))
<1> DEFINE ds == [i \in DOMAIN rs |-> Planner!Decision(ps, rs[i], m, env, policy)]
           ts == [i \in DOMAIN rs |-> ds[i].transforms]
           p == Planner!Plan(ps, rs, m, env, policy)
           Some(status) == \E i \in DOMAIN rs : ds[i].status = status
<1>1. \A i \in DOMAIN rs : /\ ds[i].transforms \in Seq(DOMAIN Transforms)
                           /\ policy = "disabled" => ds[i].status = "skipped"
                           /\ policy = "required" => ds[i].status \in {"blocked", "selected"}
  BY DecisionFacts
<1>2. DOMAIN ds = DOMAIN rs /\ DOMAIN rs = 1..Len(rs) /\ Len(rs) \in Nat
  BY PlannerAssumption
<1>3. /\ p.policy = policy /\ p.decisions = ds
      /\ p.status = IF Some("blocked") THEN "blocked"
                    ELSE IF Some("selected") \/ Some("fallback") THEN "ready"
                    ELSE "noop"
      /\ p.transforms = IF p.status # "ready" THEN <<>> ELSE Planner!FlattenSeq(ts)
  BY DEF Planner!Plan
<1> HIDE DEF p, ds
<1>4. ts \in Seq(Seq(DOMAIN Transforms))
  BY <1>1, <1>2
<1> HIDE DEF ts
<1>5. FlattenSeq(ts) \in Seq(DOMAIN Transforms)
  BY <1>4, FlattenType
<1>6. Planner!FlattenSeq(ts) = FlattenSeq(ts)
  BY DEF Planner!FlattenSeq, FlattenSeq
<1>7. p.transforms \in Seq(DOMAIN Transforms)
  <2>1. CASE p.status = "ready"
    BY <1>3, <1>5, <1>6, <2>1
  <2>2. CASE p.status # "ready"
    BY <1>3, <2>2
  <2> QED
    BY <2>1, <2>2
<1>8. policy = "disabled" => p.transforms = <<>>
  BY <1>1, <1>3
<1>9. policy = "required" /\ p.status # "blocked" =>
        \A i \in DOMAIN p.decisions : p.decisions[i].status = "selected"
  BY <1>1, <1>2, <1>3
<1> QED
  BY <1>3, <1>7, <1>8, <1>9 DEF PlanFacts, p

-----------------------------------------------------------------------------
(* The items of a transaction *)

ModulePaths == DOMAIN Ancestors
Modules == ModulePaths \cup DOMAIN Transforms
KindOf(id) == Transforms[id].kind
TargetsOf(id) == {Transforms[id].targets[k] : k \in DOMAIN Transforms[id].targets}

\* A transformation that may put another module at p, and at p only.
Changes(id, p) == KindOf(id) # "remat" /\ TargetsOf(id) = {p}

\* A rematerialization that wrapped the forward of m.
Hits(item, m) == KindOf(item.id) = "remat" /\ m \in DOMAIN item.snapshot

\* v are the wrappers that the first n items left around the forward of m.
StackIs(items, n, m, v) ==
  \/ v = <<>> /\ \A j \in 1..n : ~Hits(items[j], m)
  \/ \E j \in 1..n :
       /\ Hits(items[j], m)
       /\ v = Append(items[j].snapshot[m], items[j].id)
       /\ \A k \in (j + 1)..n : ~Hits(items[k], m)

\* What an item remembers is what it will be rolled back to, and its targets
\* are not below a module that an earlier one replaced.
ItemOK(item, items, i, ts, was) ==
  /\ item.id = ts[i]
  /\ KindOf(ts[i]) = "remat" =>
       /\ DOMAIN item.snapshot \subseteq Modules
       /\ \A m \in DOMAIN item.snapshot :
            /\ item.snapshot[m] \in Seq(DOMAIN Transforms)
            /\ StackIs(items, i - 1, m, item.snapshot[m])
  /\ KindOf(ts[i]) # "remat" =>
       item.snapshot = [q \in TargetsOf(ts[i]) |-> was[q]]
  /\ \A j \in 1..(i - 1), p \in TargetsOf(ts[i]) :
       \A a \in Ancestors[p] : ~Changes(ts[j], a)

ItemsOK(items, ts, was) ==
  /\ \E S : items \in Seq(S)
  /\ Len(items) <= Len(ts)
  /\ \A i \in 1..Len(items) : ItemOK(items[i], items, i, ts, was)

\* An item appended to a sequence of whatever items.
LEMMA AppendAny ==
  ASSUME NEW items, \E S : items \in Seq(S), NEW e
  PROVE  LET more == Append(items, e)
         IN /\ \E S : more \in Seq(S)
            /\ Len(items) \in Nat /\ Len(more) = Len(items) + 1
            /\ \A i \in 1..Len(items) : more[i] = items[i]
            /\ more[Len(items) + 1] = e
<1>1. PICK S : items \in Seq(S)
  OBVIOUS
<1>2. items \in Seq(S \cup {e})
  BY <1>1
<1> QED
  BY <1>2, AppendProperties

\* The wrappers of m depend on the items that were visited alone.
LEMMA StackSame ==
  ASSUME NEW items, NEW more, NEW n \in Nat, NEW m, NEW v,
         \A i \in 1..n : more[i] = items[i], StackIs(items, n, m, v)
  PROVE  StackIs(more, n, m, v)
BY DEF StackIs

\* An item that does not wrap m leaves its wrappers.
LEMMA StackPassed ==
  ASSUME NEW items, NEW n \in Nat, NEW m, NEW v,
         StackIs(items, n, m, v), ~Hits(items[n + 1], m)
  PROVE  StackIs(items, n + 1, m, v)
<1>1. \A j \in 1..(n + 1) : j \in 1..n \/ j = n + 1
  OBVIOUS
<1>2. CASE v = <<>> /\ \A j \in 1..n : ~Hits(items[j], m)
  BY <1>1, <1>2 DEF StackIs
<1>3. ASSUME NEW j \in 1..n, Hits(items[j], m),
             v = Append(items[j].snapshot[m], items[j].id),
             \A k \in (j + 1)..n : ~Hits(items[k], m)
      PROVE  StackIs(items, n + 1, m, v)
  <2>1. \A k \in (j + 1)..(n + 1) : k \in (j + 1)..n \/ k = n + 1
    OBVIOUS
  <2>2. j \in 1..(n + 1)
    OBVIOUS
  <2> QED
    BY <1>3, <2>1, <2>2, Zenon DEF StackIs
<1> QED
  BY <1>2, <1>3, Zenon DEF StackIs

\* An item that wraps m adds its wrapper.
LEMMA StackPushed ==
  ASSUME NEW items, NEW n \in Nat, NEW m, Hits(items[n + 1], m)
  PROVE  StackIs(items, n + 1, m,
                 Append(items[n + 1].snapshot[m], items[n + 1].id))
<1>1. n + 1 \in 1..(n + 1) /\ ((n + 1) + 1)..(n + 1) = {}
  OBVIOUS
<1> QED
  BY <1>1 DEF StackIs

\* An item that did not wrap m is taken back without touching its wrappers.
LEMMA StackBack ==
  ASSUME NEW items, NEW n \in Nat, NEW m, NEW v,
         StackIs(items, n + 1, m, v), ~Hits(items[n + 1], m)
  PROVE  StackIs(items, n, m, v)
<1>1. CASE v = <<>> /\ \A j \in 1..(n + 1) : ~Hits(items[j], m)
  BY <1>1 DEF StackIs
<1>2. ASSUME NEW j \in 1..(n + 1), Hits(items[j], m),
             v = Append(items[j].snapshot[m], items[j].id),
             \A k \in (j + 1)..(n + 1) : ~Hits(items[k], m)
      PROVE  StackIs(items, n, m, v)
  <2>1. j # n + 1
    BY <1>2
  <2>2. j \in 1..n
    BY <2>1
  <2>3. \A k \in (j + 1)..n : k \in (j + 1)..(n + 1)
    OBVIOUS
  <2> QED
    BY <1>2, <2>2, <2>3, Zenon DEF StackIs
<1> QED
  BY <1>1, <1>2 DEF StackIs

\* One more item that remembers what it changed.
LEMMA ItemsGrow ==
  ASSUME NEW items, NEW ts, NEW was, NEW e, ItemsOK(items, ts, was),
         Len(ts) \in Nat, Len(items) < Len(ts),
         ItemOK(e, items, Len(items) + 1, ts, was)
  PROVE  ItemsOK(Append(items, e), ts, was)
<1> DEFINE more == Append(items, e)  n == Len(items)
<1>1. /\ \E S : more \in Seq(S) 
      /\ n \in Nat /\ Len(more) = n + 1
      /\ \A i \in 1..n : more[i] = items[i]
      /\ more[n + 1] = e
  BY AppendAny, Zenon DEF ItemsOK
<1> HIDE DEF more
<1>2. ASSUME NEW i \in 1..(n + 1), NEW item, ItemOK(item, items, i, ts, was)
      PROVE  ItemOK(item, more, i, ts, was)
  <2>1. i - 1 \in Nat /\ \A j \in 1..(i - 1) : more[j] = items[j]
    BY <1>1
  <2>2. \A m, v : StackIs(items, i - 1, m, v) => StackIs(more, i - 1, m, v)
    BY <2>1, StackSame
  <2> QED
    BY <1>2, <2>2 DEF ItemOK
<1>3. \A i \in 1..(n + 1) : ItemOK(more[i], more, i, ts, was)
  <2> TAKE i \in 1..(n + 1)
  <2>1. CASE i \in 1..n
    BY <1>1, <1>2, <2>1 DEF ItemsOK
  <2>2. CASE i = n + 1
    BY <1>1, <1>2, <2>2
  <2> QED
    BY <1>1, <2>1, <2>2
<1>4. Len(more) <= Len(ts)
  BY <1>1
<1> QED
  BY <1>1, <1>3, <1>4 DEF ItemsOK, more

-----------------------------------------------------------------------------
(* The invariant *)

Before == {"idle", "planned", "refused"}
Undoing == {"undoing", "retracting", "failed", "stuck", "closed"}
Phases == Before \cup Undoing \cup {"applying", "open"}

\* A transformation whose rollback raised at p or above it.
Excused(p) ==
  \E id \in tfFailed : KindOf(id) = "foreign" /\ Planner!Touches(id, p)

PlannerShape ==
  /\ tfPhase \in Phases
  /\ tfPlan.transforms \in Seq(DOMAIN Transforms)
  /\ tfPhase # "idle" => PlanFacts(tfPlan)
  /\ tfPhase \notin {"idle", "refused"} =>
       \A i, j \in 1..Len(tfPlan.transforms) : i # j =>
         TargetsOf(tfPlan.transforms[i]) \cap TargetsOf(tfPlan.transforms[j]) = {}
  /\ tfPhase \notin Before => tfPlan.status # "blocked"
  /\ ItemsOK(tfApplied, tfPlan.transforms, tfBefore[1])
  /\ tfUndo \in 0..Len(tfApplied)
  /\ tfPhase \in Before => Len(tfApplied) = 0
  /\ tfPhase = "applying" => Len(tfApplied) < Len(tfPlan.transforms)
  /\ tfPhase \in Before \cup {"applying", "open"} => tfUndo = 0 /\ tfFailed = {}
  /\ tfPhase \in {"failed", "stuck"} => tfUndo = 0
  /\ tfPhase = "stuck" => tfFailed # {}
  /\ tfCommitted \in BOOLEAN
  /\ tfCommitted => tfPhase = "closed"
  /\ tfPhase = "open" \/ (tfCommitted /\ tfFailed = {}) =>
       Len(tfApplied) = Len(tfPlan.transforms)

\* The model: where it is not as it was, an item says why.
PlannerTrees ==
  /\ tfBefore = <<tfBefore[1], tfBefore[2]>>
  /\ tfBefore[1] = [p \in ModulePaths |-> tfBefore[1][p]]
  /\ tfBefore[2] = [m \in Modules |-> <<>>]
  /\ tfTree = [p \in ModulePaths |-> tfTree[p]]
  /\ tfForward = [m \in Modules |-> tfForward[m]]
  /\ \A p \in ModulePaths : tfBefore[1][p].impl \in ModulePaths
  /\ \A p \in ModulePaths : tfTree[p].impl \in Modules
  /\ \A m \in Modules : tfForward[m] \in Seq(DOMAIN Transforms)
  /\ \A p \in ModulePaths : tfTree[p] # tfBefore[1][p] =>
       \E i \in 1..Len(tfApplied) : Changes(tfPlan.transforms[i], p)
  /\ Len(tfApplied) = 0 => tfForward = tfBefore[2]

\* A rollback has put everything back that the items it visited had changed.
PlannerUndo ==
  /\ tfPhase \in {"applying", "open"} =>
       \A m \in Modules : StackIs(tfApplied, Len(tfApplied), m, tfForward[m])
  /\ tfPhase \in Undoing /\ ~tfCommitted =>
       /\ tfPhase = "closed" => tfUndo = 0
       /\ \A m \in Modules : tfForward[m] = <<>>
                             \/ StackIs(tfApplied, tfUndo, m, tfForward[m])
       /\ \A p \in ModulePaths : tfTree[p] # tfBefore[1][p] /\ ~Excused(p) =>
            \E i \in 1..tfUndo : Changes(tfPlan.transforms[i], p)

\* What a transformation did lasts until it is rolled back.
Effect(id, p, tree, forward) ==
  IF KindOf(id) = "remat"
  THEN \E k \in DOMAIN forward[tree[p].impl] : forward[tree[p].impl][k] = id
  ELSE tree[p].impl = id

PlannerEffects ==
  tfPhase \in {"applying", "open"} \/ (tfCommitted /\ tfFailed = {}) =>
    \A i \in 1..Len(tfApplied) : \A p \in TargetsOf(tfPlan.transforms[i]) :
      Effect(tfPlan.transforms[i], p, tfTree, tfForward)

PlannerInv == PlannerShape /\ PlannerTrees /\ PlannerUndo /\ PlannerEffects

-----------------------------------------------------------------------------
(* Applying *)

\* The transformation that is applied next.
LEMMA CurrentFacts ==
  ASSUME PlannerInv, tfPhase = "applying"
  PROVE  LET n == Len(tfApplied)  id == Planner!CurrentId
         IN /\ n \in Nat /\ n + 1 \in 1..Len(tfPlan.transforms)
            /\ Len(tfPlan.transforms) \in Nat
            /\ id = tfPlan.transforms[n + 1] /\ id \in DOMAIN Transforms
            /\ TargetsOf(id) \subseteq ModulePaths
            /\ KindOf(id) \in {"pack", "remat", "foreign"}
            /\ \A i \in 1..n : /\ tfPlan.transforms[i] \in DOMAIN Transforms
                               /\ TargetsOf(tfPlan.transforms[i]) \cap TargetsOf(id) = {}
            /\ Planner!ToSet(Planner!Current.targets) = TargetsOf(id)
            /\ Planner!Current.kind = KindOf(id)
<1>1. /\ \E S : tfApplied \in Seq(S)
      /\ tfPlan.transforms \in Seq(DOMAIN Transforms)
      /\ Len(tfApplied) < Len(tfPlan.transforms)
      /\ \A i, j \in 1..Len(tfPlan.transforms) : i # j =>
           TargetsOf(tfPlan.transforms[i]) \cap TargetsOf(tfPlan.transforms[j]) = {}
  BY Zenon DEF PlannerInv, PlannerShape, ItemsOK
<1>2. /\ Len(tfApplied) \in Nat /\ Len(tfPlan.transforms) \in Nat
      /\ \A i \in 1..Len(tfPlan.transforms) : tfPlan.transforms[i] \in DOMAIN Transforms
  BY <1>1
<1>3. /\ Len(tfApplied) + 1 \in 1..Len(tfPlan.transforms)
      /\ \A i \in 1..Len(tfApplied) : i \in 1..Len(tfPlan.transforms) /\ i # Len(tfApplied) + 1
  BY <1>1, <1>2
<1>4. Planner!CurrentId = tfPlan.transforms[Len(tfApplied) + 1]
  BY DEF Planner!CurrentId
<1>5. \A id \in DOMAIN Transforms : /\ TargetsOf(id) \subseteq ModulePaths
                                    /\ KindOf(id) \in {"pack", "remat", "foreign"}
  BY PlannerAssumption DEF TargetsOf, KindOf, ModulePaths
<1>6. /\ Planner!ToSet(Planner!Current.targets) = TargetsOf(Planner!CurrentId)
      /\ Planner!Current.kind = KindOf(Planner!CurrentId)
  BY DEF Planner!ToSet, Planner!Current, TargetsOf, KindOf
<1> QED
  BY <1>1, <1>2, <1>3, <1>4, <1>5, <1>6, Zenon

\* A capture that succeeds remembers what the rollback needs: no earlier item
\* replaced the target or a module above it.
LEMMA Captured ==
  ASSUME PlannerInv, tfPhase = "applying", Planner!CanCapture
  PROVE  ItemOK(Planner!Item, tfApplied, Len(tfApplied) + 1, tfPlan.transforms,
                tfBefore[1])
<1> DEFINE n == Len(tfApplied)  id == Planner!CurrentId
           ts == tfPlan.transforms
           hit == {tfTree[p].impl : p \in TargetsOf(id)}
<1>1. /\ n \in Nat /\ n + 1 \in 1..Len(ts)
      /\ id = ts[n + 1] /\ id \in DOMAIN Transforms
      /\ TargetsOf(id) \subseteq ModulePaths
      /\ \A i \in 1..n : /\ ts[i] \in DOMAIN Transforms
                         /\ TargetsOf(ts[i]) \cap TargetsOf(id) = {}
  BY CurrentFacts
<1>2. /\ Planner!Item.id = id
      /\ KindOf(id) = "remat" => Planner!Item.snapshot = [m \in hit |-> tfForward[m]]
      /\ KindOf(id) # "remat" =>
           Planner!Item.snapshot = [q \in TargetsOf(id) |-> tfTree[q]]
  BY CurrentFacts DEF Planner!Item, Planner!Snapshot
<1>3. \A p \in TargetsOf(id) : \A a \in Ancestors[p] : tfTree[a].impl \in ModulePaths
  BY CurrentFacts DEF Planner!CanCapture, Planner!Resolves, Planner!Paths,
     ModulePaths
<1> HIDE DEF id
<1>4. KindOf(id) = "remat" =>
        /\ DOMAIN Planner!Item.snapshot \subseteq Modules
        /\ \A m \in DOMAIN Planner!Item.snapshot :
             /\ Planner!Item.snapshot[m] \in Seq(DOMAIN Transforms)
             /\ StackIs(tfApplied, n, m, Planner!Item.snapshot[m])
  <2> SUFFICES ASSUME KindOf(id) = "remat"
               PROVE  /\ hit \subseteq Modules
                      /\ \A m \in hit : /\ tfForward[m] \in Seq(DOMAIN Transforms)
                                         /\ StackIs(tfApplied, n, m, tfForward[m])
    BY <1>2
  <2>1. hit \subseteq Modules
    BY <1>1 DEF PlannerInv, PlannerTrees
  <2> HIDE DEF hit
  <2> QED
    BY <2>1 DEF PlannerInv, PlannerUndo, PlannerTrees
<1>5. ASSUME KindOf(id) # "remat"
      PROVE  Planner!Item.snapshot = [q \in TargetsOf(id) |-> tfBefore[1][q]]
  <2>1. ASSUME NEW q \in TargetsOf(id), tfTree[q] # tfBefore[1][q]
        PROVE  FALSE
    <3>1. PICK i \in 1..n : Changes(ts[i], q)
      BY <1>1, <2>1 DEF PlannerInv, PlannerTrees
    <3>2. q \in TargetsOf(ts[i])
      BY <3>1 DEF Changes
    <3> QED
      BY <1>1, <3>2
  <2> QED
    BY <1>2, <1>5, <2>1
<1>6. ASSUME NEW j \in 1..n, NEW p \in TargetsOf(id), NEW a \in Ancestors[p],
             Changes(ts[j], a)
      PROVE  FALSE
  <2>1. tfTree[a].impl = ts[j]
    BY <1>6 DEF PlannerInv, PlannerEffects, Effect, Changes
  <2> QED
    BY <1>1, <1>3, <1>6, <2>1, PlannerAssumption DEF ModulePaths
<1> QED
  BY <1>1, <1>2, <1>4, <1>5, <1>6 DEF ItemOK

\* A handler that was called, whether it succeeded (phase' applying or open) or
\* failed: no module but its one target is replaced, and the wrappers are those
\* of a rematerialization or none.
LEMMA Advanced ==
  ASSUME PlannerInv, tfPhase = "applying", Planner!CanCapture,
         tfApplied' = Append(tfApplied, Planner!Item),
         UNCHANGED <<tfPlan, tfBefore, tfCommitted>>,
         \/ tfPhase' = "undoing" /\ tfUndo' = Len(tfApplied')
         \/ /\ tfPhase' = IF Len(tfApplied') = Len(tfPlan.transforms) THEN "open"
                          ELSE "applying"
            /\ tfUndo' = tfUndo
            /\ \A p \in TargetsOf(Planner!CurrentId) :
                 Effect(Planner!CurrentId, p, tfTree', tfForward'),
         tfFailed' = {},
         tfTree' = [p \in ModulePaths |-> tfTree'[p]],
         \A p \in ModulePaths : tfTree'[p].impl \in Modules,
         \A p \in ModulePaths : tfTree'[p] # tfTree[p] => Changes(Planner!CurrentId, p),
         tfForward' = [m \in Modules |-> IF Hits(Planner!Item, m)
                         THEN Append(tfForward[m], Planner!CurrentId) ELSE tfForward[m]]
  PROVE  PlannerInv'
<1> DEFINE n == Len(tfApplied)  id == Planner!CurrentId  ts == tfPlan.transforms
           item == Planner!Item
<1>1. /\ n \in Nat /\ n + 1 \in 1..Len(ts) /\ Len(ts) \in Nat
      /\ id = ts[n + 1] /\ id \in DOMAIN Transforms
      /\ TargetsOf(id) \subseteq ModulePaths
      /\ \A i \in 1..n : /\ ts[i] \in DOMAIN Transforms
                         /\ TargetsOf(ts[i]) \cap TargetsOf(id) = {}
  BY CurrentFacts
<1>2. ItemOK(item, tfApplied, n + 1, ts, tfBefore[1])
  BY Captured
<1>3. ItemsOK(tfApplied', ts, tfBefore[1])
  BY <1>1, <1>2, ItemsGrow DEF PlannerInv, PlannerShape
<1>4. /\ Len(tfApplied') = n + 1
      /\ \A i \in 1..n : tfApplied'[i] = tfApplied[i]
      /\ tfApplied'[n + 1] = item
  BY AppendAny DEF PlannerInv, PlannerShape, ItemsOK
<1>5. item.id = id /\ (KindOf(id) = "remat" =>
         item.snapshot = [m \in {tfTree[p].impl : p \in TargetsOf(id)} |-> tfForward[m]])
  BY CurrentFacts, Zenon DEF Planner!Item, Planner!Snapshot
<1> HIDE DEF id, item
<1>6. PlannerShape'
  <2>1. /\ tfPhase' \in {"undoing", "applying", "open"}
        /\ tfPhase' = "open" => n + 1 = Len(ts)
        /\ tfPhase' = "applying" => n + 1 < Len(ts)
        /\ tfUndo' \in 0..(n + 1)
        /\ tfPhase' \in {"applying", "open"} => tfUndo' = 0
    BY <1>1, <1>4 DEF PlannerInv, PlannerShape
  <2>2. tfCommitted' \in BOOLEAN /\ ~tfCommitted'
    BY DEF PlannerInv, PlannerShape
  <2> QED
    BY <1>1, <1>3, <1>4, <2>1, <2>2, Zenon DEF PlannerInv, PlannerShape,
       Phases, Before, Undoing
<1>7. \A m \in Modules : StackIs(tfApplied', n + 1, m, tfForward'[m])
  <2> TAKE m \in Modules
  <2>1. StackIs(tfApplied', n, m, tfForward[m])
    BY <1>1, <1>4, StackSame, Zenon DEF PlannerInv, PlannerUndo
  <2>2. CASE Hits(item, m)
    <3>1. tfForward'[m] = Append(item.snapshot[m], item.id)
      BY <1>5, <2>2, Zenon DEF Hits, item, id
    <3>2. Hits(tfApplied'[n + 1], m)
      BY <1>4, <2>2
    <3> DEFINE items == tfApplied'
    <3>3. StackIs(items, n + 1, m, Append(items[n + 1].snapshot[m], items[n + 1].id))
      <4> HIDE DEF items
      <4>1. Hits(items[n + 1], m)
        BY <3>2 DEF items
      <4> HIDE DEF n
      <4> QED
        BY <1>1, <4>1, StackPushed, Zenon
    <3>4. Append(items[n + 1].snapshot[m], items[n + 1].id) = tfForward'[m]
      BY <1>4, <3>1, Zenon
    <3> QED
      BY <3>3, <3>4
  <2>3. CASE ~Hits(item, m)
    <3>1. tfForward'[m] = tfForward[m]
      BY <2>3 DEF item
    <3> QED
      BY <1>1, <1>4, <2>1, <2>3, <3>1, StackPassed, Zenon
  <2> QED
    BY <2>2, <2>3
<1>8. \A p \in ModulePaths : tfTree'[p] # tfBefore[1][p] =>
        \E i \in 1..(n + 1) : Changes(ts[i], p)
  <2> SUFFICES ASSUME NEW p \in ModulePaths, tfTree'[p] # tfBefore[1][p]
               PROVE  \E i \in 1..(n + 1) : Changes(ts[i], p)
    OBVIOUS
  <2>1. CASE tfTree'[p] # tfTree[p]
    BY <1>1, <2>1 DEF id
  <2>2. CASE tfTree'[p] = tfTree[p]
    <3>1. PICK i \in 1..n : Changes(ts[i], p)
      BY <2>2 DEF PlannerInv, PlannerTrees
    <3>2. i \in 1..(n + 1)
      BY <1>1
    <3> QED
      BY <3>1, <3>2
  <2> QED
    BY <2>1, <2>2
<1>9. PlannerTrees'
  <2>1. \A m \in Modules : tfForward'[m] \in Seq(DOMAIN Transforms)
    <3> TAKE m \in Modules
    <3>1. tfForward[m] \in Seq(DOMAIN Transforms)
      BY DEF PlannerInv, PlannerTrees
    <3>2. tfForward'[m] = IF Hits(item, m) THEN Append(tfForward[m], id) ELSE tfForward[m]
      BY DEF item, id
    <3>3. Append(tfForward[m], id) \in Seq(DOMAIN Transforms)
      BY <1>1, <3>1
    <3> QED
      BY <3>1, <3>2, <3>3, Zenon
  <2>2. tfForward' = [m \in Modules |-> tfForward'[m]]
    OBVIOUS
  <2> QED
    BY <1>1, <1>4, <1>8, <2>1, <2>2 DEF PlannerInv, PlannerTrees
<1>10. PlannerUndo'
  BY <1>1, <1>4, <1>7, <1>8 DEF PlannerUndo, Undoing
<1>11. PlannerEffects'
  <2> SUFFICES ASSUME tfPhase' \in {"applying", "open"},
                      NEW i \in 1..(n + 1), NEW p \in TargetsOf(ts[i])
               PROVE  Effect(ts[i], p, tfTree', tfForward')
    <3>1. ~tfCommitted'
      BY DEF PlannerInv, PlannerShape
    <3> QED
      BY <1>4, <3>1, Zenon DEF PlannerEffects
  <2>1. CASE i = n + 1
    BY <1>1, <2>1 DEF id
  <2>2. CASE i # n + 1
    <3>1. i \in 1..n
      BY <1>1, <2>2
    <3>2. Effect(ts[i], p, tfTree, tfForward)
      BY <3>1, Zenon DEF PlannerInv, PlannerEffects
    <3>3. p \in ModulePaths
      BY <1>1, <3>1, PlannerAssumption DEF TargetsOf, ModulePaths
    <3>4. tfTree'[p] = tfTree[p]
      <4>1. p \notin TargetsOf(id)
        BY <1>1, <3>1
      <4> QED
        BY <3>3, <4>1 DEF Changes, id
    <3>5. tfTree[p].impl \in Modules
      BY <3>3 DEF PlannerInv, PlannerTrees
    <3>6. LET m == tfTree[p].impl
          IN \A k \in DOMAIN tfForward[m] : k \in DOMAIN tfForward'[m] /\ tfForward'[m][k] = tfForward[m][k]
      <4>1. tfForward[tfTree[p].impl] \in Seq(DOMAIN Transforms)
        BY <3>5 DEF PlannerInv, PlannerTrees
      <4> QED
        BY <1>1, <3>5, <4>1 DEF id
    <3> QED
      BY <3>2, <3>4, <3>6, Zenon DEF Effect
  <2> QED
    BY <2>1, <2>2
<1> QED
  BY <1>6, <1>9, <1>10, <1>11 DEF PlannerInv

\* Before anything is planned.
LEMMA PlannerBegins ==
  ASSUME Planner!Init
  PROVE  PlannerInv
<1>1. /\ tfPhase = "idle" /\ tfPlan.transforms = <<>> /\ tfApplied = <<>>
      /\ tfUndo = 0 /\ tfFailed = {} /\ tfCommitted = FALSE
      /\ tfTree = [p \in ModulePaths |-> [impl |-> p, params |-> p, names |-> "own"]]
      /\ tfForward = [m \in Modules |-> <<>>] /\ tfBefore = <<tfTree, tfForward>>
  BY DEF Planner!Init, Planner!Impls, Planner!Paths, Modules, ModulePaths
<1>2. /\ <<>> \in Seq(DOMAIN Transforms) /\ Len(<<>>) = 0 /\ 1..0 = {}
      /\ <<>> \in Seq({})
  OBVIOUS
<1>3. ItemsOK(tfApplied, tfPlan.transforms, tfBefore[1])
  BY <1>1, <1>2 DEF ItemsOK
<1>4. PlannerShape
  <2>1. tfCommitted \in BOOLEAN /\ ~tfCommitted
    BY <1>1, Zenon
  <2>2. /\ Len(tfApplied) = 0 /\ Len(tfPlan.transforms) = 0
        /\ tfPlan.transforms \in Seq(DOMAIN Transforms)
        /\ tfUndo \in 0..Len(tfApplied)
    BY <1>1, <1>2
  <2> QED
    BY <1>1, <1>3, <2>1, <2>2 DEF PlannerShape, Phases, Before, Undoing
<1>5. PlannerTrees
  BY <1>1, <1>2, Zenon DEF PlannerTrees, Modules
<1>6. PlannerUndo /\ PlannerEffects
  BY <1>1 DEF PlannerUndo, PlannerEffects, Undoing
<1> QED
  BY <1>4, <1>5, <1>6 DEF PlannerInv

\* A plan is made for a model, whose modules are as they were.
LEMMA PlannerMakes ==
  ASSUME PlannerInv, Planner!MakePlan
  PROVE  PlannerInv'
<1>1. /\ tfPhase = "idle" /\ Len(tfApplied) = 0 /\ tfUndo = 0 /\ tfFailed = {}
      /\ ~tfCommitted /\ tfCommitted \in BOOLEAN
      /\ tfForward = [m \in Modules |-> <<>>]
      /\ \E S : tfApplied \in Seq(S)
  BY DEF PlannerInv, PlannerShape, PlannerTrees, Planner!MakePlan, ItemsOK,
     Before
<1>2. /\ tfPhase' \in {"planned", "refused"}
      /\ tfPhase' = "planned" => Planner!WellFormed(tfPlan')
      /\ tfBefore' = <<tfTree', tfForward>>
      /\ UNCHANGED <<tfForward, tfApplied, tfUndo, tfFailed, tfCommitted>>
  BY DEF Planner!MakePlan
<1>3. PICK ps \in ProviderSets, rs \in RequestLists, model \in Models,
           env \in Environments, policy \in {"disabled", "auto", "required"} :
        /\ tfPlan' = Planner!Plan(ps, rs, model, env, policy)
        /\ tfTree' = Planner!Original(model)
  BY DEF Planner!MakePlan
<1>4. PlanFacts(tfPlan')
  BY <1>3, PlanIs
<1>5. /\ tfTree' = [p \in ModulePaths |-> tfTree'[p]]
      /\ \A p \in ModulePaths : tfTree'[p].impl \in ModulePaths
  BY <1>3, PlannerAssumption DEF Planner!Original, Planner!Paths, ModulePaths
<1>6. tfPhase' = "planned" =>
        \A i, j \in 1..Len(tfPlan'.transforms) : i # j =>
          TargetsOf(tfPlan'.transforms[i]) \cap TargetsOf(tfPlan'.transforms[j]) = {}
  <2> SUFFICES ASSUME Planner!WellFormed(tfPlan'),
                      NEW i \in 1..Len(tfPlan'.transforms),
                      NEW j \in 1..Len(tfPlan'.transforms), i # j
               PROVE  TargetsOf(tfPlan'.transforms[i])
                        \cap TargetsOf(tfPlan'.transforms[j]) = {}
    BY <1>2, Zenon
  <2>1. DOMAIN tfPlan'.transforms = 1..Len(tfPlan'.transforms)
    BY <1>4 DEF PlanFacts
  <2>2. \A id : Planner!ToSet(Transforms[id].targets) = TargetsOf(id)
    BY DEF Planner!ToSet, TargetsOf
  <2>3. Planner!PlanConstructs(tfPlan')
    BY DEF Planner!WellFormed
  <2>4. Planner!ToSet(Transforms[tfPlan'.transforms[i]].targets)
          \cap Planner!ToSet(Transforms[tfPlan'.transforms[j]].targets) = {}
    BY <2>1, <2>3, Zenon DEF Planner!PlanConstructs
  <2> QED
    BY <2>2, <2>4
<1>7. ItemsOK(tfApplied, tfPlan'.transforms, tfTree')
  BY <1>1, <1>4 DEF ItemsOK, PlanFacts
<1>8. PlannerShape'
  <2>1. tfCommitted' \in BOOLEAN /\ ~tfCommitted'
    BY <1>1, <1>2
  <2>2. /\ Len(tfApplied') = 0 /\ tfUndo' = 0 /\ tfUndo' \in 0..Len(tfApplied')
        /\ tfFailed' = {} /\ tfPlan'.transforms \in Seq(DOMAIN Transforms)
        /\ tfBefore'[1] = tfTree'
    BY <1>1, <1>2, <1>4 DEF PlanFacts
  <2> QED
    BY <1>2, <1>4, <1>6, <1>7, <2>1, <2>2, Zenon DEF PlannerShape, Phases,
       Before, Undoing
<1>9. PlannerTrees'
  <2>1. /\ tfBefore'[1] = tfTree' /\ tfBefore'[2] = tfForward'
        /\ tfBefore' = <<tfBefore'[1], tfBefore'[2]>>
    BY <1>2
  <2>2. tfForward' = [m \in Modules |-> <<>>]
    BY <1>1, <1>2
  <2>3. \A m \in Modules : tfForward'[m] \in Seq(DOMAIN Transforms)
    BY <2>2
  <2>4. /\ tfBefore'[2] = [m \in Modules |-> <<>>]
        /\ tfForward' = [m \in Modules |-> tfForward'[m]]
    BY <2>1, <2>2
  <2> QED
    BY <1>5, <2>1, <2>3, <2>4 DEF PlannerTrees, Modules
<1>10. PlannerUndo' /\ PlannerEffects'
  BY <1>1, <1>2 DEF PlannerUndo, PlannerEffects, Undoing
<1> QED
  BY <1>8, <1>9, <1>10 DEF PlannerInv

\* The registry refuses the plan, or starts with no item.
LEMMA PlannerApplies ==
  ASSUME PlannerInv, Planner!Apply
  PROVE  PlannerInv'
<1>1. /\ tfPhase = "planned" /\ Len(tfApplied) = 0 /\ tfUndo = 0 /\ tfFailed = {}
      /\ ~tfCommitted /\ tfCommitted \in BOOLEAN
      /\ tfForward = [m \in Modules |-> <<>>]
      /\ tfPlan.transforms \in Seq(DOMAIN Transforms)
  BY DEF PlannerInv, PlannerShape, PlannerTrees, Planner!Apply, Before
<1>2. /\ tfPhase' \in {"refused", "open", "applying"}
      /\ tfPhase' # "refused" => tfPlan.status # "blocked"
      /\ tfPhase' = "open" => tfPlan.transforms = <<>>
      /\ tfPhase' = "applying" => tfPlan.transforms # <<>>
      /\ UNCHANGED <<tfPlan, tfTree, tfForward, tfBefore, tfApplied, tfUndo,
                     tfFailed, tfCommitted>>
  BY DEF Planner!Apply
<1>3. /\ tfPhase' = "open" => Len(tfPlan.transforms) = 0
      /\ tfPhase' = "applying" => Len(tfPlan.transforms) > 0
  BY <1>1, <1>2
<1>4. PlannerShape'
  <2>1. tfCommitted' \in BOOLEAN /\ ~tfCommitted'
    BY <1>1, <1>2
  <2> QED
    BY <1>1, <1>2, <1>3, <2>1, Zenon DEF PlannerInv, PlannerShape, Phases,
       Before, Undoing
<1>5. PlannerTrees'
  BY <1>1, <1>2 DEF PlannerInv, PlannerTrees
<1>6. \A m \in Modules : StackIs(tfApplied, Len(tfApplied), m, tfForward[m])
  BY <1>1 DEF StackIs
<1>7. PlannerUndo' /\ PlannerEffects'
  BY <1>1, <1>2, <1>6 DEF PlannerUndo, PlannerEffects, Undoing
<1> QED
  BY <1>4, <1>5, <1>7 DEF PlannerInv

\* A capture that fails leaves the items to be rolled back.
LEMMA PlannerCaptureFails ==
  ASSUME PlannerInv, Planner!CaptureFails
  PROVE  PlannerInv'
<1>1. /\ tfPhase = "applying" /\ Len(tfApplied) \in Nat
      /\ ~tfCommitted /\ tfCommitted \in BOOLEAN
  BY DEF PlannerInv, PlannerShape, ItemsOK, Planner!CaptureFails
<1>2. /\ tfPhase' = "undoing" /\ tfUndo' = Len(tfApplied) /\ tfFailed' = {}
      /\ UNCHANGED <<tfPlan, tfTree, tfForward, tfBefore, tfApplied, tfCommitted>>
  BY DEF Planner!CaptureFails, Planner!Fails
<1>3. PlannerShape'
  <2>1. tfCommitted' \in BOOLEAN /\ ~tfCommitted'
    BY <1>1, <1>2
  <2>2. /\ tfPhase' = "undoing" /\ tfUndo' \in 0..Len(tfApplied')
        /\ tfPlan.status # "blocked"
    BY <1>1, <1>2 DEF PlannerInv, PlannerShape, Before
  <2> QED
    BY <1>1, <1>2, <2>1, <2>2, Zenon DEF PlannerInv, PlannerShape, Phases,
       Before, Undoing
<1>4. PlannerTrees'
  BY <1>2 DEF PlannerInv, PlannerTrees
<1>5. PlannerUndo' /\ PlannerEffects'
  BY <1>1, <1>2 DEF PlannerInv, PlannerTrees, PlannerUndo, PlannerEffects,
     Undoing
<1> QED
  BY <1>3, <1>4, <1>5 DEF PlannerInv

\* What the step of a handler leaves behind, whether it succeeds or fails.
LEMMA AdvanceFacts ==
  ASSUME NEW t, Planner!Advance(t), tfFailed = {}
  PROVE  /\ tfApplied' = Append(tfApplied, Planner!Item)
         /\ UNCHANGED <<tfPlan, tfBefore, tfCommitted>>
         /\ \/ tfPhase' = "undoing" /\ tfUndo' = Len(tfApplied')
            \/ /\ tfPhase' = IF Len(tfApplied') = Len(tfPlan.transforms) THEN "open"
                             ELSE "applying"
               /\ tfUndo' = tfUndo
         /\ tfFailed' = {}
         /\ tfTree' = t
BY DEF Planner!Advance, Planner!Fails

\* What a handler leaves behind that raised.
LEMMA FailFacts ==
  ASSUME Planner!Fails(Append(tfApplied, Planner!Item))
  PROVE  /\ tfApplied' = Append(tfApplied, Planner!Item)
         /\ UNCHANGED <<tfPlan, tfBefore, tfCommitted>>
         /\ tfPhase' = "undoing" /\ tfUndo' = Len(tfApplied')
         /\ tfFailed' = {}
BY DEF Planner!Fails

\* A handler that replaces the module of its one target, or fails before it did.
LEMMA Replaced ==
  ASSUME PlannerInv, tfPhase = "applying", Planner!CanCapture,
         KindOf(Planner!CurrentId) # "remat",
         tfApplied' = Append(tfApplied, Planner!Item),
         UNCHANGED <<tfPlan, tfBefore, tfCommitted, tfForward>>,
         tfFailed' = {},
         NEW made,
         made.impl = Planner!CurrentId,
         \/ tfPhase' = "undoing" /\ tfUndo' = Len(tfApplied') /\ tfTree' = tfTree
         \/ /\ Len(Transforms[Planner!CurrentId].targets) = 1
            /\ tfTree' = [tfTree EXCEPT ![Transforms[Planner!CurrentId].targets[1]] = made]
            /\ \/ tfPhase' = "undoing" /\ tfUndo' = Len(tfApplied')
               \/ /\ tfPhase' = IF Len(tfApplied') = Len(tfPlan.transforms) THEN "open"
                                ELSE "applying"
                  /\ tfUndo' = tfUndo
  PROVE  PlannerInv'
<1> DEFINE id == Planner!CurrentId  q == Transforms[id].targets[1]
<1>1. id \in DOMAIN Transforms /\ TargetsOf(id) \subseteq ModulePaths
  BY CurrentFacts
<1>2. Planner!Item.id = id
  BY DEF Planner!Item
<1>3. \A m : ~Hits(Planner!Item, m)
  BY <1>2 DEF Hits
<1>4. tfForward' = [m \in Modules |-> IF Hits(Planner!Item, m)
                      THEN Append(tfForward[m], id) ELSE tfForward[m]]
  BY <1>3 DEF PlannerInv, PlannerTrees
<1>5. /\ tfTree = [p \in ModulePaths |-> tfTree[p]]
      /\ \A p \in ModulePaths : tfTree[p].impl \in Modules
  BY DEF PlannerInv, PlannerTrees
<1>6. Len(Transforms[id].targets) = 1 => TargetsOf(id) = {q} /\ q \in ModulePaths
  <2>1. Transforms[id].targets \in Seq(ModulePaths)
    BY <1>1, PlannerAssumption DEF ModulePaths
  <2> QED
    BY <1>1, <2>1 DEF TargetsOf
<1> HIDE DEF id
<1>7. /\ tfTree' = [p \in ModulePaths |-> tfTree'[p]]
      /\ \A p \in ModulePaths : tfTree'[p].impl \in Modules
      /\ \A p \in ModulePaths : tfTree'[p] # tfTree[p] => Changes(id, p)
  <2>1. CASE tfTree' = tfTree
    BY <1>5, <2>1
  <2>2. CASE /\ Len(Transforms[id].targets) = 1
             /\ tfTree' = [tfTree EXCEPT ![Transforms[id].targets[1]] = made]
    <3>1. \A p \in ModulePaths : tfTree'[p] = IF p = q THEN made ELSE tfTree[p]
      BY <1>5, <1>6, <2>2
    <3>2. tfTree' = [p \in ModulePaths |-> tfTree'[p]]
      BY <1>5, <2>2
    <3> QED
      BY <1>1, <1>5, <1>6, <2>2, <3>1, <3>2 DEF Changes, Modules, id
  <2> QED
    BY <2>1, <2>2 DEF id
<1>8. \/ tfPhase' = "undoing" /\ tfUndo' = Len(tfApplied')
      \/ /\ tfPhase' = IF Len(tfApplied') = Len(tfPlan.transforms) THEN "open"
                       ELSE "applying"
         /\ tfUndo' = tfUndo
         /\ \A p \in TargetsOf(id) : Effect(id, p, tfTree', tfForward')
  <2>1. ASSUME Len(Transforms[id].targets) = 1,
               tfTree' = [tfTree EXCEPT ![Transforms[id].targets[1]] = made]
        PROVE  \A p \in TargetsOf(id) : Effect(id, p, tfTree', tfForward')
    <3>1. TargetsOf(id) = {q} /\ tfTree'[q] = made
      BY <1>5, <1>6, <2>1
    <3> QED
      BY <3>1 DEF Effect, id
  <2> QED
    BY <2>1 DEF id
<1> QED
  BY <1>4, <1>7, <1>8, Advanced DEF id

\* A packing handler replaces its one target, or fails before it did.
LEMMA PlannerPacks ==
  ASSUME PlannerInv, Planner!ApplyPack
  PROVE  PlannerInv'
<1> DEFINE id == Planner!CurrentId
<1>1. tfPhase = "applying" /\ Planner!CanCapture /\ Planner!Current.kind = "pack"
  BY DEF Planner!ApplyPack
<1>2. KindOf(id) = "pack" /\ tfFailed = {}
  BY <1>1 DEF Planner!Current, KindOf, PlannerInv, PlannerShape
<1> DEFINE made == [impl |-> id, params |-> id, names |-> "packed"]
           next == [tfTree EXCEPT ![Transforms[id].targets[1]] = made]
<1>3. CASE /\ Len(Transforms[id].targets) = 1
           /\ Planner!Advance(next) /\ UNCHANGED tfForward
  BY <1>1, <1>2, <1>3, AdvanceFacts, Replaced
<1>4. CASE /\ Planner!Fails(Append(tfApplied, Planner!Item))
           /\ UNCHANGED <<tfTree, tfForward>>
  <2>1. made.impl = id
    OBVIOUS
  <2> HIDE DEF made
  <2> QED
    BY <1>1, <1>2, <1>4, <2>1, FailFacts, Replaced
<1> QED
  BY <1>3, <1>4 DEF Planner!ApplyPack, Planner!Current

\* A foreign handler may have replaced its target when it raises.
LEMMA PlannerForeign ==
  ASSUME PlannerInv, Planner!ApplyForeign
  PROVE  PlannerInv'
<1> DEFINE id == Planner!CurrentId
<1>1. tfPhase = "applying" /\ Planner!CanCapture /\ Planner!Current.kind = "foreign"
  BY DEF Planner!ApplyForeign
<1>2. /\ KindOf(id) = "foreign" /\ tfFailed = {}
      /\ Len(Transforms[id].targets) = 1
  BY <1>1, CurrentFacts, PlannerAssumption, Zenon DEF Planner!Current, KindOf,
     PlannerInv, PlannerShape
<1> DEFINE old == tfTree[Transforms[id].targets[1]]
           made(params) == [impl |-> id, params |-> params, names |-> old.names]
           next(params) == [tfTree EXCEPT ![Transforms[id].targets[1]] = made(params)]
<1>3. PICK params : /\ UNCHANGED tfForward
                    /\ \/ Planner!Advance(next(params))
                       \/ /\ tfTree' \in {tfTree, next(params)}
                          /\ Planner!Fails(Append(tfApplied, Planner!Item))
  BY Zenon DEF Planner!ApplyForeign, Planner!Current
<1>4. made(params).impl = id
  OBVIOUS
<1>5. CASE Planner!Advance(next(params))
  BY <1>1, <1>2, <1>3, <1>4, <1>5, AdvanceFacts, Replaced
<1>6. CASE /\ tfTree' \in {tfTree, next(params)}
           /\ Planner!Fails(Append(tfApplied, Planner!Item))
  BY <1>1, <1>2, <1>3, <1>4, <1>6, FailFacts, Replaced
<1> QED
  BY <1>3, <1>5, <1>6

\* Rematerialization wraps the forward of its targets, and nothing else.
LEMMA PlannerRemats ==
  ASSUME PlannerInv, Planner!ApplyRemat
  PROVE  PlannerInv'
<1> DEFINE id == Planner!CurrentId
           hit == {tfTree[p].impl : p \in TargetsOf(id)}
<1>1. /\ tfPhase = "applying" /\ Planner!CanCapture /\ Planner!Current.kind = "remat"
      /\ tfFailed = {}
  BY DEF Planner!ApplyRemat, PlannerInv, PlannerShape
<1>2. /\ KindOf(id) = "remat" /\ id \in DOMAIN Transforms
      /\ TargetsOf(id) \subseteq ModulePaths
      /\ Planner!ToSet(Planner!Current.targets) = TargetsOf(id)
  BY <1>1, CurrentFacts
<1>3. Planner!Item.id = id /\ Planner!Item.snapshot = [m \in hit |-> tfForward[m]]
  BY <1>1, <1>2 DEF Planner!Item, Planner!Snapshot
<1>4. \A m : Hits(Planner!Item, m) <=> m \in hit
  BY <1>2, <1>3 DEF Hits
<1>5. tfForward' = [m \in Modules |-> IF m \in hit
                      THEN Append(tfForward[m], id) ELSE tfForward[m]]
  BY <1>2 DEF Planner!ApplyRemat, Planner!Impls, Modules, Planner!Paths,
     ModulePaths
<1>6. tfForward' = [m \in Modules |-> IF Hits(Planner!Item, m)
                      THEN Append(tfForward[m], id) ELSE tfForward[m]]
  BY <1>4, <1>5
<1>7. /\ tfApplied' = Append(tfApplied, Planner!Item)
      /\ UNCHANGED <<tfPlan, tfBefore, tfCommitted>>
      /\ \/ tfPhase' = "undoing" /\ tfUndo' = Len(tfApplied')
         \/ /\ tfPhase' = IF Len(tfApplied') = Len(tfPlan.transforms) THEN "open"
                          ELSE "applying"
            /\ tfUndo' = tfUndo
      /\ tfFailed' = {}
      /\ tfTree' = tfTree
  BY <1>1, AdvanceFacts DEF Planner!ApplyRemat
<1>8. \A p \in TargetsOf(id) : Effect(id, p, tfTree', tfForward')
  <2> TAKE p \in TargetsOf(id)
  <2> DEFINE m == tfTree[p].impl
  <2>1. m \in Modules /\ m \in hit /\ tfForward[m] \in Seq(DOMAIN Transforms)
    BY <1>2 DEF PlannerInv, PlannerTrees
  <2>2. tfForward'[m] = Append(tfForward[m], id)
    BY <1>5, <2>1
  <2> HIDE DEF m, hit
  <2>3. /\ Len(tfForward[m]) + 1 \in DOMAIN tfForward'[m]
        /\ tfForward'[m][Len(tfForward[m]) + 1] = id
    <3> HIDE DEF id
    <3> QED
      BY <1>2, <2>1, <2>2
  <2> QED
    BY <1>2, <1>7, <2>3 DEF Effect, m
<1>9. /\ tfTree' = [p \in ModulePaths |-> tfTree'[p]]
      /\ \A p \in ModulePaths : tfTree'[p].impl \in Modules
      /\ \A p \in ModulePaths : tfTree'[p] # tfTree[p] => Changes(id, p)
  BY <1>7 DEF PlannerInv, PlannerTrees
<1> QED
  BY <1>1, <1>6, <1>7, <1>8, <1>9, Advanced

\* One item is rolled back: its wrappers go, its module comes back, or its
\* rollback raised. A packed module cannot be reached any more only below a
\* module that a foreign handler replaced and did not give back.
LEMMA PlannerUndoes ==
  ASSUME PlannerInv, Planner!UndoOne
  PROVE  PlannerInv'
<1> DEFINE n == tfUndo - 1
           item == tfApplied[tfUndo]
           id == item.id
           back == item.snapshot
           ts == tfPlan.transforms
           reachable == KindOf(id) = "remat" \/ \A p \in DOMAIN back : Planner!Resolves(p)
<1>1. /\ tfPhase \in {"undoing", "retracting"} /\ tfUndo > 0
      /\ tfUndo' = tfUndo - 1
      /\ UNCHANGED <<tfPhase, tfPlan, tfBefore, tfApplied, tfCommitted>>
      /\ \/ /\ reachable
            /\ IF KindOf(id) = "remat"
               THEN /\ tfForward' = [m \in Modules |-> IF m \in DOMAIN back
                                       THEN back[m] ELSE tfForward[m]]
                    /\ UNCHANGED tfTree
               ELSE /\ tfTree' = [p \in ModulePaths |-> IF p \in DOMAIN back
                                    THEN back[p] ELSE tfTree[p]]
                    /\ UNCHANGED tfForward
            /\ UNCHANGED tfFailed
         \/ /\ ~reachable \/ KindOf(id) = "foreign"
            /\ tfFailed' = tfFailed \cup {id}
            /\ UNCHANGED <<tfTree, tfForward>>
  BY DEF Planner!UndoOne, Planner!UndoIndex, KindOf, Planner!Impls,
     Planner!Paths, Modules, ModulePaths
<1>2. /\ tfUndo \in 1..Len(tfApplied) /\ Len(tfApplied) \in Nat
      /\ tfUndo \in 1..Len(ts) /\ ~tfCommitted /\ tfCommitted \in BOOLEAN
      /\ ts \in Seq(DOMAIN Transforms)
  BY <1>1 DEF PlannerInv, PlannerShape, ItemsOK
<1>3. n \in Nat /\ n + 1 = tfUndo /\ n \in 0..Len(tfApplied) /\ tfUndo' = n
  BY <1>1, <1>2
<1>4. ItemOK(item, tfApplied, n + 1, ts, tfBefore[1])
  BY <1>2, <1>3 DEF PlannerInv, PlannerShape, ItemsOK
<1>5. /\ id = ts[n + 1] /\ id \in DOMAIN Transforms
      /\ TargetsOf(id) \subseteq ModulePaths
      /\ KindOf(id) \in {"pack", "remat", "foreign"}
      /\ KindOf(id) \in {"pack", "foreign"} => DOMAIN back = TargetsOf(id)
  BY <1>2, <1>3, <1>4, PlannerAssumption DEF ItemOK, TargetsOf, KindOf,
     ModulePaths
<1>6. PlannerShape'
  <2>1. tfCommitted' \in BOOLEAN /\ ~tfCommitted'
    BY <1>1, <1>2
  <2>2. tfUndo' \in 0..Len(tfApplied')
    BY <1>1, <1>3
  <2> QED
    BY <1>1, <2>1, <2>2, Zenon DEF PlannerInv, PlannerShape, Phases, Before,
       Undoing
<1>7. PlannerEffects'
  BY <1>1, <1>2 DEF PlannerEffects
<1> DEFINE Old(p, i) == i \in 1..n /\ Changes(ts[i], p)
<1>8. ASSUME NEW p \in ModulePaths, tfTree[p] # tfBefore[1][p], ~Excused(p)
      PROVE  Changes(id, p) \/ \E i \in 1..n : Changes(ts[i], p)
  <2>1. PICK i \in 1..tfUndo : Changes(ts[i], p)
    BY <1>1, <1>2, <1>8 DEF PlannerInv, PlannerUndo, Undoing
  <2>2. i \in 1..n \/ i = n + 1
    BY <1>3
  <2> QED
    BY <1>5, <2>1, <2>2
<1>9. \A m \in Modules : tfForward[m] = <<>> \/ StackIs(tfApplied, n + 1, m, tfForward[m])
  BY <1>1, <1>2, <1>3 DEF PlannerInv, PlannerUndo, Undoing
<1>10. KindOf(id) # "remat" =>
         \A m \in Modules : tfForward[m] = <<>> \/ StackIs(tfApplied, n, m, tfForward[m])
  <2> SUFFICES ASSUME KindOf(id) # "remat", NEW m \in Modules, tfForward[m] # <<>>
               PROVE  StackIs(tfApplied, n, m, tfForward[m])
    OBVIOUS
  <2>1. ~Hits(tfApplied[n + 1], m)
    BY <1>3 DEF Hits
  <2>2. StackIs(tfApplied, n + 1, m, tfForward[m])
    BY <1>9
  <2> HIDE DEF n
  <2> QED
    BY <1>3, <2>1, <2>2, StackBack
<1>11. ASSUME KindOf(id) = "remat", 
              tfForward' = [m \in Modules |-> IF m \in DOMAIN back
                              THEN back[m] ELSE tfForward[m]],
              UNCHANGED tfTree, UNCHANGED tfFailed
       PROVE  PlannerTrees' /\ PlannerUndo'
  <2>1. ASSUME NEW m \in Modules
        PROVE  /\ tfForward'[m] \in Seq(DOMAIN Transforms)
               /\ tfForward'[m] = <<>> \/ StackIs(tfApplied, n, m, tfForward'[m])
    <3>1. CASE m \in DOMAIN back
      <4>1. (n + 1) - 1 = n
        BY <1>3
      <4>2. tfForward'[m] = back[m]
        BY <1>11, <3>1
      <4>3. /\ back[m] \in Seq(DOMAIN Transforms)
            /\ StackIs(tfApplied, (n + 1) - 1, m, back[m])
        BY <1>4, <1>5, <1>11, <3>1 DEF ItemOK
      <4> QED
        BY <4>1, <4>2, <4>3
    <3>2. CASE m \notin DOMAIN back
      <4>1. tfForward'[m] = tfForward[m] /\ tfForward[m] \in Seq(DOMAIN Transforms)
        BY <1>11, <3>2 DEF PlannerInv, PlannerTrees
      <4>2. ~Hits(tfApplied[n + 1], m)
        BY <1>3, <3>2 DEF Hits
      <4>3. tfForward[m] = <<>> \/ StackIs(tfApplied, n, m, tfForward[m])
        <5> HIDE DEF n
        <5> QED
          BY <1>3, <1>9, <4>2, StackBack
      <4> QED
        BY <4>1, <4>3
    <3> QED
      BY <3>1, <3>2
  <2>2. PlannerTrees'
    <3>1. tfForward' = [m \in Modules |-> tfForward'[m]]
      BY <1>11
    <3>2. Len(tfApplied') # 0
      BY <1>1, <1>2
    <3> QED
      BY <1>1, <1>11, <2>1, <3>1, <3>2 DEF PlannerInv, PlannerTrees
  <2>3. ASSUME NEW p \in ModulePaths, tfTree'[p] # tfBefore[1][p], ~Excused(p)'
        PROVE  \E i \in 1..n : Changes(ts[i], p)
    <3>1. ~Excused(p) /\ tfTree[p] # tfBefore[1][p]
      BY <1>11, <2>3 DEF Excused
    <3> QED
      BY <1>8, <1>11, <3>1 DEF Changes
  <2>4. PlannerUndo'
    BY <1>1, <1>2, <1>3, <2>1, <2>3 DEF PlannerUndo, Undoing
  <2> QED
    BY <2>2, <2>4
<1>12. ASSUME KindOf(id) # "remat",
              tfTree' = [p \in ModulePaths |-> IF p \in DOMAIN back
                           THEN back[p] ELSE tfTree[p]],
              UNCHANGED tfForward, UNCHANGED tfFailed
       PROVE  PlannerTrees' /\ PlannerUndo'
  <2>1. back = [q \in TargetsOf(id) |-> tfBefore[1][q]]
    BY <1>4, <1>5, <1>12 DEF ItemOK
  <2>2. \A p \in ModulePaths : tfTree'[p] = IF p \in TargetsOf(id) THEN tfBefore[1][p]
                                             ELSE tfTree[p]
    BY <1>5, <1>12, <2>1
  <2>3. PlannerTrees'
    <3>1. tfTree' = [p \in ModulePaths |-> tfTree'[p]]
      BY <1>12
    <3>2. \A p \in ModulePaths : tfTree'[p].impl \in Modules
      BY <2>2 DEF PlannerInv, PlannerTrees, Modules
    <3>3. \A p \in ModulePaths : tfTree'[p] # tfBefore[1][p] => tfTree[p] # tfBefore[1][p]
      BY <2>2
    <3> QED
      BY <1>1, <1>12, <3>1, <3>2, <3>3 DEF PlannerInv, PlannerTrees
  <2>4. ASSUME NEW p \in ModulePaths, tfTree'[p] # tfBefore[1][p], ~Excused(p)'
        PROVE  \E i \in 1..n : Changes(ts[i], p)
    <3>1. ~Excused(p) /\ tfTree[p] # tfBefore[1][p] /\ p \notin TargetsOf(id)
      BY <1>12, <2>2, <2>4 DEF Excused
    <3>2. ~Changes(id, p)
      BY <3>1 DEF Changes
    <3> QED
      BY <1>8, <3>1, <3>2
  <2>5. \A m \in Modules : tfForward'[m] = <<>> \/ StackIs(tfApplied, n, m, tfForward'[m])
    BY <1>10, <1>12
  <2>6. PlannerUndo'
    BY <1>1, <1>2, <1>3, <2>4, <2>5 DEF PlannerUndo, Undoing
  <2> QED
    BY <2>3, <2>6
<1>13. ASSUME ~reachable \/ KindOf(id) = "foreign",
              tfFailed' = tfFailed \cup {id},
              UNCHANGED <<tfTree, tfForward>>
       PROVE  PlannerTrees' /\ PlannerUndo'
  <2>1. KindOf(id) # "remat" /\ DOMAIN back = TargetsOf(id)
    BY <1>5, <1>13
  <2>2. PlannerTrees'
    BY <1>1, <1>13 DEF PlannerInv, PlannerTrees
  <2>3. ASSUME NEW q \in ModulePaths, ~Excused(q)'
        PROVE  ~Excused(q) /\ (KindOf(id) = "foreign" => ~Planner!Touches(id, q))
    BY <1>13, <2>3 DEF Excused
  <2>4. ASSUME NEW p \in ModulePaths, tfTree'[p] # tfBefore[1][p], ~Excused(p)'
        PROVE  \E i \in 1..n : Changes(ts[i], p)
    <3>1. ~Excused(p) /\ (KindOf(id) = "foreign" => ~Planner!Touches(id, p))
          /\ tfTree[p] # tfBefore[1][p]
      BY <1>13, <2>3, <2>4
    <3>2. SUFFICES ASSUME Changes(id, p)
                   PROVE  FALSE
      BY <1>8, <3>1
    <3>3. TargetsOf(id) = {p}
      BY <3>2 DEF Changes
    <3>4. \A r, a : Planner!Touches(r, a) <=> TargetsOf(r) \cap (Ancestors[a] \cup {a}) # {}
      BY DEF Planner!Touches, Planner!ToSet, TargetsOf, Planner!Below
    <3>5. KindOf(id) = "pack"
      BY <1>5, <2>1, <3>1, <3>3, <3>4
    <3>6. PICK a \in Ancestors[p] : tfTree[a].impl \notin ModulePaths
      BY <1>13, <2>1, <3>3, <3>5 DEF Planner!Resolves, Planner!Paths,
         ModulePaths
    <3>7. a \in ModulePaths /\ a # p /\ Ancestors[a] \subseteq Ancestors[p]
      BY <3>6, PlannerAssumption DEF ModulePaths
    <3>8. tfTree[a] # tfBefore[1][a]
      BY <3>6, <3>7 DEF PlannerInv, PlannerTrees
    <3>9. ~Excused(a)
      BY <3>1, <3>4, <3>6, <3>7 DEF Excused
    <3>10. PICK i \in 1..n : Changes(ts[i], a)
      <4>1. ~Changes(id, a)
        BY <3>3, <3>7 DEF Changes
      <4> QED
        BY <1>8, <3>7, <3>8, <3>9, <4>1
    <3>11. (n + 1) - 1 = n /\ p \in TargetsOf(ts[n + 1])
      BY <1>3, <1>5, <3>3
    <3>12. ~Changes(ts[i], a)
      <4> HIDE DEF n, item, ts
      <4> QED
        BY <1>4, <3>6, <3>10, <3>11 DEF ItemOK
    <3> QED
      BY <3>10, <3>12
  <2>5. \A m \in Modules : tfForward'[m] = <<>> \/ StackIs(tfApplied, n, m, tfForward'[m])
    BY <1>10, <1>13, <2>1
  <2>6. PlannerUndo'
    BY <1>1, <1>2, <1>3, <2>4, <2>5 DEF PlannerUndo, Undoing
  <2> QED
    BY <2>2, <2>6
<1> QED
  <2> HIDE DEF reachable, item, back
  <2> QED
    BY <1>1, <1>6, <1>7, <1>11, <1>12, <1>13 DEF PlannerInv

\* The end of a rollback changes nothing of the model.
LEMMA PlannerEnds ==
  ASSUME PlannerInv, Planner!Undone
  PROVE  PlannerInv'
<1>1. /\ tfPhase \in {"undoing", "retracting"} /\ tfUndo = 0
      /\ tfPhase' \in {"failed", "closed", "stuck"}
      /\ tfPhase' = "stuck" => tfFailed # {}
      /\ UNCHANGED <<tfPlan, tfTree, tfForward, tfBefore, tfApplied, tfUndo,
                     tfFailed, tfCommitted>>
  BY DEF Planner!Undone
<1>2. tfCommitted' \in BOOLEAN /\ ~tfCommitted' /\ ~tfCommitted
  BY <1>1 DEF PlannerInv, PlannerShape
<1>3. PlannerShape'
  BY <1>1, <1>2, Zenon DEF PlannerInv, PlannerShape, Phases, Before, Undoing
<1>4. PlannerTrees'
  BY <1>1 DEF PlannerInv, PlannerTrees
<1>5. PlannerUndo'
  BY <1>1, <1>2 DEF PlannerInv, PlannerUndo, Undoing, Excused
<1>6. PlannerEffects'
  BY <1>1, <1>2 DEF PlannerEffects
<1> QED
  BY <1>3, <1>4, <1>5, <1>6 DEF PlannerInv

\* A commit ends the transaction with every transformation in effect.
LEMMA PlannerCommits ==
  ASSUME PlannerInv, Planner!Commit
  PROVE  PlannerInv'
<1>1. /\ tfPhase \in {"open", "stuck"} /\ tfPhase' = "closed" /\ tfCommitted' = TRUE
      /\ UNCHANGED <<tfPlan, tfTree, tfForward, tfBefore, tfApplied, tfUndo, tfFailed>>
  BY DEF Planner!Commit
<1>2. tfCommitted' \in BOOLEAN /\ tfCommitted'
  BY <1>1
<1>3. PlannerShape'
  BY <1>1, <1>2, Zenon DEF PlannerInv, PlannerShape, Phases, Before, Undoing
<1>4. PlannerTrees'
  BY <1>1 DEF PlannerInv, PlannerTrees
<1>5. PlannerUndo'
  BY <1>1, <1>2 DEF PlannerUndo
<1>6. PlannerEffects'
  BY <1>1, Zenon DEF PlannerInv, PlannerShape, PlannerEffects
<1> QED
  BY <1>3, <1>4, <1>5, <1>6 DEF PlannerInv

\* A rollback starts from the last item, also when it is tried again.
LEMMA PlannerRetracts ==
  ASSUME PlannerInv, Planner!Rollback
  PROVE  PlannerInv'
<1>1. /\ tfPhase \in {"open", "stuck"} /\ tfPhase' = "retracting"
      /\ tfUndo' = Len(tfApplied) /\ tfFailed' = {}
      /\ UNCHANGED <<tfPlan, tfTree, tfForward, tfBefore, tfApplied, tfCommitted>>
  BY DEF Planner!Rollback
<1>2. /\ tfCommitted' \in BOOLEAN /\ ~tfCommitted' /\ ~tfCommitted
  BY <1>1 DEF PlannerInv, PlannerShape
<1>3. Len(tfApplied) \in Nat /\ tfUndo' \in 0..Len(tfApplied')
  BY <1>1 DEF PlannerInv, PlannerShape, ItemsOK
<1>4. PlannerShape'
  BY <1>1, <1>2, <1>3, Zenon DEF PlannerInv, PlannerShape, Phases, Before,
     Undoing
<1>5. PlannerTrees'
  BY <1>1 DEF PlannerInv, PlannerTrees
<1>6. \A m \in Modules : tfForward[m] = <<>> \/ StackIs(tfApplied, Len(tfApplied), m, tfForward[m])
  <2>1. CASE tfPhase = "open"
    BY <2>1 DEF PlannerInv, PlannerUndo
  <2>2. CASE tfPhase = "stuck"
    <3>1. tfUndo = 0
      BY <2>2 DEF PlannerInv, PlannerShape
    <3>2. \A m \in Modules : tfForward[m] = <<>> \/ StackIs(tfApplied, 0, m, tfForward[m])
      BY <1>2, <2>2, <3>1 DEF PlannerInv, PlannerUndo, Undoing
    <3>3. \A m, v : StackIs(tfApplied, 0, m, v) => v = <<>>
      BY DEF StackIs
    <3> QED
      BY <3>2, <3>3
  <2> QED
    BY <1>1, <2>1, <2>2
<1>7. PlannerUndo'
  BY <1>1, <1>2, <1>6 DEF PlannerInv, PlannerTrees, PlannerUndo, Undoing
<1>8. PlannerEffects'
  BY <1>1, <1>2 DEF PlannerEffects
<1> QED
  BY <1>4, <1>5, <1>7, <1>8 DEF PlannerInv

\* A step of another part leaves the planner's invariant alone.
LEMMA PlannerStays ==
  ASSUME PlannerInv, UNCHANGED PlannerVars
  PROVE  PlannerInv'
<1>1. UNCHANGED <<tfPhase, tfPlan, tfTree, tfForward, tfBefore, tfApplied, tfUndo,
                  tfFailed, tfCommitted>>
  BY DEF PlannerVars
<1>2. PlannerShape'
  BY <1>1, Zenon DEF PlannerInv, PlannerShape
<1>3. PlannerTrees'
  BY <1>1 DEF PlannerInv, PlannerTrees
<1>4. PlannerUndo'
  BY <1>1 DEF PlannerInv, PlannerUndo, Excused
<1>5. PlannerEffects'
  BY <1>1, Zenon DEF PlannerInv, PlannerEffects
<1> QED
  BY <1>2, <1>3, <1>4, <1>5 DEF PlannerInv

\* The invariant is inductive.
LEMMA PlannerNext ==
  ASSUME PlannerInv, Planner!Next
  PROVE  PlannerInv'
BY PlannerMakes, PlannerApplies, PlannerCaptureFails, PlannerPacks,
   PlannerRemats, PlannerForeign, PlannerUndoes, PlannerEnds, PlannerCommits,
   PlannerRetracts DEF Planner!Next

\* PolicyHonoured, from what a plan is and from the empty transaction of a plan
\* without transformations.
LEMMA PlannerHonours ==
  ASSUME PlannerInv
  PROVE  Planner!PolicyHonoured
<1> SUFFICES ASSUME tfCommitted
             PROVE  /\ tfPlan.policy = "required" =>
                         \A i \in DOMAIN tfPlan.decisions :
                           tfPlan.decisions[i].status = "selected"
                    /\ tfPlan.policy = "disabled" => <<tfTree, tfForward>> = tfBefore
  BY DEF Planner!PolicyHonoured
<1>1. tfPhase = "closed" /\ PlanFacts(tfPlan) /\ tfPlan.status # "blocked"
  BY DEF PlannerInv, PlannerShape, Before
<1>2. ASSUME tfPlan.policy = "disabled"
      PROVE  <<tfTree, tfForward>> = tfBefore
  <2>1. Len(tfApplied) = 0
    BY <1>1, <1>2 DEF PlanFacts, PlannerInv, PlannerShape, ItemsOK
  <2>2. tfForward = tfBefore[2] /\ \A p \in ModulePaths : tfTree[p] = tfBefore[1][p]
    BY <2>1 DEF PlannerInv, PlannerTrees
  <2>3. tfTree = tfBefore[1]
    <3>1. /\ tfBefore[1] = [p \in ModulePaths |-> tfBefore[1][p]]
          /\ tfTree = [p \in ModulePaths |-> tfTree[p]]
      BY DEF PlannerInv, PlannerTrees
    <3> QED
      BY <2>2, <3>1
  <2>4. tfBefore = <<tfBefore[1], tfBefore[2]>>
    BY DEF PlannerInv, PlannerTrees
  <2> QED
    BY <2>2, <2>3, <2>4
<1> QED
  BY <1>1, <1>2 DEF PlanFacts

\* TransformsAtomic, from a rollback that has visited every item, and from the
\* effects a committed plan left.
LEMMA PlannerAtomic ==
  ASSUME PlannerInv
  PROVE  Planner!TransformsAtomic
<1>1. ASSUME tfPhase \in {"failed", "closed", "stuck", "refused"}, ~tfCommitted,
             NEW p \in ModulePaths,
             \A id \in tfFailed :
               Transforms[id].kind = "foreign" => ~Planner!Touches(id, p)
      PROVE  /\ tfTree[p] = tfBefore[1][p]
             /\ tfForward[tfTree[p].impl] = tfBefore[2][tfTree[p].impl]
  <2>1. ~Excused(p)
    BY <1>1 DEF Excused, KindOf
  <2>2. /\ tfTree[p].impl \in Modules
        /\ tfBefore[2] = [m \in Modules |-> <<>>]
    BY DEF PlannerInv, PlannerTrees
  <2>3. CASE tfPhase = "refused"
    <3>1. Len(tfApplied) = 0
      BY <2>3 DEF PlannerInv, PlannerShape, Before
    <3> QED
      BY <3>1 DEF PlannerInv, PlannerTrees
  <2>4. CASE tfPhase # "refused"
    <3>1. tfUndo = 0
      BY <1>1, <2>4 DEF PlannerInv, PlannerShape, PlannerUndo, Undoing
    <3>2. tfTree[p] = tfBefore[1][p]
      BY <1>1, <2>1, <2>4, <3>1 DEF PlannerInv, PlannerUndo, Undoing
    <3>3. \A m \in Modules : tfForward[m] = <<>> \/ StackIs(tfApplied, 0, m, tfForward[m])
      BY <1>1, <2>4, <3>1 DEF PlannerInv, PlannerUndo, Undoing
    <3>4. \A m, v : StackIs(tfApplied, 0, m, v) => v = <<>>
      BY DEF StackIs
    <3> QED
      BY <2>2, <3>2, <3>3, <3>4
  <2> QED
    BY <2>3, <2>4
<1>2. ASSUME tfCommitted, tfFailed = {}, NEW i \in DOMAIN tfPlan.transforms,
             NEW p \in Planner!ToSet(Transforms[tfPlan.transforms[i]].targets)
      PROVE  IF Transforms[tfPlan.transforms[i]].kind = "remat"
             THEN tfPlan.transforms[i] \in Planner!ToSet(tfForward[tfTree[p].impl])
             ELSE tfTree[p].impl = tfPlan.transforms[i]
  <2>1. i \in 1..Len(tfApplied)
    BY <1>2 DEF PlannerInv, PlannerShape
  <2>2. p \in TargetsOf(tfPlan.transforms[i])
    BY <1>2 DEF Planner!ToSet, TargetsOf
  <2>3. Effect(tfPlan.transforms[i], p, tfTree, tfForward)
    BY <1>2, <2>1, <2>2, Zenon DEF PlannerInv, PlannerEffects
  <2> QED
    BY <2>3 DEF Effect, KindOf, Planner!ToSet
<1> QED
  BY <1>1, <1>2 DEF Planner!TransformsAtomic, Planner!Paths, ModulePaths

-----------------------------------------------------------------------------
(* StateLayouts: packing, training and exporting                            *)

\* A tensor has rows, a kind and a flag.
IsTensor(t) ==
  /\ t = [rows |-> t.rows, kind |-> t.kind, grad |-> t.grad]
  /\ \E S : t.rows \in Seq(S)

\* A mapping has a part and a size for each projection.
IsMapping(m) ==
  /\ DOMAIN m.parts = 1..Len(m.parts) /\ Len(m.parts) \in Nat \ {0}
  /\ m.sizes \in Seq(Nat) /\ Len(m.sizes) = Len(m.parts)

\* What was loaded: the mappings are those of the layout, and were accepted.
IsSpec(sp) ==
  /\ sp.layout \in Layouts /\ sp.ties \in TieGroups
  /\ sp.maps = Layout!FlattenSeq(
       [i \in DOMAIN sp.layout |-> Layout!Mappings(sp.layout[i])])
  /\ Layout!Constructs(sp.maps, sp.ties)

\* The running sums of a layout are those of PackedSchedule.
LEMMA LayoutSums ==
  /\ \A s : Layout!FlattenSeq(s) = FlattenSeq(s)
  /\ \A c : Layout!Cumulative(c) = Cumulative(c)
  /\ \A c : Layout!Total(c) = Total(c)
<1>1. \A s : Layout!FlattenSeq(s) = FlattenSeq(s)
  BY DEF Layout!FlattenSeq, FlattenSeq
<1>2. \A c : Layout!Cumulative(c) = Cumulative(c)
  BY DEF Layout!Cumulative, Cumulative
<1>3. \A c : Layout!Total(c) = Total(c)
  BY <1>2 DEF Layout!Total, Total
<1> QED
  BY <1>1, <1>2, <1>3

\* The members of a flattened sequence are those of its sequences.
LEMMA FlattenMembers ==
  ASSUME NEW S, NEW s \in Seq(Seq(S))
  PROVE  /\ FlattenSeq(s) \in Seq(S)
         /\ \A i \in DOMAIN FlattenSeq(s) : \E a \in 1..Len(s) :
              \E b \in 1..Len(s[a]) : FlattenSeq(s)[i] = s[a][b]
         /\ \A a \in 1..Len(s) : \A b \in 1..Len(s[a]) :
              \E i \in DOMAIN FlattenSeq(s) : FlattenSeq(s)[i] = s[a][b]
<1> DEFINE c == Lengths(s)
           f == FlattenSeq(s)
<1>1. /\ c \in Seq(Nat) /\ Len(c) = Len(s)
      /\ \A k \in 1..Len(s) : c[k] = Len(s[k])
  BY LengthsType
<1>2. f \in Seq(S)
  BY FlattenType
<1>3. /\ Len(f) = Total(c)
      /\ \A a \in 1..Len(s) : \A b \in 1..Len(s[a]) :
           f[Cumulative(c)[a - 1] + b] = s[a][b]
  BY FlattenItems
<1> HIDE DEF f, c
<1>4. DOMAIN f = 1..Total(c)
  BY <1>2, <1>3, LenProperties
<1>5. \A i \in DOMAIN f : \E a \in 1..Len(s) : \E b \in 1..Len(s[a]) :
        f[i] = s[a][b]
  <2> TAKE i \in DOMAIN f
  <2>1. PICK a \in 1..Len(c) :
          \E b \in 1..c[a] : i = Cumulative(c)[a - 1] + b
    BY <1>1, <1>4, InOnePart
  <2>2. PICK b \in 1..c[a] : i = Cumulative(c)[a - 1] + b
    BY <2>1
  <2> QED
    BY <1>1, <1>3, <2>2
<1>6. \A a \in 1..Len(s) : \A b \in 1..Len(s[a]) :
        \E i \in DOMAIN f : f[i] = s[a][b]
  <2> TAKE a \in 1..Len(s)
  <2> TAKE b \in 1..Len(s[a])
  <2>1. Cumulative(c)[a - 1] + b \in 1..Total(c)
    BY <1>1, PartWithin, Zenon
  <2> QED
    BY <1>3, <1>4, <2>1
<1> QED
  BY <1>2, <1>5, <1>6 DEF f

\* A function on 1..n is a sequence of n items.
LEMMA IsSequence ==
  ASSUME NEW n \in Nat, NEW f, f = [i \in 1..n |-> f[i]], NEW S,
         \A i \in 1..n : f[i] \in S
  PROVE  f \in Seq(S) /\ Len(f) = n
<1>1. f \in [1..n -> S]
  OBVIOUS
<1>2. f \in Seq(S)
  BY <1>1, SeqDef
<1>3. DOMAIN f = 1..n /\ DOMAIN f = 1..Len(f) /\ Len(f) \in Nat
  BY <1>1, <1>2, LenProperties
<1> QED
  BY <1>2, <1>3

\* A specification with parts has natural sizes, one for each part.
LEMMA MappingIs ==
  ASSUME NEW layout \in Layouts, NEW i \in DOMAIN layout,
         Layout!Parts(layout[i]) # <<>>, NEW tensor
  PROVE  IsMapping(Layout!Mapping(layout[i], tensor))
<1> DEFINE s == layout[i]
           m == Layout!Mapping(s, tensor)
<1>1. /\ m.parts = [j \in DOMAIN Layout!Parts(s) |->
                      <<Layout!Parts(s)[j], tensor>>]
      /\ m.sizes = Layout!Sizes(s)
  BY DEF Layout!Mapping
<1>2. /\ s.kind \in {"qkv", "partial"} =>
           s.heads \in Nat /\ s.kv \in Nat /\ s.dim \in Nat
      /\ s.kind = "gated" => s.width \in Nat
  BY LayoutAssumption
<1> HIDE DEF m
<1>3. CASE s.kind = "qkv"
  <2>1. /\ Layout!Parts(s) = <<"q", "k", "v">>
        /\ Layout!QuerySize(s) \in Nat /\ Layout!KVSize(s) \in Nat
    BY <1>2, <1>3 DEF Layout!Parts, Layout!QuerySize, Layout!KVSize
  <2>2. Layout!Sizes(s) =
          <<Layout!QuerySize(s), Layout!KVSize(s), Layout!KVSize(s)>>
    BY <1>3 DEF Layout!Sizes
  <2>3. m.sizes \in Seq(Nat) /\ Len(m.sizes) = 3
    BY <1>1, <2>1, <2>2
  <2>4. DOMAIN m.parts = 1..3 /\ Len(m.parts) = 3
    BY <1>1, <2>1
  <2> QED
    BY <2>3, <2>4 DEF IsMapping, m
<1>4. CASE s.kind = "partial"
  <2>1. /\ Layout!Parts(s) = <<"q", "kv">>
        /\ Layout!QuerySize(s) \in Nat /\ 2 * Layout!KVSize(s) \in Nat
    BY <1>2, <1>4 DEF Layout!Parts, Layout!QuerySize, Layout!KVSize
  <2>2. Layout!Sizes(s) = <<Layout!QuerySize(s), 2 * Layout!KVSize(s)>>
    BY <1>4 DEF Layout!Sizes
  <2>3. m.sizes \in Seq(Nat) /\ Len(m.sizes) = 2
    BY <1>1, <2>1, <2>2
  <2>4. DOMAIN m.parts = 1..2 /\ Len(m.parts) = 2
    BY <1>1, <2>1
  <2> QED
    BY <2>3, <2>4 DEF IsMapping, m
<1>5. CASE s.kind = "gated"
  <2>1. Layout!Parts(s) = <<"gate", "up">>
    BY <1>5 DEF Layout!Parts
  <2>2. Layout!Sizes(s) = <<s.width, s.width>>
    BY <1>5 DEF Layout!Sizes
  <2>3. m.sizes \in Seq(Nat) /\ Len(m.sizes) = 2
    BY <1>1, <1>2, <1>5, <2>2
  <2>4. DOMAIN m.parts = 1..2 /\ Len(m.parts) = 2
    BY <1>1, <2>1
  <2> QED
    BY <2>3, <2>4 DEF IsMapping, m
<1> QED
  BY <1>3, <1>4, <1>5 DEF Layout!Parts

\* The mappings are those of the specifications that have parts.
LEMMA MappingsAre ==
  ASSUME NEW sp, IsSpec(sp)
  PROVE  /\ \A m \in Layout!ToSet(sp.maps) : IsMapping(m)
         /\ \A s \in Layout!ToSet(sp.layout) : Layout!Parts(s) # <<>> =>
              Layout!Mapping(s, "weight") \in Layout!ToSet(sp.maps)
         /\ DOMAIN sp.maps = 1..Len(sp.maps)
<1> DEFINE L == sp.layout
           all == [i \in DOMAIN L |-> Layout!Mappings(L[i])]
           S == UNION {{all[i][b] : b \in 1..Len(all[i])} : i \in DOMAIN L}
<1>1. /\ L \in Layouts /\ Len(L) \in Nat /\ DOMAIN L = 1..Len(L)
      /\ \A i \in DOMAIN L : L[i].bias \in BOOLEAN
  BY LayoutAssumption DEF IsSpec
<1>2. \A i \in DOMAIN L :
        \/ Layout!Parts(L[i]) = <<>> /\ all[i] = <<>>
        \/ /\ Layout!Parts(L[i]) # <<>>
           /\ \/ all[i] = <<Layout!Mapping(L[i], "weight"),
                            Layout!Mapping(L[i], "bias")>>
              \/ all[i] = <<Layout!Mapping(L[i], "weight")>>
  BY DEF Layout!Mappings
<1>3. \A i \in DOMAIN L : /\ Len(all[i]) \in Nat
                           /\ all[i] = [b \in 1..Len(all[i]) |-> all[i][b]]
  <2> TAKE i \in DOMAIN L
  <2>1. CASE all[i] = <<>>
    <3> HIDE DEF all
    <3> QED
      BY <2>1
  <2>2. ASSUME NEW x, all[i] = <<x>>
        PROVE  /\ Len(all[i]) \in Nat
               /\ all[i] = [b \in 1..Len(all[i]) |-> all[i][b]]
    <3> HIDE DEF all
    <3> QED
      BY <2>2
  <2>3. ASSUME NEW x, NEW y, all[i] = <<x, y>>
        PROVE  /\ Len(all[i]) \in Nat
               /\ all[i] = [b \in 1..Len(all[i]) |-> all[i][b]]
    <3> HIDE DEF all
    <3> QED
      BY <2>3
  <2> HIDE DEF all
  <2> QED
    BY <1>2, <2>1, <2>2, <2>3
<1>4. all \in Seq(Seq(S)) /\ Len(all) = Len(L)
  <2>1. \A i \in DOMAIN L : all[i] \in Seq(S)
    <3> TAKE i \in DOMAIN L
    <3> HIDE DEF all
    <3>1. \A b \in 1..Len(all[i]) : all[i][b] \in S
      <4> TAKE b \in 1..Len(all[i])
      <4> DEFINE C(j) == {all[j][c] : c \in 1..Len(all[j])}
      <4>1. all[i][b] \in C(i)
        OBVIOUS
      <4>2. C(i) \in {C(j) : j \in DOMAIN L}
        OBVIOUS
      <4>3. S = UNION {C(j) : j \in DOMAIN L}
        OBVIOUS
      <4> HIDE DEF C, S
      <4> QED
        BY <4>1, <4>2, <4>3
    <3>2. /\ Len(all[i]) \in Nat
          /\ all[i] = [b \in 1..Len(all[i]) |-> all[i][b]]
      BY <1>3
    <3> HIDE DEF all, S
    <3> QED
      BY <3>1, <3>2, IsSequence
  <2>2. all = [i \in 1..Len(L) |-> all[i]]
    BY <1>1
  <2> HIDE DEF all, S
  <2> QED
    BY <1>1, <2>1, <2>2, IsSequence, Zenon
<1>5. sp.maps = FlattenSeq(all)
  BY LayoutSums DEF IsSpec
<1> HIDE DEF all, S
<1>6. /\ sp.maps \in Seq(S)
      /\ \A i \in DOMAIN sp.maps : \E a \in 1..Len(L) :
           \E b \in 1..Len(all[a]) : sp.maps[i] = all[a][b]
      /\ \A a \in 1..Len(L) : \A b \in 1..Len(all[a]) :
           \E i \in DOMAIN sp.maps : sp.maps[i] = all[a][b]
  <2>1. /\ FlattenSeq(all) \in Seq(S)
        /\ \A i \in DOMAIN FlattenSeq(all) : \E a \in 1..Len(all) :
             \E b \in 1..Len(all[a]) : FlattenSeq(all)[i] = all[a][b]
        /\ \A a \in 1..Len(all) : \A b \in 1..Len(all[a]) :
             \E i \in DOMAIN FlattenSeq(all) : FlattenSeq(all)[i] = all[a][b]
    BY <1>4, FlattenMembers, Zenon
  <2> DEFINE f == FlattenSeq(all)
  <2>2. Len(all) = Len(L) /\ sp.maps = f
    BY <1>4, <1>5
  <2>3. /\ f \in Seq(S)
        /\ \A i \in DOMAIN f : \E a \in 1..Len(L) :
             \E b \in 1..Len(all[a]) : f[i] = all[a][b]
        /\ \A a \in 1..Len(L) : \A b \in 1..Len(all[a]) :
             \E i \in DOMAIN f : f[i] = all[a][b]
    BY <2>1, <2>2
  <2> HIDE DEF f
  <2> QED
    BY <2>2, <2>3
<1>7. \A i \in DOMAIN sp.maps : IsMapping(sp.maps[i])
  <2> TAKE i \in DOMAIN sp.maps
  <2>1. PICK a \in DOMAIN L :
          \E b \in 1..Len(all[a]) : sp.maps[i] = all[a][b]
    BY <1>1, <1>6, Zenon
  <2>4. PICK b \in 1..Len(all[a]) : sp.maps[i] = all[a][b]
    BY <2>1
  <2>2. /\ Layout!Parts(L[a]) # <<>>
        /\ \E t : all[a][b] = Layout!Mapping(L[a], t)
    BY <1>2, <2>4
  <2> QED
    BY <1>1, <2>2, <2>4, MappingIs
<1>8. \A i \in DOMAIN L : Layout!Parts(L[i]) # <<>> =>
        \E j \in DOMAIN sp.maps : sp.maps[j] = Layout!Mapping(L[i], "weight")
  <2> TAKE i \in DOMAIN L
  <2> SUFFICES ASSUME Layout!Parts(L[i]) # <<>>
               PROVE  \E j \in DOMAIN sp.maps :
                        sp.maps[j] = Layout!Mapping(L[i], "weight")
    OBVIOUS
  <2>1. /\ all[i][1] = Layout!Mapping(L[i], "weight")
        /\ 1 \in 1..Len(all[i])
    BY <1>2
  <2> QED
    BY <1>1, <1>6, <2>1
<1> QED
  BY <1>6, <1>7, <1>8, LenProperties DEF Layout!ToSet

\* t holds the parts that ref has of m, one behind the other.
Holds(m, ref, t) ==
  /\ IsTensor(t) /\ Len(t.rows) = Total(m.sizes)
  /\ \A i \in 1..Len(m.parts) :
       /\ IsTensor(ref[m.parts[i]])
       /\ Len(ref[m.parts[i]].rows) = m.sizes[i]
       /\ ref[m.parts[i]].kind = t.kind /\ ref[m.parts[i]].grad = t.grad
       /\ \A b \in 1..m.sizes[i] :
            t.rows[Cumulative(m.sizes)[i - 1] + b] = ref[m.parts[i]].rows[b]

\* The rows of a tensor are a sequence.
LEMMA RowsOf ==
  ASSUME NEW t, IsTensor(t)
  PROVE  /\ Len(t.rows) \in Nat /\ DOMAIN t.rows = 1..Len(t.rows)
         /\ t.rows = [i \in 1..Len(t.rows) |-> t.rows[i]]
<1>1. PICK S : t.rows \in Seq(S)
  BY DEF IsTensor
<1> DEFINE r == t.rows
<1>2. r \in Seq(S)
  BY <1>1
<1> HIDE DEF r
<1>3. Len(r) \in Nat /\ DOMAIN r = 1..Len(r) /\ r \in [1..Len(r) -> S]
  BY <1>2, LenProperties
<1>4. r = [i \in 1..Len(r) |-> r[i]]
  BY <1>3
<1> QED
  BY <1>3, <1>4 DEF r

\* What a mapping's size says of its packed rows.
LEMMA PartRows ==
  ASSUME NEW m, IsMapping(m), NEW i \in 1..Len(m.parts)
  PROVE  /\ Layout!Offset(m, i) = Cumulative(m.sizes)[i - 1]
         /\ m.sizes[i] \in Nat /\ Cumulative(m.sizes)[i - 1] \in Nat
         /\ Total(m.sizes) \in Nat
         /\ Cumulative(m.sizes)[i - 1] + m.sizes[i] <= Total(m.sizes)
<1> DEFINE c == m.sizes
           n == Len(c)
<1>1. c \in Seq(Nat) /\ n = Len(m.parts) /\ n \in Nat
  BY DEF IsMapping
<1>2. Layout!Offset(m, i) = Cumulative(c)[i - 1]
  BY LayoutSums DEF Layout!Offset
<1> HIDE DEF c
<1>3. i \in 1..n /\ i - 1 \in 0..n /\ i \in 0..n /\ n \in 0..n
  BY <1>1
<1>4. /\ \A s \in 0..n : Cumulative(c)[s] \in Nat
      /\ \A s \in 1..n : Cumulative(c)[s] = Cumulative(c)[s - 1] + c[s]
  BY <1>1, CumulativeIs
<1>5. Cumulative(c)[i] <= Cumulative(c)[n]
  BY <1>1, <1>3, CumulativeGrows
<1>6. c[i] \in Nat
  BY <1>1, <1>3, ElementOfSeq
<1>7. Total(c) = Cumulative(c)[n]
  BY DEF Total
<1> QED
  BY <1>1, <1>2, <1>3, <1>4, <1>5, <1>6, <1>7 DEF c

\* The k rows of t that follow its first a.
Cut(t, a, k) == [b \in 1..k |-> t.rows[a + b]]

\* Rows cut out of a tensor.
LEMMA CutRows ==
  ASSUME NEW t, IsTensor(t), NEW a \in Nat, NEW k \in Nat,
         a + k <= Len(t.rows)
  PROVE  SubSeq(t.rows, a + 1, a + k) = Cut(t, a, k)
<1>1. PICK S : t.rows \in Seq(S)
  BY DEF IsTensor
<1> DEFINE r == t.rows
<1>2. r \in Seq(S) /\ Len(r) \in Nat /\ a + k <= Len(r)
  BY <1>1, LenProperties
<1> HIDE DEF r
<1>3. \A i \in (a + 1)..(a + k) : r[i] \in S
  BY <1>2, ElementOfSeq
<1>4. a + 1 \in Int /\ a + k \in Int
  OBVIOUS
<1>5. /\ SubSeq(r, a + 1, a + k) \in Seq(S)
      /\ Len(SubSeq(r, a + 1, a + k)) =
           IF a + 1 <= a + k THEN (a + k) - (a + 1) + 1 ELSE 0
      /\ \A i \in 1..((a + k) - (a + 1) + 1) :
           SubSeq(r, a + 1, a + k)[i] = r[a + 1 + i - 1]
  BY <1>3, <1>4, SubSeqProperties
<1> DEFINE v == SubSeq(r, a + 1, a + k)
<1>9. /\ v \in Seq(S)
      /\ Len(v) = IF a + 1 <= a + k THEN (a + k) - (a + 1) + 1 ELSE 0
      /\ \A i \in 1..((a + k) - (a + 1) + 1) : v[i] = r[a + 1 + i - 1]
  BY <1>5, Zenon
<1> HIDE DEF v
<1>10. (a + k) - (a + 1) + 1 = k /\ (a + 1 <= a + k <=> k # 0)
  OBVIOUS
<1>11. \A i \in 1..k : a + 1 + i - 1 = a + i
  OBVIOUS
<1>6. /\ v \in Seq(S) /\ Len(v) = k
      /\ \A i \in 1..k : v[i] = r[a + i]
  BY <1>9, <1>10, <1>11
<1>7. v = [i \in 1..k |-> v[i]]
  BY <1>6, LenProperties
<1>8. v = [i \in 1..k |-> r[a + i]]
  BY <1>6, <1>7
<1> QED
  BY <1>8 DEF v, r, Cut

\* Splitting gives the parts back.
LEMMA PieceIs ==
  ASSUME NEW m, IsMapping(m), NEW ref, NEW t, Holds(m, ref, t),
         NEW i \in 1..Len(m.parts)
  PROVE  Layout!Piece(m, t, i) = ref[m.parts[i]]
<1> DEFINE a == Cumulative(m.sizes)[i - 1]
           k == m.sizes[i]
           r == ref[m.parts[i]]
<1>1. /\ a \in Nat /\ k \in Nat /\ Layout!Offset(m, i) = a
      /\ a + k <= Len(t.rows) /\ IsTensor(t)
  BY PartRows DEF Holds
<1>2. /\ IsTensor(r) /\ Len(r.rows) = k /\ r.kind = t.kind /\ r.grad = t.grad
      /\ \A b \in 1..k : t.rows[a + b] = r.rows[b]
  BY DEF Holds
<1>3. Layout!Piece(m, t, i) = [t EXCEPT !.rows = SubSeq(t.rows, a + 1, a + k)]
  BY <1>1 DEF Layout!Piece
<1> HIDE DEF a, k, r
<1>4. SubSeq(t.rows, a + 1, a + k) = Cut(t, a, k)
  BY <1>1, CutRows
<1>5. r.rows = [b \in 1..k |-> r.rows[b]]
  BY <1>2, RowsOf
<1>6. SubSeq(t.rows, a + 1, a + k) = r.rows
  BY <1>2, <1>4, <1>5 DEF Cut
<1>7. /\ t = [rows |-> t.rows, kind |-> t.kind, grad |-> t.grad]
      /\ r = [rows |-> r.rows, kind |-> r.kind, grad |-> r.grad]
  BY <1>1, <1>2 DEF IsTensor
<1>8. [t EXCEPT !.rows = r.rows] =
        [rows |-> r.rows, kind |-> t.kind, grad |-> t.grad]
  BY <1>7
<1>9. [rows |-> r.rows, kind |-> t.kind, grad |-> t.grad] = r
  BY <1>2, <1>7, Zenon
<1> QED
  BY <1>3, <1>6, <1>8, <1>9, Zenon DEF r

\* Packing puts the parts one behind the other.
LEMMA PackedHolds ==
  ASSUME NEW m, IsMapping(m), NEW sd, Layout!Fits(m, sd),
         Layout!OneGrad(m, sd),
         \A i \in 1..Len(m.parts) : IsTensor(sd[m.parts[i]])
  PROVE  Holds(m, sd, Layout!Packed(m, sd))
<1> DEFINE n == Len(m.parts)
           P == [i \in DOMAIN m.parts |-> sd[m.parts[i]].rows]
           S == UNION {{P[i][b] : b \in 1..Len(P[i])} : i \in 1..n}
           rows == FlattenSeq(P)
           t == Layout!Packed(m, sd)
           one == sd[m.parts[1]]
<1>1. n \in Nat \ {0} /\ DOMAIN m.parts = 1..n /\ m.sizes \in Seq(Nat)
      /\ Len(m.sizes) = n
  BY DEF IsMapping
<1>2. t = [one EXCEPT !.rows = rows]
  BY LayoutSums DEF Layout!Packed
<1>3. \A i \in 1..n : /\ IsTensor(sd[m.parts[i]])
                      /\ Len(sd[m.parts[i]].rows) = m.sizes[i]
                      /\ P[i] = sd[m.parts[i]].rows
  BY <1>1 DEF Layout!Fits
<1>4. \A i \in 1..n : sd[m.parts[i]].kind = one.kind
  BY <1>1 DEF Layout!Fits, Layout!ToSet
<1>5. \A i \in 1..n : sd[m.parts[i]].grad = one.grad
  BY <1>1 DEF Layout!OneGrad, Layout!ToSet
<1>6. P \in Seq(Seq(S)) /\ Len(P) = n
  <2>1. \A i \in 1..n : P[i] \in Seq(S)
    <3> TAKE i \in 1..n
    <3>1. \A b \in 1..Len(P[i]) : P[i][b] \in S
      <4> HIDE DEF P
      <4> TAKE b \in 1..Len(P[i])
      <4>1. P[i][b] \in {P[i][c] : c \in 1..Len(P[i])}
        OBVIOUS
      <4> QED
        BY <4>1, Zenon
    <3>2. Len(P[i]) \in Nat /\ P[i] = [b \in 1..Len(P[i]) |-> P[i][b]]
      BY <1>3, RowsOf, Zenon
    <3> HIDE DEF P, S
    <3> QED
      BY <3>1, <3>2, IsSequence
  <2>2. P = [i \in 1..n |-> P[i]]
    BY <1>1
  <2> HIDE DEF P, S
  <2> QED
    BY <1>1, <2>1, <2>2, IsSequence, Zenon
<1>7. Lengths(P) = m.sizes
  <2>1. /\ Lengths(P) \in Seq(Nat) /\ Len(Lengths(P)) = n
        /\ \A k \in 1..n : Lengths(P)[k] = Len(P[k])
    BY <1>6, LengthsType, Zenon
  <2>2. \A k \in 1..n : Len(P[k]) = m.sizes[k]
    BY <1>3, Zenon
  <2>3. \A k \in 1..n : Lengths(P)[k] = m.sizes[k]
    BY <2>1, <2>2, Zenon
  <2> DEFINE u == Lengths(P)  v == m.sizes
  <2>4. u \in Seq(Nat) /\ v \in Seq(Nat) /\ Len(u) = n /\ Len(v) = n
        /\ \A k \in 1..n : u[k] = v[k]
    BY <1>1, <2>1, <2>3
  <2> HIDE DEF u, v
  <2>5. u = [k \in 1..n |-> u[k]] /\ v = [k \in 1..n |-> v[k]]
    BY <2>4, LenProperties
  <2>6. u = v
    BY <2>4, <2>5, Zenon
  <2> QED
    BY <2>6 DEF u, v
<1>8. /\ rows \in Seq(S) /\ Len(rows) = Total(m.sizes)
      /\ \A a \in 1..n : \A b \in 1..Len(P[a]) :
           rows[Cumulative(m.sizes)[a - 1] + b] = P[a][b]
  <2>1. /\ Len(FlattenSeq(P)) = Total(Lengths(P))
        /\ \A a \in 1..Len(P) : \A b \in 1..Len(P[a]) :
             FlattenSeq(P)[Cumulative(Lengths(P))[a - 1] + b] = P[a][b]
    <3> HIDE DEF P, S
    <3> QED
      BY <1>6, FlattenItems
  <2>2. FlattenSeq(P) \in Seq(S)
    <3> HIDE DEF P, S
    <3> QED
      BY <1>6, FlattenType
  <2> HIDE DEF P, S
  <2> QED
    BY <1>6, <1>7, <2>1, <2>2
<1>9. one = [rows |-> one.rows, kind |-> one.kind, grad |-> one.grad]
  BY <1>1 DEF IsTensor
<1> HIDE DEF rows, one, P, S
<1>10. t = [rows |-> rows, kind |-> one.kind, grad |-> one.grad]
  BY <1>2, <1>9
<1>11. t.rows = rows /\ t.kind = one.kind /\ t.grad = one.grad
  BY <1>10
<1>12. IsTensor(t)
  BY <1>8, <1>10, <1>11 DEF IsTensor
<1> HIDE DEF t
<1>13. \A i \in 1..n : \A b \in 1..m.sizes[i] :
        t.rows[Cumulative(m.sizes)[i - 1] + b] = sd[m.parts[i]].rows[b]
  BY <1>3, <1>8, <1>11
<1>14. \A i \in 1..n : sd[m.parts[i]].kind = t.kind
  BY <1>4, <1>11
<1>15. \A i \in 1..n : sd[m.parts[i]].grad = t.grad
  BY <1>5, <1>11, Zenon
<1>16. Len(t.rows) = Total(m.sizes)
  BY <1>8, <1>11
<1>17. Holds(m, sd, t)
  <2> DEFINE A(i) == IsTensor(sd[m.parts[i]])
             B(i) == Len(sd[m.parts[i]].rows) = m.sizes[i]
             C(i) == sd[m.parts[i]].kind = t.kind
             D(i) == sd[m.parts[i]].grad = t.grad
             E(i) == \A b \in 1..m.sizes[i] :
               t.rows[Cumulative(m.sizes)[i - 1] + b] = sd[m.parts[i]].rows[b]
  <2>1. \A i \in 1..n : A(i) /\ B(i) /\ C(i) /\ D(i) /\ E(i)
    <3>1. \A i \in 1..n : A(i) /\ B(i)
      BY <1>3
    <3>2. \A i \in 1..n : C(i)
      BY <1>14
    <3>3. \A i \in 1..n : D(i)
      BY <1>15
    <3>4. \A i \in 1..n : E(i)
      BY <1>13
    <3> HIDE DEF A, B, C, D, E
    <3> QED
      BY <3>1, <3>2, <3>3, <3>4
  <2> QED
    BY <1>12, <1>16, <2>1, Zenon DEF Holds
<1> QED
  BY <1>17 DEF t

\* The keys of a group are all absent, or all there with one tensor.
TiesEqual(groups, sd) ==
  \A g \in groups :
    \/ \A i \in DOMAIN g : g[i] \notin DOMAIN sd
    \/ \A i, j \in DOMAIN g : g[i] \in DOMAIN sd /\ sd[g[i]] = sd[g[j]]

\* A model as it was loaded: what is no projection is a trained bf16 tensor.
Separate(sp, sd) ==
  /\ sd = [k \in DOMAIN sd |-> sd[k]]
  /\ \A k \in DOMAIN sd : IsTensor(sd[k])
  /\ \A k \in DOMAIN sd \ Layout!PartKeys(sp.maps) :
       sd[k].kind = "bf16" /\ sd[k].grad = TRUE

\* A packed model and what an unpacked one would be by now.
Sync(sp, sd, ref) ==
  /\ Layout!PartKeys(sp.maps) \subseteq DOMAIN ref
  /\ Layout!PackedKeys(sp.maps) \cap DOMAIN ref = {}
  /\ ref = [k \in DOMAIN ref |-> ref[k]]
  /\ sd = [k \in DOMAIN sd |-> sd[k]]
  /\ DOMAIN sd = (DOMAIN ref \ Layout!PartKeys(sp.maps))
                   \cup Layout!PackedKeys(sp.maps)
  /\ \A k \in DOMAIN ref \ Layout!PartKeys(sp.maps) :
       sd[k] = ref[k] /\ IsTensor(ref[k])
  /\ \A m \in Layout!ToSet(sp.maps) : Holds(m, ref, sd[m.packed])
  /\ TiesEqual(sp.ties, ref)

\* Restoring the aliases of tensors that agree changes nothing.
LEMMA WithTiesSame ==
  ASSUME NEW groups \in TieGroups, NEW f, f = [k \in DOMAIN f |-> f[k]],
         TiesEqual(groups, f)
  PROVE  Layout!WithTies(groups, f) = f
<1> DEFINE Group(k) == CHOOSE x \in groups : k \in Layout!ToSet(x)
           Is(g, i) == /\ g[i] \in DOMAIN f
                       /\ \A j \in 1..(i - 1) : g[j] \notin DOMAIN f
           FirstOf(g) == CHOOSE i \in DOMAIN g : Is(g, i)
<1>1. Layout!WithTies(groups, f) =
        [k \in DOMAIN f |-> IF \E g \in groups : k \in Layout!ToSet(g)
                            THEN f[Group(k)[FirstOf(Group(k))]] ELSE f[k]]
  BY DEF Layout!WithTies
<1>2. ASSUME NEW k \in DOMAIN f, \E g \in groups : k \in Layout!ToSet(g)
      PROVE  f[Group(k)[FirstOf(Group(k))]] = f[k]
  <2> DEFINE g == Group(k)
  <2>1. g \in groups /\ k \in Layout!ToSet(g)
    BY <1>2
  <2> HIDE DEF Group, g
  <2>2. PICK i \in DOMAIN g : g[i] = k
    BY <2>1 DEF Layout!ToSet
  <2>3. \A a, b \in DOMAIN g : g[a] \in DOMAIN f /\ f[g[a]] = f[g[b]]
    BY <1>2, <2>1, <2>2 DEF TiesEqual
  <2>4. Len(g) \in Nat /\ DOMAIN g = 1..Len(g)
    BY <2>1, LayoutAssumption
  <2>5. 1 \in DOMAIN g /\ Is(g, 1)
    BY <2>2, <2>3, <2>4
  <2>6. FirstOf(g) \in DOMAIN g
    <3> HIDE DEF Is
    <3> QED
      BY <2>5
  <2> HIDE DEF FirstOf
  <2>7. f[g[FirstOf(g)]] = f[g[i]]
    BY <2>3, <2>6, <2>2
  <2> QED
    BY <2>2, <2>7 DEF g
<1> HIDE DEF Group, FirstOf
<1>3. \A k \in DOMAIN f : (IF \E g \in groups : k \in Layout!ToSet(g)
                           THEN f[Group(k)[FirstOf(Group(k))]] ELSE f[k]) = f[k]
  BY <1>2
<1>4. Layout!WithTies(groups, f) = [k \in DOMAIN f |-> f[k]]
  BY <1>1, <1>3
<1> QED
  BY <1>4

\* A tensor of another kind, or frozen, is a tensor.
LEMMA TensorChanged ==
  ASSUME NEW t, IsTensor(t), NEW x
  PROVE  IsTensor([t EXCEPT !.kind = x]) /\ IsTensor([t EXCEPT !.grad = x])
<1>1. t = [rows |-> t.rows, kind |-> t.kind, grad |-> t.grad]
  BY DEF IsTensor
<1>2. PICK S : t.rows \in Seq(S)
  BY DEF IsTensor
<1>3. /\ [t EXCEPT !.kind = x] =
           [rows |-> t.rows, kind |-> x, grad |-> t.grad]
      /\ [t EXCEPT !.grad = x] =
           [rows |-> t.rows, kind |-> t.kind, grad |-> x]
  BY <1>1
<1>4. ASSUME NEW c, NEW g
      PROVE  IsTensor([rows |-> t.rows, kind |-> c, grad |-> g])
  BY <1>2 DEF IsTensor
<1> QED
  BY <1>3, <1>4

\* The tensors of a source.
LEMMA TensorIs ==
  ASSUME NEW k, NEW n \in Nat
  PROVE  /\ IsTensor(Layout!Tensor(k, n))
         /\ Layout!Tensor(k, n).kind = "bf16"
         /\ Layout!Tensor(k, n).grad = TRUE
<1> DEFINE r == [i \in 1..n |-> <<k, i, 0>>]
           S == {<<k, i, 0>> : i \in 1..n}
           t == Layout!Tensor(k, n)
<1>1. r \in Seq(S)
  <2>1. \A i \in 1..n : r[i] \in S
    OBVIOUS
  <2>2. r = [i \in 1..n |-> r[i]]
    OBVIOUS
  <2> HIDE DEF r, S
  <2> QED
    BY <2>1, <2>2, IsSequence
<1>2. t = [rows |-> r, kind |-> "bf16", grad |-> TRUE]
  BY DEF Layout!Tensor
<1> HIDE DEF r, S, t
<1>3. t.rows = r /\ t.kind = "bf16" /\ t.grad = TRUE
  BY <1>2
<1>4. t = [rows |-> t.rows, kind |-> t.kind, grad |-> t.grad]
  BY <1>2
<1>5. IsTensor(t)
  BY <1>1, <1>3, <1>4 DEF IsTensor
<1> QED
  BY <1>3, <1>5 DEF t

\* A source is a model as it is loaded, whatever is wrong with it.
LEMMA SourceIs ==
  ASSUME NEW sp, IsSpec(sp), NEW defect
  PROVE  Separate(sp, Layout!Source(sp.layout, sp.maps, sp.ties, defect))
<1> DEFINE maps == sp.maps
           keys == Layout!PartKeys(maps)
           K == Layout!SourceKeys(sp.layout, maps, sp.ties, defect)
           sd == Layout!Source(sp.layout, maps, sp.ties, defect)
<1>1. sd = [k \in K |->
              IF k \in keys THEN Layout!Projection(maps, defect, k)
              ELSE IF \E g \in sp.ties : k \in Layout!ToSet(g)
                   THEN Layout!Tied(sp.ties, defect, k)
              ELSE Layout!Tensor(k, 1)]
  BY DEF Layout!Source
<1>2. \A k \in keys : Layout!SizeOf(maps, k) \in Nat
  <2> TAKE k \in keys
  <2> DEFINE m == CHOOSE x \in Layout!ToSet(maps) : k \in Layout!ToSet(x.parts)
             j == CHOOSE j \in DOMAIN m.parts : m.parts[j] = k
  <2>1. \E x \in Layout!ToSet(maps) : k \in Layout!ToSet(x.parts)
    BY DEF Layout!PartKeys, Layout!ToSet
  <2>2. m \in Layout!ToSet(maps) /\ k \in Layout!ToSet(m.parts)
    BY <2>1
  <2>3. IsMapping(m)
    BY <2>2, MappingsAre
  <2>4. Layout!SizeOf(maps, k) = m.sizes[j]
    BY DEF Layout!SizeOf
  <2> HIDE DEF m
  <2>5. \E i \in DOMAIN m.parts : m.parts[i] = k
    BY <2>2 DEF Layout!ToSet
  <2>6. j \in DOMAIN m.parts
    BY <2>5
  <2> HIDE DEF j
  <2> QED
    BY <2>3, <2>4, <2>6, ElementOfSeq DEF IsMapping
<1>3. ASSUME NEW k \in keys PROVE IsTensor(Layout!Projection(maps, defect, k))
  <2> DEFINE n == Layout!SizeOf(maps, k)
  <2>1. n \in Nat /\ n + 1 \in Nat
    BY <1>2, <1>3
  <2> HIDE DEF n
  <2>2. /\ IsTensor(Layout!Tensor(k, n))
        /\ IsTensor(Layout!Tensor(k, n + 1))
    BY <2>1, TensorIs, Zenon
  <2>3. IsTensor([Layout!Tensor(k, n) EXCEPT !.kind = "fp32"])
    BY <2>2, TensorChanged, Zenon
  <2>4. IsTensor([Layout!Tensor(k, n) EXCEPT !.grad = FALSE])
    BY <2>2, TensorChanged, Zenon
  <2>5. \/ Layout!Projection(maps, defect, k) = Layout!Tensor(k, n)
        \/ Layout!Projection(maps, defect, k) = Layout!Tensor(k, n + 1)
        \/ Layout!Projection(maps, defect, k) =
             [Layout!Tensor(k, n) EXCEPT !.kind = "fp32"]
        \/ Layout!Projection(maps, defect, k) =
             [Layout!Tensor(k, n) EXCEPT !.grad = FALSE]
    BY DEF Layout!Projection, n
  <2> QED
    BY <2>2, <2>3, <2>4, <2>5, Zenon
<1> DEFINE Plain(t) == IsTensor(t) /\ t.kind = "bf16" /\ t.grad = TRUE
<1>4. \A x : Plain(Layout!Tensor(x, 1))
  BY TensorIs, Zenon
<1>5. \A k : Plain(Layout!Tied(sp.ties, defect, k))
  BY <1>4 DEF Layout!Tied
<1> HIDE DEF sd, keys, K
<1>6. /\ sd = [k \in DOMAIN sd |-> sd[k]]
      /\ \A k \in DOMAIN sd :
           /\ k \in keys => sd[k] = Layout!Projection(maps, defect, k)
           /\ k \notin keys => \/ sd[k] = Layout!Tied(sp.ties, defect, k)
                              \/ sd[k] = Layout!Tensor(k, 1)
  BY <1>1
<1>7. \A k \in DOMAIN sd \ keys : Plain(sd[k])
  <2> HIDE DEF Plain
  <2> QED
    BY <1>4, <1>5, <1>6
<1>8. \A k \in DOMAIN sd : IsTensor(sd[k])
  BY <1>3, <1>6, <1>7
<1> QED
  BY <1>6, <1>7, <1>8 DEF Separate, keys, sd

\* What the checks of a converter say of its mappings and alias groups.
LEMMA Constructed ==
  ASSUME NEW sp, IsSpec(sp)
  PROVE  /\ \A m, x \in Layout!ToSet(sp.maps) : m.packed = x.packed => m = x
         /\ \A k : k \in Layout!PackedKeys(sp.maps) <=>
              \E m \in Layout!ToSet(sp.maps) : k = m.packed
         /\ \A k : k \in Layout!PartKeys(sp.maps) <=>
              \E m \in Layout!ToSet(sp.maps) : k \in Layout!ToSet(m.parts)
         /\ Layout!PartKeys(sp.maps) \cap Layout!PackedKeys(sp.maps) = {}
         /\ \A g \in sp.ties : \A i \in DOMAIN g :
              /\ g[i] \notin Layout!PartKeys(sp.maps)
              /\ g[i] \notin Layout!PackedKeys(sp.maps)
<1>1. Layout!Constructs(sp.maps, sp.ties)
  BY DEF IsSpec
<1>2. \A i, j \in DOMAIN sp.maps : i # j => sp.maps[i].packed # sp.maps[j].packed
  BY <1>1 DEF Layout!Constructs
<1>3. \A m, x \in Layout!ToSet(sp.maps) : m.packed = x.packed => m = x
  BY <1>2 DEF Layout!ToSet
<1>4. \A k : k \in Layout!PackedKeys(sp.maps) <=>
               \E m \in Layout!ToSet(sp.maps) : k = m.packed
  BY DEF Layout!PackedKeys, Layout!ToSet
<1>5. \A k : k \in Layout!PartKeys(sp.maps) <=>
               \E m \in Layout!ToSet(sp.maps) : k \in Layout!ToSet(m.parts)
  BY DEF Layout!PartKeys, Layout!ToSet
<1>6. /\ Layout!PartKeys(sp.maps) \cap Layout!PackedKeys(sp.maps) = {}
      /\ \A g \in sp.ties :
           /\ Layout!ToSet(g) \cap Layout!PartKeys(sp.maps) = {}
           /\ Layout!ToSet(g) \cap Layout!PackedKeys(sp.maps) = {}
  BY <1>1 DEF Layout!Constructs
<1>7. \A g \in sp.ties : \A i \in DOMAIN g : g[i] \in Layout!ToSet(g)
  BY DEF Layout!ToSet
<1>8. \A g \in sp.ties : \A i \in DOMAIN g :
        /\ g[i] \notin Layout!PartKeys(sp.maps)
        /\ g[i] \notin Layout!PackedKeys(sp.maps)
  BY <1>6, <1>7
<1> QED
  BY <1>3, <1>4, <1>5, <1>6, <1>8

\* Tied tensors with the same rows are the same tensor.
LEMMA TiesAre ==
  ASSUME NEW sp, IsSpec(sp), NEW sd, Separate(sp, sd),
         Layout!TiesAgree(sp.ties, sd)
  PROVE  TiesEqual(sp.ties, sd)
<1>1. SUFFICES ASSUME NEW g \in sp.ties,
                      ~ \A i \in DOMAIN g : g[i] \notin DOMAIN sd
               PROVE  \A i, j \in DOMAIN g :
                        g[i] \in DOMAIN sd /\ sd[g[i]] = sd[g[j]]
  BY DEF TiesEqual
<1> DEFINE present == Layout!ToSet(g) \cap DOMAIN sd
<1>2. present # {}
  BY <1>1 DEF Layout!ToSet
<1>3. /\ present = Layout!ToSet(g)
      /\ \A k \in present : sd[k].rows = sd[g[1]].rows
  BY <1>1, <1>2 DEF Layout!TiesAgree
<1>4. \A i \in DOMAIN g : g[i] \in Layout!ToSet(g)
  BY DEF Layout!ToSet
<1>5. \A i \in DOMAIN g : /\ g[i] \in DOMAIN sd
                          /\ sd[g[i]].rows = sd[g[1]].rows
  BY <1>3, <1>4
<1>6. \A i \in DOMAIN g : g[i] \notin Layout!PartKeys(sp.maps)
  BY <1>1, Constructed
<1>7. \A i \in DOMAIN g : /\ sd[g[i]].kind = "bf16"
                          /\ sd[g[i]].grad = TRUE
                          /\ IsTensor(sd[g[i]])
  BY <1>5, <1>6 DEF Separate
<1>8. \A i \in DOMAIN g :
        sd[g[i]] = [rows |-> sd[g[1]].rows, kind |-> "bf16", grad |-> TRUE]
  <2> TAKE i \in DOMAIN g
  <2> DEFINE t == sd[g[i]]
             r == sd[g[1]].rows
  <2>1. t = [rows |-> t.rows, kind |-> t.kind, grad |-> t.grad]
    BY <1>7 DEF IsTensor
  <2>2. t.rows = r /\ t.kind = "bf16" /\ t.grad = TRUE
    BY <1>5, <1>7
  <2> HIDE DEF t, r
  <2>3. t = [rows |-> r, kind |-> "bf16", grad |-> TRUE]
    BY <2>1, <2>2
  <2> QED
    BY <2>3 DEF t, r
<1> QED
  BY <1>5, <1>8

\* What from_separate makes of a model it accepts is in step with it.
LEMMA Transformed ==
  ASSUME NEW sp, IsSpec(sp), NEW sd, Separate(sp, sd),
         Layout!Accepts(sp.layout, sp.maps, sd),
         Layout!CanTransform(sp.maps, sp.ties, sd)
  PROVE  Sync(sp, Layout!ToTransformed(sp.maps, sp.ties, sd), sd)
<1> DEFINE keys == Layout!PartKeys(sp.maps)
           packs == Layout!PackedKeys(sp.maps)
           D == (DOMAIN sd \ keys) \cup packs
           Of(k) == Layout!Packed(
                      CHOOSE m \in Layout!ToSet(sp.maps) : m.packed = k, sd)
           f == [k \in D |-> IF k \in DOMAIN sd THEN sd[k] ELSE Of(k)]
           all == Layout!ToSet(sp.maps)
<1>1. \A m \in all : Layout!Fits(m, sd) /\ Layout!OneGrad(m, sd)
  BY DEF Layout!Accepts, Layout!ToSet
<1>2. \A m \in all : IsMapping(m)
  BY MappingsAre
<1>3. \A m \in all : \A k \in Layout!ToSet(m.parts) : k \in DOMAIN sd
  BY <1>1 DEF Layout!Fits, Layout!ToSet
<1>4. keys \subseteq DOMAIN sd
  BY <1>3, Constructed
<1>5. packs \cap DOMAIN sd = {} /\ Layout!TiesAgree(sp.ties, sd)
  BY DEF Layout!CanTransform
<1>6. TiesEqual(sp.ties, sd)
  BY <1>5, TiesAre
<1>7. Layout!ToTransformed(sp.maps, sp.ties, sd) =
        Layout!WithTies(sp.ties, f)
  BY DEF Layout!ToTransformed
<1>8. \A m \in all : Of(m.packed) = Layout!Packed(m, sd)
  <2> TAKE m \in all
  <2> DEFINE w == CHOOSE x \in all : x.packed = m.packed
  <2>1. w \in all /\ w.packed = m.packed
    OBVIOUS
  <2> HIDE DEF w, all
  <2>2. w = m
    BY <2>1, Constructed DEF all
  <2>3. Layout!Packed(w, sd) = Layout!Packed(m, sd)
    BY <2>2
  <2> QED
    BY <2>3 DEF w, all
<1> HIDE DEF Of
<1>9. /\ DOMAIN f = D /\ f = [k \in DOMAIN f |-> f[k]]
      /\ \A k \in D \cap DOMAIN sd : f[k] = sd[k]
      /\ \A k \in packs : k \notin DOMAIN sd => f[k] = Of(k)
  OBVIOUS
<1> HIDE DEF f, D, keys, packs, all
<1>10. \A k \in packs : f[k] = Of(k)
  BY <1>5, <1>9
<1>11. TiesEqual(sp.ties, f)
  <2>1. \A g \in sp.ties : \A i \in DOMAIN g :
          /\ g[i] \in DOMAIN f <=> g[i] \in DOMAIN sd
          /\ g[i] \in DOMAIN sd => f[g[i]] = sd[g[i]]
    BY <1>9, Constructed DEF D, keys, packs
  <2>2. ASSUME NEW g \in sp.ties
        PROVE  \/ \A i \in DOMAIN g : g[i] \notin DOMAIN f
               \/ \A i, j \in DOMAIN g :
                    g[i] \in DOMAIN f /\ f[g[i]] = f[g[j]]
    <3>1. CASE \A i \in DOMAIN g : g[i] \notin DOMAIN sd
      BY <3>1, <2>1
    <3>2. CASE \A i, j \in DOMAIN g :
                 g[i] \in DOMAIN sd /\ sd[g[i]] = sd[g[j]]
      BY <3>2, <2>1
    <3> QED
      BY <1>6, <3>1, <3>2 DEF TiesEqual
  <2> QED
    BY <2>2 DEF TiesEqual
<1>12. sp.ties \in TieGroups
  BY DEF IsSpec
<1>13. Layout!ToTransformed(sp.maps, sp.ties, sd) = f
  BY <1>7, <1>9, <1>11, <1>12, WithTiesSame
<1>14. ASSUME NEW m \in all PROVE Holds(m, sd, f[m.packed])
  <2>1. m.packed \in packs
    BY <1>14, Constructed DEF packs, all
  <2>2. f[m.packed] = Layout!Packed(m, sd)
    BY <1>8, <1>10, <2>1, <1>14
  <2>3. IsMapping(m) /\ Layout!Fits(m, sd) /\ Layout!OneGrad(m, sd)
    BY <1>1, <1>2, <1>14
  <2>4. \A i \in 1..Len(m.parts) : m.parts[i] \in DOMAIN sd
    BY <1>3, <2>3, <1>14 DEF Layout!ToSet, IsMapping
  <2>5. \A i \in 1..Len(m.parts) : IsTensor(sd[m.parts[i]])
    BY <2>4 DEF Separate
  <2> QED
    BY <2>2, <2>3, <2>5, PackedHolds
<1>15. \A k \in DOMAIN sd \ keys : f[k] = sd[k] /\ IsTensor(sd[k])
  BY <1>9 DEF D, Separate
<1>16. sd = [k \in DOMAIN sd |-> sd[k]]
  BY DEF Separate
<1>17. Sync(sp, f, sd)
  BY <1>4, <1>5, <1>6, <1>9, <1>14, <1>15, <1>16 DEF Sync, D, keys, packs, all
<1> QED
  BY <1>13, <1>17

\* A tensor after an optimizer update.
Updated(t) ==
  IF t.grad
  THEN [t EXCEPT !.rows = [i \in DOMAIN t.rows |->
         <<t.rows[i][1], t.rows[i][2], t.rows[i][3] + 1>>]]
  ELSE t

\* An update keeps a tensor's rows, kind and flag, and changes each row by
\* what the flag says.
LEMMA UpIs ==
  ASSUME NEW t, IsTensor(t)
  PROVE  /\ IsTensor(Updated(t)) /\ Len(Updated(t).rows) = Len(t.rows)
         /\ Updated(t).kind = t.kind /\ Updated(t).grad = t.grad
         /\ \A i \in 1..Len(t.rows) : Updated(t).rows[i] =
              IF t.grad
              THEN <<t.rows[i][1], t.rows[i][2], t.rows[i][3] + 1>>
              ELSE t.rows[i]
<1>1. CASE t.grad
  <2> DEFINE n == Len(t.rows)
             New(i) == <<t.rows[i][1], t.rows[i][2], t.rows[i][3] + 1>>
             r == [i \in 1..n |-> New(i)]
             S == {New(i) : i \in 1..n}
             u == [rows |-> r, kind |-> t.kind, grad |-> t.grad]
  <2>1. n \in Nat /\ DOMAIN t.rows = 1..n
    BY RowsOf
  <2>2. t = [rows |-> t.rows, kind |-> t.kind, grad |-> t.grad]
    BY DEF IsTensor
  <2>3. Updated(t) = u
    BY <1>1, <2>1, <2>2, Zenon DEF Updated
  <2>4. r = [i \in 1..n |-> r[i]] /\ \A i \in 1..n : r[i] \in S /\ r[i] = New(i)
    OBVIOUS
  <2> HIDE DEF n, r, S, New
  <2>5. r \in Seq(S) /\ Len(r) = n
    BY <2>1, <2>4, IsSequence
  <2>6. u.rows = r /\ u.kind = t.kind
    OBVIOUS
  <2>7. u.grad = t.grad
    BY Zenon
  <2>8. u = [rows |-> u.rows, kind |-> u.kind, grad |-> u.grad]
    OBVIOUS
  <2> HIDE DEF u
  <2>9. IsTensor(u)
    BY <2>5, <2>6, <2>8 DEF IsTensor
  <2>10. \A i \in 1..n : u.rows[i] = IF t.grad THEN New(i) ELSE t.rows[i]
    BY <1>1, <2>4, <2>6
  <2> QED
    BY <2>3, <2>5, <2>6, <2>7, <2>9, <2>10 DEF n, New
<1>2. CASE ~t.grad
  <2>1. Updated(t) = t
    BY <1>2 DEF Updated
  <2> QED
    BY <1>2, <2>1
<1> QED
  BY <1>1, <1>2

\* An optimizer update, tensor by tensor.
LEMMA SteppedIs ==
  ASSUME NEW sd
  PROVE  Layout!Stepped(sd) = [k \in DOMAIN sd |-> Updated(sd[k])]
  BY DEF Layout!Stepped, Updated

\* An update of the packed tensor is one of its parts.
LEMMA HoldsUp ==
  ASSUME NEW m, IsMapping(m), NEW ref, NEW t, Holds(m, ref, t), NEW new,
         \A i \in 1..Len(m.parts) : new[m.parts[i]] = Updated(ref[m.parts[i]])
  PROVE  Holds(m, new, Updated(t))
<1> DEFINE o == Cumulative(m.sizes)
           u == Updated(t)
           n == Len(m.parts)
<1>1. IsTensor(t) /\ Len(t.rows) = Total(m.sizes)
  BY DEF Holds
<1>2. /\ IsTensor(u) /\ Len(u.rows) = Len(t.rows)
      /\ u.kind = t.kind
      /\ \A a \in 1..Len(t.rows) : u.rows[a] =
           IF t.grad THEN <<t.rows[a][1], t.rows[a][2], t.rows[a][3] + 1>>
           ELSE t.rows[a]
  BY <1>1, UpIs
<1>3. u.grad = t.grad
  BY <1>1, UpIs, Zenon
<1>4. ASSUME NEW i \in 1..n
      PROVE  /\ IsTensor(new[m.parts[i]])
             /\ Len(new[m.parts[i]].rows) = m.sizes[i]
             /\ new[m.parts[i]].kind = u.kind
             /\ new[m.parts[i]].grad = u.grad
             /\ \A b \in 1..m.sizes[i] :
                  u.rows[o[i - 1] + b] = new[m.parts[i]].rows[b]
  <2> DEFINE r == ref[m.parts[i]]
             w == new[m.parts[i]]
  <2>1. /\ IsTensor(r) /\ Len(r.rows) = m.sizes[i]
        /\ r.kind = t.kind
        /\ \A b \in 1..m.sizes[i] : t.rows[o[i - 1] + b] = r.rows[b]
    BY <1>4 DEF Holds
  <2>2. r.grad = t.grad
    BY <1>4, Zenon DEF Holds
  <2>3. w = Updated(r)
    BY <1>4
  <2> HIDE DEF u, w, r
  <2>4. /\ IsTensor(w) /\ Len(w.rows) = Len(r.rows) /\ w.kind = r.kind
        /\ \A b \in 1..Len(r.rows) : w.rows[b] =
             IF r.grad THEN <<r.rows[b][1], r.rows[b][2], r.rows[b][3] + 1>>
             ELSE r.rows[b]
    BY <2>1, <2>3, UpIs
  <2>5. w.grad = r.grad
    BY <2>1, <2>3, UpIs, Zenon
  <2>6. w.grad = u.grad
    BY <1>3, <2>2, <2>5, Zenon
  <2>7. /\ m.sizes[i] \in Nat /\ o[i - 1] \in Nat
        /\ o[i - 1] + m.sizes[i] <= Len(t.rows)
    BY <1>1, <1>4, PartRows
  <2> HIDE DEF o
  <2>8. ASSUME NEW b \in 1..m.sizes[i]
        PROVE  u.rows[o[i - 1] + b] = w.rows[b]
    <3> DEFINE a == o[i - 1] + b
    <3>1. a \in 1..Len(t.rows)
      BY <1>1, <2>7, <2>8, RowsOf
    <3>2. t.rows[a] = r.rows[b] /\ b \in 1..Len(r.rows)
      BY <2>1, <2>8
    <3> HIDE DEF a
    <3>3. CASE t.grad
      <4>1. u.rows[a] = <<t.rows[a][1], t.rows[a][2], t.rows[a][3] + 1>>
        BY <1>2, <3>1, <3>3
      <4>2. w.rows[b] = <<r.rows[b][1], r.rows[b][2], r.rows[b][3] + 1>>
        <5>1. r.grad
          BY <2>2, <3>3, Zenon
        <5> QED
          BY <2>4, <3>2, <5>1
      <4> QED
        BY <3>2, <4>1, <4>2 DEF a
    <3>4. CASE ~t.grad
      <4>1. u.rows[a] = t.rows[a]
        BY <1>2, <3>1, <3>4
      <4>2. w.rows[b] = r.rows[b]
        <5>1. ~r.grad
          BY <2>2, <3>4, Zenon
        <5> QED
          BY <2>4, <3>2, <5>1
      <4> QED
        BY <3>2, <4>1, <4>2 DEF a
    <3> QED
      BY <3>3, <3>4
  <2>9. /\ IsTensor(w) /\ Len(w.rows) = m.sizes[i] /\ w.kind = u.kind
        /\ \A b \in 1..m.sizes[i] : u.rows[o[i - 1] + b] = w.rows[b]
    BY <1>2, <2>1, <2>4, <2>8
  <2> QED
    BY <2>6, <2>9, Zenon DEF w
<1> HIDE DEF u, o
<1>5. IsTensor(u) /\ Len(u.rows) = Total(m.sizes)
  BY <1>1, <1>2
<1>6. Holds(m, new, u)
  BY <1>4, <1>5, Zenon DEF Holds, o
<1> QED
  BY <1>6 DEF u

\* An update of both keeps a packed model and its reference in step.
LEMMA TrainSync ==
  ASSUME NEW sp, IsSpec(sp), NEW sd, NEW ref, Sync(sp, sd, ref)
  PROVE  Sync(sp, Layout!Stepped(sd), Layout!Stepped(ref))
<1> DEFINE keys == Layout!PartKeys(sp.maps)
           packs == Layout!PackedKeys(sp.maps)
           all == Layout!ToSet(sp.maps)
           s2 == Layout!Stepped(sd)
           r2 == Layout!Stepped(ref)
<1>1. /\ DOMAIN s2 = DOMAIN sd /\ s2 = [k \in DOMAIN s2 |-> s2[k]]
      /\ \A k \in DOMAIN sd : s2[k] = Updated(sd[k])
  BY SteppedIs
<1>2. /\ DOMAIN r2 = DOMAIN ref /\ r2 = [k \in DOMAIN r2 |-> r2[k]]
      /\ \A k \in DOMAIN ref : r2[k] = Updated(ref[k])
  BY SteppedIs
<1>3. /\ keys \subseteq DOMAIN ref /\ packs \cap DOMAIN ref = {}
      /\ DOMAIN sd = (DOMAIN ref \ keys) \cup packs
      /\ \A k \in DOMAIN ref \ keys : sd[k] = ref[k] /\ IsTensor(ref[k])
      /\ \A m \in all : Holds(m, ref, sd[m.packed])
      /\ TiesEqual(sp.ties, ref)
  BY DEF Sync
<1> HIDE DEF s2, r2
<1>4. \A k \in DOMAIN ref \ keys : s2[k] = r2[k] /\ IsTensor(r2[k])
  BY <1>1, <1>2, <1>3, UpIs
<1>5. ASSUME NEW m \in all PROVE Holds(m, r2, s2[m.packed])
  <2>1. IsMapping(m)
    BY <1>5, MappingsAre
  <2>2. m.packed \in DOMAIN sd
    BY <1>3, <1>5, Constructed
  <2>3. \A i \in 1..Len(m.parts) : m.parts[i] \in keys
    <3>1. \A i \in 1..Len(m.parts) : m.parts[i] \in Layout!ToSet(m.parts)
      BY <2>1 DEF Layout!ToSet, IsMapping
    <3> QED
      BY <1>5, <3>1, Constructed
  <2>4. \A i \in 1..Len(m.parts) : r2[m.parts[i]] = Updated(ref[m.parts[i]])
    BY <1>2, <1>3, <2>3
  <2>5. Holds(m, ref, sd[m.packed])
    BY <1>3, <1>5
  <2>6. Holds(m, r2, Updated(sd[m.packed]))
    BY <2>1, <2>4, <2>5, HoldsUp
  <2> QED
    BY <1>1, <2>2, <2>6
<1>6. TiesEqual(sp.ties, r2)
  <2>1. ASSUME NEW g \in sp.ties
        PROVE  \/ \A i \in DOMAIN g : g[i] \notin DOMAIN r2
               \/ \A i, j \in DOMAIN g :
                    g[i] \in DOMAIN r2 /\ r2[g[i]] = r2[g[j]]
    <3>1. CASE \A i \in DOMAIN g : g[i] \notin DOMAIN ref
      BY <3>1, <1>2
    <3>2. CASE \A i, j \in DOMAIN g :
                 g[i] \in DOMAIN ref /\ ref[g[i]] = ref[g[j]]
      BY <3>2, <1>2
    <3> QED
      BY <1>3, <2>1, <3>1, <3>2 DEF TiesEqual
  <2> QED
    BY <2>1 DEF TiesEqual
<1>7. Sync(sp, s2, r2)
  BY <1>1, <1>2, <1>3, <1>4, <1>5, <1>6 DEF Sync
<1> QED
  BY <1>7 DEF s2, r2

\* An export of a packed model in step with a reference is the reference.
LEMMA ExportedIs ==
  ASSUME NEW sp, IsSpec(sp), NEW sd, NEW ref, Sync(sp, sd, ref)
  PROVE  /\ Layout!CanSplit(sp.maps, sd)
         /\ Layout!ToCanonical(sp.maps, sp.ties, sd) = ref
<1> DEFINE keys == Layout!PartKeys(sp.maps)
           packs == Layout!PackedKeys(sp.maps)
           all == Layout!ToSet(sp.maps)
           Owner(k) == CHOOSE m \in all : k \in Layout!ToSet(m.parts)
           PartOf(k) == CHOOSE i \in DOMAIN Owner(k).parts :
                          Owner(k).parts[i] = k
           D == (DOMAIN sd \ packs) \cup keys
           Of(k) == Layout!Piece(Owner(k), sd[Owner(k).packed], PartOf(k))
           f == [k \in D |-> IF k \in DOMAIN sd THEN sd[k] ELSE Of(k)]
<1>1. /\ keys \subseteq DOMAIN ref /\ packs \cap DOMAIN ref = {}
      /\ ref = [k \in DOMAIN ref |-> ref[k]]
      /\ DOMAIN sd = (DOMAIN ref \ keys) \cup packs
      /\ \A k \in DOMAIN ref \ keys : sd[k] = ref[k] /\ IsTensor(ref[k])
      /\ \A m \in all : Holds(m, ref, sd[m.packed])
      /\ TiesEqual(sp.ties, ref)
  BY DEF Sync
<1>2. \A m \in all : IsMapping(m)
  BY MappingsAre
<1>3. keys \cap packs = {}
  BY Constructed
<1>4. Layout!CanSplit(sp.maps, sd)
  <2>1. ASSUME NEW m \in all
        PROVE  m.packed \in DOMAIN sd
               /\ Len(sd[m.packed].rows) = Layout!Total(m.sizes)
    <3>1. m.packed \in packs
      BY <2>1, Constructed
    <3>2. Len(sd[m.packed].rows) = Total(m.sizes)
      BY <1>1, <2>1 DEF Holds
    <3>3. Layout!Total(m.sizes) = Total(m.sizes)
      BY LayoutSums
    <3> QED
      BY <1>1, <3>1, <3>2, <3>3
  <2>2. keys \cap DOMAIN sd = {}
    BY <1>1, <1>3
  <2> QED
    BY <2>1, <2>2 DEF Layout!CanSplit
<1>5. Layout!ToCanonical(sp.maps, sp.ties, sd) = Layout!WithTies(sp.ties, f)
  BY DEF Layout!ToCanonical
<1>6. ASSUME NEW k \in keys PROVE Of(k) = ref[k]
  <2> DEFINE m == Owner(k)
             i == PartOf(k)
  <2>1. \E x \in all : k \in Layout!ToSet(x.parts)
    BY <1>6, Constructed
  <2>2. m \in all /\ k \in Layout!ToSet(m.parts)
    BY <2>1
  <2> HIDE DEF Owner
  <2>3. \E j \in DOMAIN m.parts : m.parts[j] = k
    BY <2>2 DEF Layout!ToSet
  <2>4. i \in DOMAIN m.parts /\ m.parts[i] = k
    BY <2>3
  <2> HIDE DEF PartOf, all
  <2>5. IsMapping(m) /\ Holds(m, ref, sd[m.packed])
    BY <1>1, <1>2, <2>2
  <2>6. i \in 1..Len(m.parts)
    BY <2>4, <2>5 DEF IsMapping
  <2> HIDE DEF m, i
  <2>7. Layout!Piece(m, sd[m.packed], i) = ref[m.parts[i]]
    BY <2>5, <2>6, PieceIs
  <2>8. ref[m.parts[i]] = ref[k]
    BY <2>4
  <2> QED
    BY <2>7, <2>8 DEF m, i
<1> HIDE DEF Of
<1>7. D = DOMAIN ref
  BY <1>1, <1>3, Zenon
<1>8. \A k \in D : (IF k \in DOMAIN sd THEN sd[k] ELSE Of(k)) = ref[k]
  <2> TAKE k \in D
  <2>1. CASE k \in keys
    BY <2>1, <1>1, <1>3, <1>6
  <2>2. CASE k \notin keys
    BY <2>2, <1>1, <1>7
  <2> QED
    BY <2>1, <2>2
<1>9. f = [k \in DOMAIN ref |-> ref[k]]
  BY <1>7, <1>8
<1>10. f = ref
  BY <1>1, <1>9
<1>11. sp.ties \in TieGroups
  BY DEF IsSpec
<1>12. Layout!WithTies(sp.ties, ref) = ref
  BY <1>1, <1>11, WithTiesSame
<1> QED
  BY <1>4, <1>5, <1>10, <1>12

\* What an output of a packed forward is computed from.
LEMMA ViewIs ==
  ASSUME NEW s, NEW t, IsTensor(t), Layout!Views(s) \in Seq(Nat),
         NEW i \in 1..Len(Layout!Views(s)), NEW a \in Nat, NEW k \in Nat,
         k = Layout!Views(s)[i], a = Cumulative(Layout!Views(s))[i - 1],
         a + k <= Len(t.rows)
  PROVE  Layout!View(s, t, i) = Cut(t, a, k)
<1> DEFINE m == [sizes |-> Layout!Views(s)]
<1>1. Layout!View(s, t, i) = Layout!Piece(m, t, i).rows
  BY DEF Layout!View
<1>2. m.sizes = Layout!Views(s)
  OBVIOUS
<1> HIDE DEF m
<1>3. Layout!Offset(m, i) = a /\ m.sizes[i] = k
  BY <1>2, LayoutSums DEF Layout!Offset
<1>4. Layout!Piece(m, t, i) = [t EXCEPT !.rows = SubSeq(t.rows, a + 1, a + k)]
  BY <1>3 DEF Layout!Piece
<1>5. t = [rows |-> t.rows, kind |-> t.kind, grad |-> t.grad]
  BY DEF IsTensor
<1> DEFINE r == SubSeq(t.rows, a + 1, a + k)
<1>6. r = Cut(t, a, k)
  BY CutRows, Zenon
<1> HIDE DEF r
<1>7. Layout!Piece(m, t, i).rows = r
  BY <1>4, <1>5, Zenon DEF r
<1> QED
  BY <1>1, <1>6, <1>7

\* Two neighbouring pieces are one.
LEMMA JoinRows ==
  ASSUME NEW t, IsTensor(t), NEW a \in Nat, NEW k \in Nat,
         a + 2 * k <= Len(t.rows)
  PROVE  Cut(t, a, k) \o Cut(t, a + k, k) = Cut(t, a, 2 * k)
<1> DEFINE x == [b \in 1..k |-> t.rows[a + b]]
           y == [b \in 1..k |-> t.rows[a + k + b]]
           z == [b \in 1..(2 * k) |-> t.rows[a + b]]
<1>1. PICK S : t.rows \in Seq(S)
  BY DEF IsTensor
<1>2. Len(t.rows) \in Nat /\ \A j \in 1..Len(t.rows) : t.rows[j] \in S
  BY <1>1, LenProperties, ElementOfSeq
<1>3. x \in Seq(S) /\ Len(x) = k
  <2>1. \A b \in 1..k : x[b] \in S
    BY <1>2
  <2>2. x = [b \in 1..k |-> x[b]]
    OBVIOUS
  <2> HIDE DEF x
  <2> QED
    BY <2>1, <2>2, IsSequence
<1>4. y \in Seq(S) /\ Len(y) = k
  <2>1. \A b \in 1..k : y[b] \in S
    BY <1>2
  <2>2. y = [b \in 1..k |-> y[b]]
    OBVIOUS
  <2> HIDE DEF y
  <2> QED
    BY <2>1, <2>2, IsSequence
<1>5. /\ x \o y \in Seq(S) /\ Len(x \o y) = 2 * k
      /\ \A i \in 1..(2 * k) : (x \o y)[i] = IF i <= k THEN x[i] ELSE y[i - k]
  <2> HIDE DEF x, y
  <2>1. /\ x \o y \in Seq(S) /\ Len(x \o y) = Len(x) + Len(y)
        /\ \A i \in 1..(Len(x) + Len(y)) :
             (x \o y)[i] = IF i <= Len(x) THEN x[i] ELSE y[i - Len(x)]
    BY <1>3, <1>4, ConcatProperties
  <2>2. Len(x) + Len(y) = 2 * k
    BY <1>3, <1>4
  <2> QED
    BY <1>3, <2>1, <2>2
<1>6. \A i \in 1..(2 * k) : (x \o y)[i] = z[i]
  <2>1. ASSUME NEW i \in 1..(2 * k) PROVE (x \o y)[i] = t.rows[a + i]
    <3>1. CASE i <= k
      <4>1. (x \o y)[i] = x[i]
        BY <1>5, <2>1, <3>1
      <4>2. i \in 1..k
        BY <2>1, <3>1
      <4> QED
        BY <4>1, <4>2
    <3>2. CASE ~(i <= k)
      <4>1. (x \o y)[i] = y[i - k]
        BY <1>5, <2>1, <3>2
      <4>2. i - k \in 1..k /\ a + k + (i - k) = a + i
        BY <2>1, <3>2
      <4>3. y[i - k] = t.rows[a + k + (i - k)]
        BY <4>2
      <4> QED
        BY <4>1, <4>2, <4>3
    <3> QED
      BY <3>1, <3>2
  <2> QED
    BY <2>1
<1>7. x \o y = [i \in 1..(2 * k) |-> (x \o y)[i]]
  <2> DEFINE w == x \o y
  <2>1. w \in Seq(S) /\ Len(w) = 2 * k
    BY <1>5
  <2> HIDE DEF w, x, y
  <2>2. w = [i \in 1..(2 * k) |-> w[i]]
    BY <2>1, LenProperties
  <2> QED
    BY <2>2 DEF w
<1>8. z = [i \in 1..(2 * k) |-> z[i]]
  OBVIOUS
<1> HIDE DEF x, y, z
<1>9. x \o y = z
  BY <1>6, <1>7, <1>8
<1> QED
  BY <1>9 DEF x, y, z, Cut

\* Every output of a packed forward is the rows of its own projection.
HandsOwn(s, sd, ref) ==
  LET packed == sd[Layout!Mapping(s, "weight").packed]
      Own(i) == ref[<<Layout!Parts(s)[i], "weight">>].rows
  IN  /\ Layout!View(s, packed, 1) = Own(1)
      /\ IF s.kind = "partial"
         THEN Layout!View(s, packed, 2) \o Layout!View(s, packed, 3) = Own(2)
         ELSE \A i \in DOMAIN Layout!Views(s) :
                Layout!View(s, packed, i) = Own(i)

\* A packed forward hands every projection its own rows.
LEMMA ViewsAre ==
  ASSUME NEW sp, IsSpec(sp), NEW sd, NEW ref, Sync(sp, sd, ref),
         NEW s \in Layout!ToSet(sp.layout), Layout!Parts(s) # <<>>
  PROVE  HandsOwn(s, sd, ref)
<1> DEFINE m == Layout!Mapping(s, "weight")
           t == sd[m.packed]
           Own(i) == ref[<<Layout!Parts(s)[i], "weight">>].rows
           c == m.sizes
           o == Cumulative(c)
<1>1. PICK j \in DOMAIN sp.layout : s = sp.layout[j]
  BY DEF Layout!ToSet
<1>2. sp.layout \in Layouts
  BY DEF IsSpec
<1>3. IsMapping(m)
  BY <1>1, <1>2, MappingIs
<1>4. m \in Layout!ToSet(sp.maps)
  BY MappingsAre
<1>5. Holds(m, ref, t)
  BY <1>4 DEF Sync
<1>6. /\ m.parts = [i \in DOMAIN Layout!Parts(s) |->
                      <<Layout!Parts(s)[i], "weight">>]
      /\ m.sizes = Layout!Sizes(s)
  BY DEF Layout!Mapping
<1>7. /\ s.kind \in {"qkv", "partial"} =>
           s.heads \in Nat /\ s.kv \in Nat /\ s.dim \in Nat
      /\ s.kind = "gated" => s.width \in Nat
  BY <1>1, <1>2, LayoutAssumption
<1> HIDE DEF m
<1>8. /\ IsTensor(t) /\ Len(t.rows) = Total(c) /\ c \in Seq(Nat)
      /\ Len(c) = Len(m.parts) /\ DOMAIN m.parts = 1..Len(m.parts)
  BY <1>3, <1>5 DEF Holds, IsMapping
<1>9. ASSUME NEW i \in 1..Len(m.parts)
      PROVE  /\ Own(i) = Cut(t, o[i - 1], c[i])
             /\ c[i] \in Nat /\ o[i - 1] \in Nat
             /\ o[i - 1] + c[i] <= Len(t.rows)
  <2> DEFINE r == ref[m.parts[i]]
  <2>1. /\ IsTensor(r) /\ Len(r.rows) = c[i]
        /\ \A b \in 1..c[i] : t.rows[o[i - 1] + b] = r.rows[b]
    BY <1>5, <1>9 DEF Holds
  <2>2. r.rows = [b \in 1..c[i] |-> r.rows[b]]
    BY <2>1, RowsOf
  <2>3. Own(i) = r.rows
    BY <1>6, <1>8, <1>9
  <2> HIDE DEF r, o, c
  <2>4. Own(i) = Cut(t, o[i - 1], c[i])
    BY <2>1, <2>2, <2>3, Zenon DEF Cut
  <2>5. /\ c[i] \in Nat /\ o[i - 1] \in Nat
        /\ o[i - 1] + c[i] <= Total(m.sizes)
    BY <1>3, <1>9, PartRows DEF c, o
  <2>6. o[i - 1] + c[i] <= Len(t.rows)
    BY <1>8, <2>5 DEF c
  <2> HIDE DEF Own, t
  <2> QED
    BY <2>4, <2>5, <2>6
<1> HIDE DEF t, Own
<1>10. CASE s.kind # "partial"
  <2>1. Layout!Views(s) = c
    BY <1>6, <1>10 DEF Layout!Views, Layout!Sizes, Layout!PackedQKV,
       Layout!PackedGatedMLP, Layout!Parts
  <2>2. ASSUME NEW i \in 1..Len(m.parts)
        PROVE  Layout!View(s, t, i) = Own(i)
    <3> DEFINE a == o[i - 1]
               k == c[i]
    <3>1. /\ a \in Nat /\ k \in Nat /\ a + k <= Len(t.rows)
          /\ Own(i) = Cut(t, a, k)
      BY <1>9, <2>2
    <3>2. /\ k = Layout!Views(s)[i] /\ a = Cumulative(Layout!Views(s))[i - 1]
          /\ Layout!Views(s) \in Seq(Nat) /\ i \in 1..Len(Layout!Views(s))
      BY <1>8, <2>1, <2>2
    <3> HIDE DEF a, k
    <3>3. Layout!View(s, t, i) = Cut(t, a, k)
      BY <1>8, <3>1, <3>2, ViewIs
    <3> QED
      BY <3>1, <3>3
  <2>3. 1 \in 1..Len(m.parts)
    BY <1>3 DEF IsMapping
  <2>4. DOMAIN Layout!Views(s) = 1..Len(m.parts)
    BY <1>8, <2>1, LenProperties
  <2> QED
    BY <1>10, <2>2, <2>3, <2>4 DEF m, t, Own, HandsOwn
<1>11. CASE s.kind = "partial"
  <2> DEFINE Q == Layout!QuerySize(s)
             KV == Layout!KVSize(s)
             V == <<Q, KV, KV>>
  <2>1. Q \in Nat /\ KV \in Nat
    BY <1>7, <1>11 DEF Layout!QuerySize, Layout!KVSize
  <2>2. c = <<Q, 2 * KV>> /\ Layout!Views(s) = V
    BY <1>6, <1>11 DEF Layout!Sizes, Layout!Views, Layout!PackedPartialQKV
  <2>3. Len(m.parts) = 2
    BY <1>8, <2>2
  <2> HIDE DEF Q, KV
  <2>4. V \in Seq(Nat) /\ Len(V) = 3 /\ V[1] = Q /\ V[2] = KV /\ V[3] = KV
    BY <2>1
  <2> HIDE DEF V
  <2>5. /\ Cumulative(V)[0] = 0 /\ Cumulative(V)[1] = Q
        /\ Cumulative(V)[2] = Q + KV
    <3>1. /\ Cumulative(V)[0] = 0
          /\ \A x \in 1..Len(V) : Cumulative(V)[x] = Cumulative(V)[x - 1] + V[x]
      BY <2>4, CumulativeIs, Zenon
    <3>2. Cumulative(V)[1] = Cumulative(V)[0] + V[1]
      BY <2>4, <3>1
    <3>3. Cumulative(V)[2] = Cumulative(V)[1] + V[2]
      BY <2>4, <3>1
    <3> QED
      BY <2>1, <2>4, <3>1, <3>2, <3>3
  <2>6. o[0] = 0 /\ o[1] = Q
    <3>1. /\ o[0] = 0
          /\ \A x \in 1..Len(c) : o[x] = o[x - 1] + c[x]
      BY <1>8, CumulativeIs
    <3>2. o[1] = o[0] + c[1] /\ c[1] = Q
      BY <1>8, <2>2, <2>3, <3>1
    <3> QED
      BY <2>1, <3>1, <3>2
  <2>7. c[1] = Q /\ c[2] = 2 * KV
    BY <2>2
  <2>8. /\ Own(1) = Cut(t, o[0], c[1])
        /\ Own(2) = Cut(t, o[1], c[2])
        /\ o[0] + c[1] <= Len(t.rows) /\ o[1] + c[2] <= Len(t.rows)
    <3>1. \A i \in 1..2 : /\ Own(i) = Cut(t, o[i - 1], c[i])
                          /\ o[i - 1] + c[i] <= Len(t.rows)
      BY <1>9, <2>3
    <3> HIDE DEF o, c
    <3>2. 1 \in 1..2 /\ 2 \in 1..2 /\ 1 - 1 = 0 /\ 2 - 1 = 1
      OBVIOUS
    <3> QED
      BY <3>1, <3>2
  <2> HIDE DEF o, c
  <2>9. /\ Own(1) = Cut(t, 0, Q)
        /\ Own(2) = Cut(t, Q, 2 * KV)
        /\ 0 + Q <= Len(t.rows) /\ Q + 2 * KV <= Len(t.rows)
    BY <2>6, <2>7, <2>8
  <2>10. Len(t.rows) \in Nat
    BY <1>8, RowsOf
  <2>11. Layout!View(s, t, 1) = Cut(t, 0, Q)
    <3>1. /\ 1 \in 1..Len(Layout!Views(s)) /\ Layout!Views(s) \in Seq(Nat)
          /\ Q = Layout!Views(s)[1] /\ 0 = Cumulative(Layout!Views(s))[1 - 1]
      BY <2>2, <2>4, <2>5
    <3> QED
      BY <1>8, <2>1, <2>9, <3>1, ViewIs
  <2>12. Layout!View(s, t, 2) = Cut(t, Q, KV)
    <3>1. /\ 2 \in 1..Len(Layout!Views(s)) /\ Layout!Views(s) \in Seq(Nat)
          /\ KV = Layout!Views(s)[2] /\ Q = Cumulative(Layout!Views(s))[2 - 1]
      BY <2>2, <2>4, <2>5
    <3>2. Q + KV <= Len(t.rows)
      BY <2>1, <2>9, <2>10
    <3> QED
      BY <1>8, <2>1, <3>1, <3>2, ViewIs
  <2>13. Layout!View(s, t, 3) = Cut(t, Q + KV, KV)
    <3> DEFINE a == Q + KV
    <3>1. a \in Nat /\ a + KV <= Len(t.rows)
      BY <2>1, <2>9, <2>10
    <3>2. /\ 3 \in 1..Len(Layout!Views(s)) /\ Layout!Views(s) \in Seq(Nat)
          /\ KV = Layout!Views(s)[3] /\ a = Cumulative(Layout!Views(s))[3 - 1]
      BY <2>2, <2>4, <2>5
    <3> HIDE DEF a
    <3>3. Layout!View(s, t, 3) = Cut(t, a, KV)
      BY <1>8, <2>1, <3>1, <3>2, ViewIs
    <3> QED
      BY <3>3 DEF a
  <2>14. Layout!View(s, t, 2) \o Layout!View(s, t, 3) = Own(2)
    <3>1. Cut(t, Q, KV) \o Cut(t, Q + KV, KV)
            = Cut(t, Q, 2 * KV)
      BY <1>8, <2>1, <2>9, JoinRows, Zenon
    <3> QED
      BY <2>9, <2>12, <2>13, <3>1
  <2>15. Layout!View(s, t, 1) = Own(1)
    BY <2>9, <2>11
  <2> QED
    BY <1>11, <2>14, <2>15, Zenon DEF m, t, Own, HandsOwn
<1> QED
  BY <1>10, <1>11

\* The packed model, and what was saved of it, stay in step with what an
\* unpacked training would hold.
LayoutInv ==
  /\ lyAt \in {"start", "separate", "packed", "exported", "rejected"}
  /\ lyAt \in {"separate", "packed"} => IsSpec(lySpec)
  /\ lyAt \in {"start", "separate"} => lyStored = <<>>
  /\ lyAt = "separate" => /\ lyLive = lyReference
                          /\ Separate(lySpec, lyLive)
  /\ lyAt = "packed" => /\ Sync(lySpec, lyLive, lyReference)
                        /\ lyStored # <<>> =>
                             Sync(lySpec, lyStored[1], lyStored[2])
  /\ lyAt = "exported" => lyExported = lyReference /\ lyReport
  /\ lyAt = "rejected" => lyLive = lyReference

\* A source is loaded: nothing is stored yet.
LEMMA LayoutInit == Layout!Init => LayoutInv
  BY DEF Layout!Init, LayoutInv

\* A source whose mappings are accepted is a model as it is loaded.
LEMMA LayoutLoad == LayoutInv /\ Layout!Load => LayoutInv'
<1> SUFFICES ASSUME LayoutInv, Layout!Load PROVE LayoutInv'
  OBVIOUS
<1>1. lyAt = "start" /\ lyStored = <<>>
  BY DEF LayoutInv, Layout!Load
<1>2. /\ lyLive' = lyReference' /\ lyStored' = <<>>
      /\ \E layout \in Layouts, groups \in TieGroups, defect \in Defects :
           LET maps == Layout!FlattenSeq(
                         [i \in DOMAIN layout |-> Layout!Mappings(layout[i])])
               good == /\ \A i \in DOMAIN layout : Layout!Grouped(layout[i])
                       /\ Layout!Constructs(maps, groups)
           IN  /\ lySpec' = [layout |-> layout, maps |-> maps, ties |-> groups]
               /\ lyAt' = IF good THEN "separate" ELSE "rejected"
               /\ lyReference' =
                    IF good THEN Layout!Source(layout, maps, groups, defect)
                    ELSE Layout!Empty
  BY <1>1 DEF Layout!Load
<1>3. PICK layout \in Layouts, groups \in TieGroups, defect \in Defects :
           LET maps == Layout!FlattenSeq(
                         [i \in DOMAIN layout |-> Layout!Mappings(layout[i])])
               good == /\ \A i \in DOMAIN layout : Layout!Grouped(layout[i])
                       /\ Layout!Constructs(maps, groups)
           IN  /\ lySpec' = [layout |-> layout, maps |-> maps, ties |-> groups]
               /\ lyAt' = IF good THEN "separate" ELSE "rejected"
               /\ lyReference' =
                    IF good THEN Layout!Source(layout, maps, groups, defect)
                    ELSE Layout!Empty
  BY <1>2
<1> DEFINE maps == Layout!FlattenSeq(
                     [i \in DOMAIN layout |-> Layout!Mappings(layout[i])])
           good == /\ \A i \in DOMAIN layout : Layout!Grouped(layout[i])
                   /\ Layout!Constructs(maps, groups)
           sp == [layout |-> layout, maps |-> maps, ties |-> groups]
<1>4. CASE good
  <2>1. /\ lyAt' = "separate" /\ lySpec' = sp
        /\ lyReference' = Layout!Source(layout, maps, groups, defect)
    BY <1>3, <1>4
  <2>2. /\ sp.layout = layout /\ sp.maps = maps /\ sp.ties = groups
    OBVIOUS
  <2>3. Layout!Constructs(maps, groups)
    BY <1>4
  <2> HIDE DEF sp
  <2>4. sp.maps = Layout!FlattenSeq(
          [i \in DOMAIN sp.layout |-> Layout!Mappings(sp.layout[i])])
    BY <2>2
  <2> HIDE DEF maps
  <2>5. IsSpec(sp)
    BY <2>2, <2>3, <2>4 DEF IsSpec
  <2>6. Separate(sp, Layout!Source(sp.layout, sp.maps, sp.ties, defect))
    BY <2>5, SourceIs
  <2>7. Separate(lySpec', lyLive')
    BY <1>2, <2>1, <2>2, <2>6
  <2>8. IsSpec(lySpec')
    BY <2>1, <2>5
  <2> QED
    BY <1>2, <2>1, <2>7, <2>8 DEF LayoutInv
<1>5. CASE ~good
  <2>1. lyAt' = "rejected"
    BY <1>3, <1>5
  <2> QED
    BY <1>2, <2>1 DEF LayoutInv
<1> QED
  BY <1>4, <1>5

\* What from_separate accepts is packed in step, the rest is left alone.
LEMMA LayoutPack == LayoutInv /\ Layout!Pack => LayoutInv'
<1> SUFFICES ASSUME LayoutInv, Layout!Pack PROVE LayoutInv'
  OBVIOUS
<1> DEFINE fit == /\ Layout!Accepts(lySpec.layout, lySpec.maps, lyLive)
                  /\ Layout!CanTransform(lySpec.maps, lySpec.ties, lyLive)
<1>1. /\ lyAt = "separate"
      /\ lyAt' = IF fit THEN "packed" ELSE "rejected"
      /\ lyLive' = IF fit THEN Layout!ToTransformed(lySpec.maps, lySpec.ties,
                                                    lyLive)
                   ELSE lyLive
      /\ lySpec' = lySpec /\ lyReference' = lyReference /\ lyStored' = lyStored
  BY DEF Layout!Pack
<1>2. /\ IsSpec(lySpec) /\ lyStored = <<>> /\ lyLive = lyReference
      /\ Separate(lySpec, lyLive)
  BY <1>1 DEF LayoutInv
<1>3. CASE fit
  <2>1. Sync(lySpec, Layout!ToTransformed(lySpec.maps, lySpec.ties, lyLive),
             lyLive)
    BY <1>2, <1>3, Transformed
  <2>2. Sync(lySpec', lyLive', lyReference')
    BY <1>1, <1>2, <1>3, <2>1
  <2>3. IsSpec(lySpec')
    BY <1>1, <1>2
  <2> QED
    BY <1>1, <1>2, <1>3, <2>2, <2>3 DEF LayoutInv
<1>4. CASE ~fit
  <2>1. lyAt' = "rejected" /\ lyLive' = lyReference'
    BY <1>1, <1>2, <1>4
  <2> QED
    BY <2>1 DEF LayoutInv
<1> QED
  BY <1>3, <1>4

\* An update, a save and a resume keep them in step.
LEMMA LayoutTrain ==
  /\ LayoutInv /\ Layout!Train => LayoutInv'
  /\ LayoutInv /\ Layout!SaveLayout => LayoutInv'
  /\ LayoutInv /\ Layout!ResumeLayout => LayoutInv'
<1>1. ASSUME LayoutInv, Layout!Train PROVE LayoutInv'
  <2>1. /\ lyAt = "packed" /\ lyAt' = lyAt /\ lySpec' = lySpec
        /\ lyStored' = lyStored
        /\ lyLive' = Layout!Stepped(lyLive)
        /\ lyReference' = Layout!Stepped(lyReference)
    BY <1>1 DEF Layout!Train
  <2>2. /\ IsSpec(lySpec) /\ Sync(lySpec, lyLive, lyReference)
        /\ lyStored # <<>> => Sync(lySpec, lyStored[1], lyStored[2])
    BY <1>1, <2>1 DEF LayoutInv
  <2>3. Sync(lySpec', lyLive', lyReference')
    BY <2>1, <2>2, TrainSync
  <2>4. /\ IsSpec(lySpec')
        /\ lyStored' # <<>> => Sync(lySpec', lyStored'[1], lyStored'[2])
    BY <2>1, <2>2
  <2> QED
    BY <2>1, <2>3, <2>4 DEF LayoutInv
<1>2. ASSUME LayoutInv, Layout!SaveLayout PROVE LayoutInv'
  <2>1. /\ lyAt = "packed" /\ lyAt' = lyAt /\ lySpec' = lySpec
        /\ lyStored' = <<lyLive, lyReference, lyUpdates>>
        /\ lyLive' = lyLive /\ lyReference' = lyReference
    BY <1>2 DEF Layout!SaveLayout
  <2>2. IsSpec(lySpec) /\ Sync(lySpec, lyLive, lyReference)
    BY <1>2, <2>1 DEF LayoutInv
  <2>3. lyStored'[1] = lyLive /\ lyStored'[2] = lyReference
    BY <2>1
  <2>4. /\ IsSpec(lySpec') /\ Sync(lySpec', lyLive', lyReference')
        /\ Sync(lySpec', lyStored'[1], lyStored'[2])
    BY <2>1, <2>2, <2>3
  <2> QED
    BY <2>1, <2>4 DEF LayoutInv
<1>3. ASSUME LayoutInv, Layout!ResumeLayout PROVE LayoutInv'
  <2>1. /\ lyAt = "packed" /\ lyAt' = lyAt /\ lySpec' = lySpec
        /\ lyStored # <<>> /\ lyStored' = lyStored
        /\ lyLive' = lyStored[1] /\ lyReference' = lyStored[2]
    BY <1>3 DEF Layout!ResumeLayout
  <2>2. IsSpec(lySpec) /\ Sync(lySpec, lyStored[1], lyStored[2])
    BY <1>3, <2>1 DEF LayoutInv
  <2>3. /\ IsSpec(lySpec') /\ Sync(lySpec', lyLive', lyReference')
        /\ Sync(lySpec', lyStored'[1], lyStored'[2])
    BY <2>1, <2>2
  <2> QED
    BY <2>1, <2>3 DEF LayoutInv
<1> QED
  BY <1>1, <1>2, <1>3

\* What is exported is what an unpacked training would hold.
LEMMA LayoutExport == LayoutInv /\ Layout!Export => LayoutInv'
<1> SUFFICES ASSUME LayoutInv, Layout!Export PROVE LayoutInv'
  OBVIOUS
<1>1. /\ lyAt = "packed" /\ lyReference' = lyReference
      /\ IF Layout!CanSplit(lySpec.maps, lyLive)
         THEN /\ lyAt' = "exported"
              /\ lyExported' =
                   Layout!ToCanonical(lySpec.maps, lySpec.ties, lyLive)
              /\ lyReport' = Layout!RoundTrip(lyReference, lyExported')
         ELSE lyAt' = "rejected" /\ UNCHANGED <<lyExported, lyReport>>
  BY DEF Layout!Export
<1>2. IsSpec(lySpec) /\ Sync(lySpec, lyLive, lyReference)
  BY <1>1 DEF LayoutInv
<1>3. /\ Layout!CanSplit(lySpec.maps, lyLive)
      /\ Layout!ToCanonical(lySpec.maps, lySpec.ties, lyLive) = lyReference
  BY <1>2, ExportedIs
<1>4. /\ lyAt' = "exported" /\ lyExported' = lyReference
      /\ lyReport' = Layout!RoundTrip(lyReference, lyExported')
  BY <1>1, <1>3
<1>5. Layout!RoundTrip(lyReference, lyExported')
  BY <1>4 DEF Layout!RoundTrip
<1>6. lyReport'
  BY <1>4, <1>5
<1> QED
  BY <1>1, <1>4, <1>6 DEF LayoutInv

\* Every step keeps the packed model in step with its reference.
LEMMA LayoutNext ==
  LayoutInv /\ (Layout!Next \/ UNCHANGED LayoutVars) => LayoutInv'
<1>1. CASE UNCHANGED LayoutVars
  BY <1>1 DEF LayoutVars, LayoutInv
<1> QED
  BY <1>1, LayoutLoad, LayoutPack, LayoutTrain, LayoutExport DEF Layout!Next

\* A model in step is exported, and looked at, as it should be.
LEMMA LayoutTrips == LayoutInv => Layout!LayoutRoundTrip
<1> SUFFICES ASSUME LayoutInv PROVE Layout!LayoutRoundTrip
  OBVIOUS
<1>1. ASSUME lyAt = "packed",
             NEW s \in {x \in Layout!ToSet(lySpec.layout) :
                          Layout!Parts(x) # <<>>}
      PROVE  HandsOwn(s, lyLive, lyReference)
  <2>1. IsSpec(lySpec) /\ Sync(lySpec, lyLive, lyReference)
    BY <1>1 DEF LayoutInv
  <2>2. s \in Layout!ToSet(lySpec.layout) /\ Layout!Parts(s) # <<>>
    BY <1>1
  <2> QED
    BY <2>1, <2>2, ViewsAre
<1>2. /\ lyAt = "exported" => lyExported = lyReference /\ lyReport
      /\ lyAt = "rejected" => lyLive = lyReference
  BY DEF LayoutInv
<1> QED
  BY <1>1, <1>2, Zenon DEF Layout!LayoutRoundTrip, HandsOwn

-----------------------------------------------------------------------------
(* The parts together                                                       *)

\* A step of the composition is a step of the part that runs, or none.
LEMMA PartSteps ==
  ASSUME [PartsNext]_PartsVars
  PROVE  /\ part' = part
         /\ part = "request" => Request!Next \/ UNCHANGED RequestVars
         /\ part = "transforms" => Planner!Next \/ UNCHANGED PlannerVars
         /\ part = "layouts" => Layout!Next \/ UNCHANGED LayoutVars
         /\ part = "manifests" => Manifest!Next \/ UNCHANGED ManifestVars
         /\ part = "checkpoint" => Engine!Next \/ UNCHANGED EngineVars
BY DEF PartsNext, PartsVars, RequestStep, PlannerStep, LayoutStep, LoopStep,
   ManifestStep, EngineStep

\* An asynchronous save that claims to be durable is on disk, whole and
\* retained last (checkpoint/lifecycle.py).
THEOREM DurableAlwaysPublished == PartsSpec => []DurableIsPublished
<1> DEFINE I == part = "manifests" => ManifestInv
<1>1. PartsInit => I
  BY ManifestInit DEF PartsInit
<1>2. I /\ [PartsNext]_PartsVars => I'
  <2> SUFFICES ASSUME I, [PartsNext]_PartsVars, part' = "manifests"
               PROVE  ManifestInv'
    OBVIOUS
  <2>1. ManifestInv /\ (Manifest!Next \/ UNCHANGED ManifestVars)
    BY PartSteps
  <2> QED
    BY <2>1, ManifestBegin, ManifestWrite, ManifestComplete, ManifestOther
    DEF Manifest!Next
<1>3. I => DurableIsPublished
  BY DEF DurableIsPublished, Manifest!DurableIsPublished, ManifestInv
<1> QED
  BY <1>1, <1>2, <1>3, PTL DEF PartsSpec

\* A resume or an export that is granted can be carried out: every rank finds
\* its shards, its random state and its cursor, every weight its format
\* (checkpoint/distributed.py, canonical.py).
THEOREM GrantedAlwaysWhole == PartsSpec => []GrantedIsWhole
<1> DEFINE I == part = "manifests" => GrantInv
<1>1. PartsInit => I
  BY GrantInit DEF PartsInit
<1>2. I /\ [PartsNext]_PartsVars => I'
  <2> SUFFICES ASSUME I, [PartsNext]_PartsVars, part' = "manifests"
               PROVE  GrantInv'
    OBVIOUS
  <2>1. GrantInv /\ (Manifest!Next \/ UNCHANGED ManifestVars)
    BY PartSteps
  <2> QED
    BY <2>1, GrantNext
<1>3. I => GrantedIsWhole
  BY DEF GrantedIsWhole, GrantInv
<1> QED
  BY <1>1, <1>2, <1>3, PTL DEF PartsSpec

\* A resumed loader stands where the saved one stood, in the same order, if
\* the checkpoint names the generator state its loader began with (api.py).
THEOREM ReplayAlwaysExact == PartsSpec => []ReplayIsExact
<1> DEFINE I == part = "checkpoint" => PositionInv
<1>1. PartsInit => I
  BY PositionInit DEF PartsInit
<1>2. I /\ [PartsNext]_PartsVars => I'
  <2> SUFFICES ASSUME I, [PartsNext]_PartsVars, part' = "checkpoint"
               PROVE  PositionInv'
    OBVIOUS
  <2>1. PositionInv /\ (Engine!Next \/ UNCHANGED EngineVars)
    BY PartSteps
  <2> QED
    BY <2>1, PositionNext
<1>3. I => ReplayIsExact
  BY PositionExact DEF ReplayIsExact
<1> QED
  BY <1>1, <1>2, <1>3, PTL DEF PartsSpec

\* A refused resume leaves the engine as it was, but for what the preflight
\* cannot see, and one that ends has restored every section that was saved.
THEOREM ResumeAlwaysWhole == PartsSpec => []ResumeAllOrNothing
<1> DEFINE I == part = "checkpoint" => PositionInv /\ RestoredInv
<1>1. PartsInit => I
  BY PositionInit, RestoredInit DEF PartsInit
<1>2. I /\ [PartsNext]_PartsVars => I'
  <2> SUFFICES ASSUME I, [PartsNext]_PartsVars, part' = "checkpoint"
               PROVE  PositionInv' /\ RestoredInv'
    OBVIOUS
  <2>1. /\ PositionInv /\ RestoredInv
        /\ Engine!Next \/ UNCHANGED EngineVars
    BY PartSteps
  <2>2. PositionInv'
    BY <2>1, PositionNext
  <2>3. RestoredInv'
    BY <2>1, RestoredLoad, RestoredOther DEF Engine!Next
  <2> QED
    BY <2>2, <2>3
<1>3. I => ResumeAllOrNothing
  BY DEF ResumeAllOrNothing, RestoredInv
<1> QED
  BY <1>1, <1>2, <1>3, PTL DEF PartsSpec

\* A TPU worker trains with the options the facade was asked for, whatever
\* they are, across the command line and the parser (api.py, _tpu_worker.py).
THEOREM TrainsAlwaysAsAsked == PartsSpec => []TrainsAsAsked
<1> DEFINE I == part = "request" => RequestInv
<1>1. PartsInit => I
  BY RequestInit DEF PartsInit
<1>2. I /\ [PartsNext]_PartsVars => I'
  <2> SUFFICES ASSUME I, [PartsNext]_PartsVars, part' = "request"
               PROVE  RequestInv'
    OBVIOUS
  <2>1. RequestInv /\ (Request!Next \/ UNCHANGED RequestVars)
    BY PartSteps
  <2> QED
    BY <2>1, RequestNext
<1>3. I => TrainsAsAsked
  BY RequestAsked DEF TrainsAsAsked
<1> QED
  BY <1>1, <1>2, <1>3, PTL DEF PartsSpec

\* The planner's invariant, for every provider, request and model.
THEOREM PlannerAlways == PartsSpec => [](part = "transforms" => PlannerInv)
<1> DEFINE I == part = "transforms" => PlannerInv
<1>1. PartsInit => I
  BY PlannerBegins DEF PartsInit
<1>2. I /\ [PartsNext]_PartsVars => I'
  <2> SUFFICES ASSUME I, [PartsNext]_PartsVars, part' = "transforms"
               PROVE  PlannerInv'
    OBVIOUS
  <2>1. PlannerInv /\ (Planner!Next \/ UNCHANGED PlannerVars)
    BY PartSteps
  <2> QED
    BY <2>1, PlannerNext, PlannerStays
<1> QED
  BY <1>1, <1>2, PTL DEF PartsSpec

\* A transaction that failed or was rolled back leaves every module it could
\* reach as it was, and a commit leaves every transformation in effect
\* (optimization/transforms.py).
THEOREM TransformsAlwaysAtomic == PartsSpec => []TransformsAtomic
<1>1. (part = "transforms" => PlannerInv) => TransformsAtomic
  BY PlannerAtomic DEF TransformsAtomic
<1> QED
  BY <1>1, PlannerAlways, PTL

\* A committed plan obeys the policy it was made under
\* (optimization/planner.py).
THEOREM PolicyAlwaysHonoured == PartsSpec => []PolicyHonoured
<1>1. (part = "transforms" => PlannerInv) => PolicyHonoured
  BY PlannerHonours DEF PolicyHonoured
<1> QED
  BY <1>1, PlannerAlways, PTL

\* Packing, training, saving and resuming leave an export what an unpacked
\* training would have made (optimization/state_dict.py,
\* checkpoint/roundtrip.py).
THEOREM LayoutsAlwaysRoundTrip == PartsSpec => []LayoutRoundTrip
<1> DEFINE I == part = "layouts" => LayoutInv
<1>1. PartsInit => I
  BY LayoutInit DEF PartsInit
<1>2. I /\ [PartsNext]_PartsVars => I'
  <2> SUFFICES ASSUME I, [PartsNext]_PartsVars, part' = "layouts"
               PROVE  LayoutInv'
    OBVIOUS
  <2>1. LayoutInv /\ (Layout!Next \/ UNCHANGED LayoutVars)
    BY PartSteps
  <2> QED
    BY <2>1, LayoutNext
<1>3. I => LayoutRoundTrip
  BY LayoutTrips DEF LayoutRoundTrip
<1> QED
  BY <1>1, <1>2, <1>3, PTL DEF PartsSpec
=============================================================================
