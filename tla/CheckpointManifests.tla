------------------------ MODULE CheckpointManifests ------------------------
(***************************************************************************)
(* The manifest layer of a checkpoint: the lifecycle object that one       *)
(* asynchronous writer reports to (checkpoint/lifecycle.py), the resume    *)
(* and export manifests whose constructors refuse an incomplete one        *)
(* (contracts.py, resume.py, export.py) and the two planners that grant a  *)
(* distributed resume or a Hugging Face export from a manifest             *)
(* (distributed.py, canonical.py).                                         *)
(*                                                                         *)
(* The writer is what the class expects of its caller: it builds the       *)
(* manifest of the transaction it was started for, publishes it when it    *)
(* can be constructed as committed, and reports complete() or fail() once. *)
(* Its manifests are the right one with up to MaxSlips slips: a file       *)
(* left out, optional, misplaced or of another role, a state or a cursor   *)
(* short of a part, a commit left in staging.  Texts, digests, sizes and   *)
(* timestamps are left out: their checks do not touch another field.       *)
(***************************************************************************)
EXTENDS Naturals, Sequences, FiniteSets

\* Transactions is a set of positive numbers.
CONSTANTS Transactions, World, Backends, MaxRetained, MaxSlips

VARIABLES
  phase,      \* "idle" | "in_flight" | "committed" | "failed" | "shutdown"
  tx,         \* the transaction begun last, 0 for none
  durable,
  retained,   \* transactions kept, oldest first
  writer,     \* "idle" | "writing" | "written" | "broken"
  disk,       \* the manifest each transaction published, or Nothing
  granted     \* what a planner granted, until the next save begins

manifestVars == <<phase, tx, durable, retained, writer, disk, granted>>

----------------------------------------------------------------------------
Nothing == [kind |-> "none"]
\* The ranks that write a checkpoint, one shard and one cursor each.
Writers == 0 .. World - 1
NoRank == World

Roles == {"model", "optimizer", "scheduler", "trainer", "runtime", "rng",
          "data"}
Sharded == {"model", "optimizer"}
PerRank == {"rng", "data"}
ExportRoles == {"config", "model_weights"}

(* One file: `group' is the singleton shard group, empty for a whole file. *)
Artifact(role, k) ==
  [role |-> role, path |-> <<role, k>>, required |-> TRUE,
   group |-> IF role \in Sharded THEN {role} ELSE {},
   index |-> k, count |-> World,
   rank |-> IF role \in PerRank THEN k ELSE NoRank, format |-> "safetensors"]

Files(roles, split) ==
  {<<role, 0>> : role \in roles}
    \cup {<<role, k>> : role \in split, k \in Writers}

(* Layouts a distributed save gives each state. *)
Layout(role) ==
  CASE role \in Sharded -> "sharded"
    [] role = "rng"     -> "per_rank"
    [] role = "data"    -> "per_worker"
    [] OTHER            -> "replicated"

WholeResume ==
  LET ids == Files(Roles, Sharded \cup PerRank)
  IN [kind |-> "resume", status |-> "complete",
      backend |-> CHOOSE b \in Backends : TRUE, world |-> World,
      artifacts |-> [i \in ids |-> Artifact(i[1], i[2])],
      states |-> [role \in Roles |->
                    [layout |-> Layout(role), keying |-> "canonical",
                     ids |-> {i \in ids : i[1] = role}]],
      cursors |-> [r \in Writers |-> [exact |-> TRUE, state |-> <<"data", r>>]]]

WholeExport ==
  LET ids == Files(ExportRoles \cup {"weight_index"}, {"model_weights"})
  IN [kind |-> "export", status |-> "complete",
      artifacts |-> [i \in ids |-> Artifact(i[1], i[2])],
      target |-> "huggingface", remaining |-> {}, safe |-> TRUE]

Without(f, x) == [y \in DOMAIN f \ {x} |-> f[y]]

(* Manifests one slip of the writer away from m. *)
FileSlips(m) ==
  {[m EXCEPT !.artifacts = Without(@, i)] : i \in DOMAIN m.artifacts}
  \cup {[m EXCEPT !.artifacts[i].required = FALSE] : i \in DOMAIN m.artifacts}
  \cup {[m EXCEPT !.artifacts[i].rank = 0] : i \in DOMAIN m.artifacts}
  \cup {[m EXCEPT !.artifacts[i].index = 0] : i \in DOMAIN m.artifacts}
  \cup {[m EXCEPT !.artifacts[i].count = World + 1] : i \in DOMAIN m.artifacts}
  \cup {[m EXCEPT !.artifacts[i].role = "optimizer"] :
          i \in DOMAIN m.artifacts}
  \cup {[m EXCEPT !.artifacts[i].format = "pickle"] : i \in DOMAIN m.artifacts}
  \cup {[m EXCEPT !.artifacts[i].path = m.artifacts[j].path] :
          i \in DOMAIN m.artifacts, j \in DOMAIN m.artifacts}

StateSlips(m) ==
  {[m EXCEPT !.states = Without(@, s)] : s \in DOMAIN m.states}
  \cup {[m EXCEPT !.states[s].keying = "position"] : s \in DOMAIN m.states}
  \cup {[m EXCEPT !.states[s].layout = "replicated"] : s \in DOMAIN m.states}
  \cup UNION {{[m EXCEPT !.states[s].ids = @ \ {i}] :
                 i \in m.states[s].ids} : s \in DOMAIN m.states}

CursorSlips(m) ==
  {[m EXCEPT !.cursors = Without(@, r)] : r \in DOMAIN m.cursors}
  \cup {[m EXCEPT !.cursors[r].exact = FALSE] : r \in DOMAIN m.cursors}
  \cup {[m EXCEPT !.cursors[r].state = <<"rng", 0>>] : r \in DOMAIN m.cursors}

Slips(m) ==
  {[m EXCEPT !.status = "staging"]} \cup FileSlips(m)
  \cup (IF m.kind = "resume" THEN StateSlips(m) \cup CursorSlips(m)
        ELSE {[m EXCEPT !.target = "native"], [m EXCEPT !.safe = FALSE],
              [m EXCEPT !.remaining = {"qkv"}]})

Attempts ==
  LET f[n \in 0 .. MaxSlips] ==
        IF n = 0 THEN {WholeResume, WholeExport}
        ELSE f[n - 1] \cup UNION {Slips(m) : m \in f[n - 1]}
  IN f[MaxSlips]

----------------------------------------------------------------------------
(* contracts.validate_artifacts: paths are unique, and a shard group       *)
(* agrees on its size and, when committed, holds each of its indices.      *)
ValidArtifacts(m) ==
  LET files == m.artifacts
      Shards(g) == {i \in DOMAIN files : g \in files[i].group}
  IN /\ \A i, j \in DOMAIN files : files[i].path = files[j].path => i = j
     /\ \A g \in UNION {files[i].group : i \in DOMAIN files} :
          \E n \in {files[i].count : i \in Shards(g)} :
            /\ \A i \in Shards(g) : files[i].count = n
            /\ m.status = "complete" =>
                 {files[i].index : i \in Shards(g)} = 0 .. n - 1

FilesOfRole(m, role) ==
  {i \in DOMAIN m.artifacts : m.artifacts[i].role = role}
RequiredRoles(m) ==
  {m.artifacts[i].role : i \in {j \in DOMAIN m.artifacts :
                                  m.artifacts[j].required}}

(* Mutant of ValidState: per-rank files may name any ranks.                *)
ValidState_AnyRank(m, s) ==
  LET state == m.states[s]
  IN /\ state.ids # {}
     /\ m.status = "complete" =>
          /\ \A i \in state.ids :
               /\ i \in DOMAIN m.artifacts
               /\ m.artifacts[i].required
               /\ m.artifacts[i].role = s
          /\ state.layout = "sharded" /\ m.world > 1 =>
               \A i \in state.ids : /\ m.artifacts[i].group # {}
                                    /\ m.artifacts[i].count = m.world

(* StateDescriptor plus the committed part of ResumeManifest that concerns *)
(* one state: each file it lists exists, is required and of its role, a    *)
(* sharded one is one of world_size, the per-rank ones name every rank.    *)
ValidState(m, s) ==
  LET state == m.states[s]
  IN /\ state.ids # {}
     /\ m.status = "complete" =>
          /\ \A i \in state.ids :
               /\ i \in DOMAIN m.artifacts
               /\ m.artifacts[i].required
               /\ m.artifacts[i].role = s
          /\ state.layout = "sharded" /\ m.world > 1 =>
               \A i \in state.ids : /\ m.artifacts[i].group # {}
                                    /\ m.artifacts[i].count = m.world
          /\ state.layout = "per_rank" =>
               {m.artifacts[i].rank : i \in state.ids} = 0 .. m.world - 1

ValidCursors(m) ==
  /\ DOMAIN m.cursors = 0 .. m.world - 1
  /\ \A r \in DOMAIN m.cursors :
       LET cursor == m.cursors[r]
       IN /\ cursor.exact
          /\ cursor.state \in FilesOfRole(m, "data")
          /\ m.artifacts[cursor.state].required

(* ResumeManifest.__post_init__ *)
ResumeConstructs(m) ==
  /\ ValidArtifacts(m)
  /\ m.status = "complete" => /\ Roles \subseteq RequiredRoles(m)
                              /\ Roles \subseteq DOMAIN m.states
  /\ \A s \in DOMAIN m.states : ValidState(m, s)
  /\ m.status = "complete" => /\ m.states["optimizer"].keying = "canonical"
                              /\ ValidCursors(m)

(* HFExportManifest.__post_init__ *)
ExportConstructs(m) ==
  /\ m.safe
  /\ ValidArtifacts(m)
  /\ {m.artifacts[i].role : i \in DOMAIN m.artifacts}
       \cap (Roles \ {"model"}) = {}
  /\ m.status = "complete" =>
       /\ ExportRoles \subseteq RequiredRoles(m)
       /\ m.target = "huggingface"
       /\ m.remaining = {}
       /\ {m.artifacts[i].format : i \in FilesOfRole(m, "model_weights")}
            = {"safetensors"}
       /\ Cardinality(FilesOfRole(m, "model_weights")) > 1
            => "weight_index" \in RequiredRoles(m)

Constructs(m) ==
  IF m.kind = "resume" THEN ResumeConstructs(m) ELSE ExportConstructs(m)

Committed(m) == m # Nothing /\ m.status = "complete"

----------------------------------------------------------------------------
Init ==
  /\ phase = "idle"
  /\ tx = 0
  /\ durable = FALSE
  /\ retained = <<>>
  /\ writer = "idle"
  /\ disk = [t \in Transactions |-> Nothing]
  /\ granted = Nothing

(* Mutant of Begin: durable is left as the transaction before set it.      *)
Begin_KeepsDurable(t) ==
  /\ phase \notin {"shutdown", "in_flight"}
  /\ writer = "idle"
  /\ disk[t] = Nothing
  /\ \A i \in DOMAIN retained : retained[i] # t
  /\ phase' = "in_flight"
  /\ tx' = t
  /\ writer' = "writing"
  /\ granted' = Nothing
  /\ UNCHANGED <<durable, retained, disk>>

(* begin(): refused after shutdown and while a transaction is in flight.   *)
Begin(t) ==
  /\ phase \notin {"shutdown", "in_flight"}
  /\ writer = "idle"
  /\ disk[t] = Nothing
  /\ \A i \in DOMAIN retained : retained[i] # t
  /\ phase' = "in_flight"
  /\ tx' = t
  /\ durable' = FALSE
  /\ writer' = "writing"
  /\ granted' = Nothing
  /\ UNCHANGED <<retained, disk>>

Publishable == {m \in Attempts : Constructs(m)}

(* The writer builds the manifest; what is published is what constructs.   *)
Write ==
  /\ writer = "writing"
  /\ \/ /\ Publishable # Attempts
        /\ writer' = "broken"
        /\ UNCHANGED disk
     \/ \E m \in Publishable :
          /\ disk' = [disk EXCEPT ![tx] = m]
          /\ writer' = IF Committed(m) THEN "written" ELSE "broken"
  /\ UNCHANGED <<phase, tx, durable, retained, granted>>

Kept(old, t) ==
  LET all == Append(old, t)
      n == Len(all)
  IN IF n <= MaxRetained THEN all ELSE SubSeq(all, n - MaxRetained + 1, n)

(* complete(): raises, changing nothing, unless a transaction is in flight *)
(* (the lifecycle may have been shut down before the writer reported).     *)
Complete ==
  /\ writer = "written"
  /\ writer' = "idle"
  /\ IF phase = "in_flight"
     THEN /\ phase' = "committed"
          /\ durable' = TRUE
          /\ retained' = Kept(retained, tx)
     ELSE UNCHANGED <<phase, durable, retained>>
  /\ UNCHANGED <<tx, disk, granted>>

(* fail(): never durable; raises when nothing is in flight.                *)
Fail ==
  /\ writer = "broken"
  /\ writer' = "idle"
  /\ phase' = IF phase = "in_flight" THEN "failed" ELSE phase
  /\ durable' = IF phase = "in_flight" THEN FALSE ELSE durable
  /\ UNCHANGED <<tx, retained, disk, granted>>

(* shutdown(): the incomplete transaction is given up; what is durable     *)
(* stays so.                                                               *)
Shutdown ==
  /\ phase # "shutdown"
  /\ phase' = "shutdown"
  /\ durable' = IF phase = "in_flight" THEN FALSE ELSE durable
  /\ UNCHANGED <<tx, retained, writer, disk, granted>>

(* The process ends: a new lifecycle object retains nothing, the manifests *)
(* are still on disk and a write that was going on has published nothing.  *)
Restart ==
  /\ phase # "idle" \/ granted # Nothing
  /\ phase' = "idle"
  /\ durable' = FALSE
  /\ retained' = <<>>
  /\ writer' = "idle"
  /\ granted' = Nothing
  /\ tx' = 0
  /\ UNCHANGED disk

(* DistributedResumePlan's preconditions beyond the manifest's own.        *)
Plannable(m, backend, world) ==
  /\ m.status = "complete"
  /\ backend = m.backend
  /\ world = m.world
  /\ DOMAIN m.states = Roles
  /\ m.world > 1 => /\ \A s \in Sharded : m.states[s].layout = "sharded"
                    /\ m.states["rng"].layout = "per_rank"
                    /\ m.states["data"].layout = "per_worker"
  /\ DOMAIN m.cursors = 0 .. m.world - 1

(* The planners keep no state: a process calls them before its first save. *)
(* plan_distributed_resume() for a job of `world' ranks on `backend'.      *)
PlanResume(t, backend, world) ==
  /\ phase = "idle" /\ disk[t].kind = "resume"
  /\ granted' = IF Plannable(disk[t], backend, world)
                THEN [kind |-> "resume", from |-> t,
                      backend |-> backend, world |-> world]
                ELSE Nothing
  /\ UNCHANGED <<phase, tx, durable, retained, writer, disk>>

(* plan_canonical_hf_export(): required_roles and forbidden_roles of the   *)
(* plan are recomputed from the manifest and checked again.                *)
PlanExport(t) ==
  /\ phase = "idle" /\ disk[t].kind = "export"
  /\ LET roles == {disk[t].artifacts[i].role : i \in DOMAIN disk[t].artifacts}
     IN granted' = IF /\ disk[t].status = "complete"
                      /\ ExportRoles \subseteq roles
                      /\ roles \cap (Roles \ {"model"}) = {}
                   THEN [kind |-> "export", from |-> t]
                   ELSE Nothing
  /\ UNCHANGED <<phase, tx, durable, retained, writer, disk>>

Next ==
  \/ \E t \in Transactions :
       \/ Begin(t)
       \/ \E b \in Backends, w \in 1 .. World : PlanResume(t, b, w)
       \/ PlanExport(t)
  \/ Write \/ Complete \/ Fail \/ Shutdown \/ Restart

Spec == Init /\ [][Next]_manifestVars

----------------------------------------------------------------------------
(* What a rank finds for itself in a resume that was granted.              *)
ServesRank(m, r) ==
  /\ \E i \in m.states["rng"].ids : /\ i \in FilesOfRole(m, "rng")
                                    /\ m.artifacts[i].rank = r
  /\ m.cursors[r].exact /\ m.cursors[r].state \in FilesOfRole(m, "data")
  /\ \A s \in Sharded : \A i \in m.states[s].ids :
       \E j \in DOMAIN m.artifacts :
         /\ m.artifacts[j].group = m.artifacts[i].group
         /\ m.artifacts[j].count = World
         /\ m.artifacts[j].index = r

(* A granted plan can be carried out: a resume serves every rank of the    *)
(* very job that asked (its random state, its exact cursor, one shard per  *)
(* rank of each sharded state, the optimizer by parameter name), whatever  *)
(* the writer left out of the manifest; an export holds the weights in one *)
(* loadable form and nothing of the training.                              *)
GrantedIsWhole ==
  LET m == disk[granted.from]
  IN /\ granted.kind = "resume" =>
          /\ granted.world = World /\ granted.backend = m.backend
          /\ m.states["optimizer"].keying = "canonical"
          /\ \A r \in 0 .. granted.world - 1 : ServesRank(m, r)
     /\ granted.kind = "export" =>
          /\ m.remaining = {}
          /\ {"optimizer", "rng", "data"} \cap RequiredRoles(m) = {}
          /\ \A i, j \in FilesOfRole(m, "model_weights") :
               m.artifacts[i].format = m.artifacts[j].format
          /\ Cardinality(FilesOfRole(m, "model_weights")) > 1 =>
               FilesOfRole(m, "weight_index") # {}

(* The lifecycle object never claims more than is on disk: what it retains *)
(* is published, in the order it was begun and within the limit, and       *)
(* durable means that the transaction named last is among them, also when  *)
(* shutdown, a failure or a new begin() came between a write and its       *)
(* report.                                                                 *)
DurableIsPublished ==
  /\ Len(retained) <= MaxRetained
  /\ \A i, j \in DOMAIN retained : retained[i] = retained[j] => i = j
  /\ \A i \in DOMAIN retained : Committed(disk[retained[i]])
  /\ durable => retained # <<>> /\ retained[Len(retained)] = tx
=============================================================================
